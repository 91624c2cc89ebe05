----------------------------- MODULE Scheduler -----------------------------
(***************************************************************************)
(* The orchestrator process: the claim loop and the job runners of         *)
(* internal/scheduler, the job rows of internal/store, the job handlers of *)
(* internal/httpapi with the admission check of internal/quota, and the    *)
(* process life cycle of cmd/orchestrator.                                 *)
(*                                                                         *)
(* One action is one call that other goroutines can observe: a SQL         *)
(* statement, an object store or engine call, a channel operation, or a    *)
(* section under the scheduler's mutex.  Publishing and metering follow    *)
(* without a decision in between and are one action with the local code    *)
(* around them.                                                            *)
(*                                                                         *)
(* The rows of one workspace are modelled: admission counts rows of one    *)
(* workspace only, and the claim order is global.                          *)
(***************************************************************************)
EXTENDS Integers, FiniteSets

CONSTANTS
    Jobs,           \* job ids
    Runners,        \* identities for runJob goroutines
    Requests,       \* identities for concurrent HTTP handlers
    None,           \* no job, no runner
    Slots,          \* cfg.Slots, the capacity of the sem channel
    MaxActive,      \* effective maxActiveJobs of the workspace, < 0 unlimited
    AutoCreateJobs, \* ORCH_AUTOCREATE_JOBS
    MaxRungs,       \* bound: rungs of a preset ladder
    MaxQueueings,   \* bound: inserts plus retries in a behaviour
    MaxFaults,      \* bound: database answers lost while the process is up
    MaxRestarts     \* bound: process exits

ASSUME SchedulerAssumption ==
    /\ IsFiniteSet(Jobs)
    /\ IsFiniteSet(Runners)
    /\ IsFiniteSet(Requests)
    /\ None \notin Jobs \cup Runners
    /\ Slots \in Nat \ {0}
    /\ Cardinality(Runners) >= Slots
    /\ MaxActive \in Int
    /\ AutoCreateJobs \in BOOLEAN
    /\ MaxRungs \in Nat \ {0}
    /\ MaxQueueings \in Nat
    /\ MaxFaults \in Nat
    /\ MaxRestarts \in Nat

VARIABLES
    job,        \* job[j]: the Postgres row
    clock,      \* source of queued_at: rows queued later carry larger values
    stored,     \* stored[j][i]: attempt whose outputs of rung i are complete
                \* in the object store, 0 when there are none
    announced,  \* announced[j]: last state published for FT-4
    billed,     \* billed[j]: job_completed metering events emitted
    proc,       \* "up", "stopping" (ctx is done) or "down"
    loop,       \* where Run is
    sem,        \* tokens in the sem channel
    wake,       \* is there a token in the wake channel
    cancels,    \* cancels[j]: runner whose CancelFunc is registered, or None
    runner,     \* runner[r]: a runJob goroutine
    req,        \* req[q]: an HTTP handler
    faults,     \* lost database answers so far
    restarts    \* process exits so far

rows    == <<job, clock>>
effects == <<stored, announced, billed>>
sched   == <<loop, sem, wake, cancels, runner>>
env     == <<proc, faults, restarts>>
vars    == <<rows, effects, sched, req, env>>

(***************************************************************************)
(* error_class and error_message of a row, as far as they are told apart:  *)
(* "user" and "shutdown" are class internal with the message cancelReason  *)
(* gives, "internal" is that class with any other message, "media" is      *)
(* class asset, decode or encode.                                          *)
(***************************************************************************)
Errors == {"none", "user", "shutdown", "internal", "media"}

\* A runJob goroutine before its final UPDATE of the row ...
Working == {"register", "load", "download", "transcode", "putdir", "complete",
            "fail"}
\* ... and after it.
Closing == {"announce", "cleanup", "release"}

NoRow == [state |-> "absent", attempts |-> 0, error |-> "none",
          outputs |-> {}, queuedAt |-> 0]

Idle == [pc |-> "idle", job |-> None, attempt |-> 0, canceled |-> FALSE,
         ladder |-> 1, rung |-> 1, error |-> "none"]

NoRequest == [pc |-> "idle", job |-> None, state |-> "queued"]

Row == [state : {"absent", "queued", "running", "completed", "failed"},
        attempts : Nat, error : Errors, outputs : SUBSET (1..MaxRungs),
        queuedAt : Nat]

Goroutine == [pc : Working \cup Closing \cup {"idle"}, job : Jobs \cup {None},
              attempt : Nat, canceled : BOOLEAN, ladder : 1..MaxRungs,
              rung : 1..(MaxRungs + 1), error : Errors]

Handler == [pc : {"idle", "insert", "retry", "deliver", "dequeue", "announce"},
            job : Jobs \cup {None}, state : {"queued", "failed"}]

StoreType ==
    /\ job \in [Jobs -> Row]
    /\ clock \in Nat
    /\ stored \in [Jobs -> [1..MaxRungs -> Nat]]
    /\ announced \in [Jobs -> {"none", "queued", "running", "completed", "failed"}]
    /\ billed \in [Jobs -> Nat]

LoopType ==
    /\ loop \in {"acquire", "claim", "wait", "stopped"}
    /\ sem \in Int
    /\ wake \in BOOLEAN
    /\ proc \in {"up", "stopping", "down"}
    /\ faults \in Nat
    /\ restarts \in Nat

RunnerType ==
    /\ cancels \in [Jobs -> Runners \cup {None}]
    /\ runner \in [Runners -> Goroutine]
    /\ \A r \in Runners :
         /\ runner[r].pc # "idle" => runner[r].job \in Jobs
         /\ runner[r].pc \in {"register", "load"} => runner[r].rung = 1
         /\ runner[r].pc \in {"download", "transcode", "putdir"}
              => runner[r].rung <= runner[r].ladder

HandlerType ==
    /\ req \in [Requests -> Handler]
    /\ \A q \in Requests :
         req[q].pc \notin {"idle", "insert"} => req[q].job \in Jobs

\* The shape of the state.  A goroutine that lives has a job, and it stays
\* within the ladder it read until the last rung is stored (runJob).
TypeOK == StoreType /\ LoopType /\ RunnerType /\ HandlerType

Init ==
    /\ job = [j \in Jobs |-> NoRow]
    /\ clock = 0
    /\ stored = [j \in Jobs |-> [i \in 1..MaxRungs |-> 0]]
    /\ announced = [j \in Jobs |-> "none"]
    /\ billed = [j \in Jobs |-> 0]
    /\ proc = "up"
    /\ loop = "acquire"
    /\ sem = 0
    /\ wake = FALSE
    /\ cancels = [j \in Jobs |-> None]
    /\ runner = [r \in Runners |-> Idle]
    /\ req = [q \in Requests |-> NoRequest]
    /\ faults = 0
    /\ restarts = 0

-----------------------------------------------------------------------------
(***************************************************************************)
(* The job store: one operator per statement, giving the rows after it.    *)
(* The WHERE guard of a statement is the ...Applies operator beside it.    *)
(***************************************************************************)

Queued(j)  == job[j].state = "queued"
Active     == {j \in Jobs : job[j].state \in {"queued", "running"}}

\* INSERT ... state 'queued'.
Inserted(j) ==
    [job EXCEPT ![j] = [NoRow EXCEPT !.state = "queued", !.queuedAt = clock]]

\* The row ORDER BY queued_at LIMIT 1 selects.
Oldest(j) == Queued(j) /\ \A k \in Jobs : Queued(k) => job[j].queuedAt <= job[k].queuedAt

Claimed(j) ==
    [job EXCEPT ![j] = [@ EXCEPT !.state = "running", !.error = "none",
                                 !.attempts = job[j].attempts + 1]]

UpdateProgressApplies(j) == job[j].state = "running"
Progressed(j, done) == [job EXCEPT ![j] = [@ EXCEPT !.outputs = done]]

MarkCompletedApplies(j) == job[j].state = "running"
Completed(j, done) ==
    [job EXCEPT ![j] = [@ EXCEPT !.state = "completed", !.outputs = done]]

MarkFailedApplies(j) == job[j].state \in {"queued", "running"}
Failed(j, error) ==
    [job EXCEPT ![j] = [@ EXCEPT !.state = "failed", !.error = error]]

\* Mutants: retry accepts a state that CanRetry does not.
RetryWhileRunning(j) == job[j].state \in {"failed", "running"}
RetryWhenFinished(j) == job[j].state \in {"failed", "completed"}

RetryJobApplies(j) == job[j].state = "failed"
\* Mutant: the outputs column is not reset.
RetriedKeepsOutputs(j) ==
    [job EXCEPT ![j] = [@ EXCEPT !.state = "queued", !.error = "none",
                                 !.queuedAt = clock]]

Retried(j) ==
    [job EXCEPT ![j] = [@ EXCEPT !.state = "queued", !.error = "none",
                                 !.outputs = {}, !.queuedAt = clock]]

\* Mutant: the statement trusts the state the handler read.
CancelQueuedUnguarded(j) == job[j].state \in {"queued", "running"}

CancelQueuedApplies(j) == job[j].state = "queued"

-----------------------------------------------------------------------------
(***************************************************************************)
(* A lost answer: the statement committed or not, and the caller sees an   *)
(* error.  While the process is up this is a fault out of the budget; once *)
(* ctx is done every statement on it ends that way.                        *)
(***************************************************************************)
AnswerLost ==
    \/ proc = "stopping" /\ UNCHANGED faults
    \/ proc = "up" /\ faults < MaxFaults /\ faults' = faults + 1

(***************************************************************************)
(* Run: the claim loop.                                                    *)
(***************************************************************************)
\* Mutant: one token too many.
AcquireOneMore ==
    /\ loop = "acquire" /\ sem <= Slots
    /\ sem' = sem + 1
    /\ loop' = "claim"
    /\ UNCHANGED <<rows, effects, wake, cancels, runner, req, env>>

AcquireSlot ==
    /\ loop = "acquire" /\ sem < Slots
    /\ sem' = sem + 1
    /\ loop' = "claim"
    /\ UNCHANGED <<rows, effects, wake, cancels, runner, req, env>>

Spawned(j) == [Idle EXCEPT !.pc = "register", !.job = j,
                            !.attempt = job[j].attempts + 1]

ClaimAndSpawn(r, j) ==
    /\ loop = "claim" /\ proc = "up"
    /\ Oldest(j)
    /\ runner[r].pc = "idle"
    /\ job' = Claimed(j)
    /\ runner' = [runner EXCEPT ![r] = Spawned(j)]
    /\ loop' = "acquire"
    /\ UNCHANGED <<clock, effects, sem, wake, cancels, req, env>>

ReleaseAndWait ==
    /\ sem' = sem - 1
    /\ loop' = "wait"
    /\ UNCHANGED <<clock, effects, wake, cancels, runner, req, proc, restarts>>

ClaimNothing ==
    /\ loop = "claim" /\ proc = "up"
    /\ \A j \in Jobs : ~Queued(j)
    /\ ReleaseAndWait
    /\ UNCHANGED <<job, faults>>

ClaimError ==
    /\ loop = "claim"
    /\ AnswerLost
    /\ ReleaseAndWait
    /\ \/ UNCHANGED job
       \/ \E j \in Jobs : Oldest(j) /\ job' = Claimed(j)

WakeUp ==
    /\ loop = "wait" /\ wake
    /\ wake' = FALSE
    /\ loop' = "acquire"
    /\ UNCHANGED <<rows, effects, sem, cancels, runner, req, env>>

Tick ==
    /\ loop = "wait"
    /\ loop' = "acquire"
    /\ UNCHANGED <<rows, effects, sem, wake, cancels, runner, req, env>>

StopLoop ==
    /\ loop \in {"acquire", "wait"} /\ proc = "stopping"
    /\ loop' = "stopped"
    /\ UNCHANGED <<rows, effects, sem, wake, cancels, runner, req, env>>

LoopStep ==
    \/ AcquireSlot
    \/ \E r \in Runners, j \in Jobs : ClaimAndSpawn(r, j)
    \/ ClaimNothing
    \/ WakeUp
    \/ Tick
    \/ StopLoop

-----------------------------------------------------------------------------
(***************************************************************************)
(* runJob: one goroutine per claimed job.                                  *)
(***************************************************************************)

\* ctx.Err() != nil for the job context, derived from the scheduler's.
CtxDone(r) == runner[r].canceled \/ proc = "stopping"

CancelReason == IF proc = "stopping" THEN "shutdown" ELSE "user"

\* The goroutine moves on; nothing else changes.
Goto(r, pc) == runner' = [runner EXCEPT ![r] = [@ EXCEPT !.pc = pc]]

\* The goroutine enters fail with an error class and message.
FailWith(r, error) ==
    runner' = [runner EXCEPT ![r] = [@ EXCEPT !.pc = "fail", !.error = error]]

Register(r) ==
    /\ runner[r].pc = "register"
    /\ cancels' = [cancels EXCEPT ![runner[r].job] = r]
    /\ announced' = [announced EXCEPT ![runner[r].job] = "running"]
    /\ Goto(r, "load")
    /\ UNCHANGED <<rows, stored, billed, loop, sem, wake, req, env>>

\* GetPreset, which fixes the ladder of this attempt, GetSource, Exists and
\* the scratch directory: reads on the job ctx, none of which looks at ctx
\* after it failed.
LoadInputs(r) ==
    /\ runner[r].pc = "load"
    /\ \/ /\ ~CtxDone(r)
          /\ \E n \in 1..MaxRungs :
               runner' = [runner EXCEPT ![r] = [@ EXCEPT !.pc = "download", !.ladder = n]]
       \/ \E error \in {"internal", "media"} : FailWith(r, error)
    /\ UNCHANGED <<rows, effects, loop, sem, wake, cancels, req, env>>

Download(r) ==
    /\ runner[r].pc = "download"
    /\ \/ ~CtxDone(r) /\ Goto(r, "transcode")
       \/ ~CtxDone(r) /\ FailWith(r, "media")
       \/ CtxDone(r) /\ FailWith(r, CancelReason)
    /\ UNCHANGED <<rows, effects, loop, sem, wake, cancels, req, env>>

\* Mutant: the rung being encoded counts as done.
RungsStarted(r) == 1..runner[r].rung

RungsDone(r) == 1..(runner[r].rung - 1)

\* onProgress: persists on the scheduler ctx, then publishes.
OnProgress(r) ==
    LET j == runner[r].job IN
    /\ runner[r].pc = "transcode"
    /\ job' = IF proc = "up" /\ UpdateProgressApplies(j)
              THEN Progressed(j, RungsDone(r)) ELSE job
    /\ announced' = [announced EXCEPT ![j] = "running"]
    /\ UNCHANGED <<clock, stored, billed, sched, req, env>>

\* One rung: the ctx check at the top of the loop, the staging directory and
\* the engine call, classified by the stage of the engine's error.
Transcode(r) ==
    /\ runner[r].pc = "transcode"
    /\ \/ ~CtxDone(r) /\ Goto(r, "putdir")
       \/ ~CtxDone(r) /\ \E error \in {"internal", "media"} : FailWith(r, error)
       \/ CtxDone(r) /\ FailWith(r, CancelReason)
    /\ UNCHANGED <<rows, effects, loop, sem, wake, cancels, req, env>>

\* Mutant: the upload runs on the scheduler's ctx, so a cancel of the job does
\* not reach it.
PutDirOnParent(r) ==
    LET j == runner[r].job
        i == runner[r].rung
    IN
    /\ runner[r].pc = "putdir"
    /\ \/ /\ proc # "stopping"
          /\ stored' = [stored EXCEPT ![j] = [@ EXCEPT ![i] = runner[r].attempt]]
          /\ runner' = [runner EXCEPT ![r] =
                          [@ EXCEPT !.rung = i + 1,
                                    !.pc = IF i < runner[r].ladder
                                           THEN "transcode" ELSE "complete"]]
       \/ /\ stored' \in {stored, [stored EXCEPT ![j] = [@ EXCEPT ![i] = 0]]}
          /\ FailWith(r, IF proc = "stopping" THEN "shutdown" ELSE "internal")
    /\ UNCHANGED <<rows, announced, billed, loop, sem, wake, cancels, req, env>>

\* The rung's outputs go to the object store; an upload that ends early
\* leaves the rung incomplete.
PutDir(r) ==
    LET j == runner[r].job
        i == runner[r].rung
    IN
    /\ runner[r].pc = "putdir"
    /\ \/ /\ ~CtxDone(r)
          /\ stored' = [stored EXCEPT ![j] = [@ EXCEPT ![i] = runner[r].attempt]]
          /\ runner' = [runner EXCEPT ![r] =
                          [@ EXCEPT !.rung = i + 1,
                                    !.pc = IF i < runner[r].ladder
                                           THEN "transcode" ELSE "complete"]]
       \/ /\ stored' \in {stored, [stored EXCEPT ![j] = [@ EXCEPT ![i] = 0]]}
          /\ FailWith(r, IF CtxDone(r) THEN CancelReason ELSE "internal")
    /\ UNCHANGED <<rows, announced, billed, loop, sem, wake, cancels, req, env>>

\* Mutant: no return after an error of MarkCompleted.
MarkCompletedNoReturn(r) ==
    /\ runner[r].pc = "complete"
    /\ \/ /\ proc = "up" /\ UNCHANGED faults
          /\ job' = Completed(runner[r].job, RungsDone(r))
       \/ AnswerLost /\ UNCHANGED job
    /\ Goto(r, "announce")
    /\ UNCHANGED <<clock, effects, loop, sem, wake, cancels, req, proc, restarts>>

\* After MarkCompleted: the events follow only when it succeeded.
MarkCompleted(r) ==
    LET j == runner[r].job
        completed == IF MarkCompletedApplies(j)
                     THEN Completed(j, RungsDone(r)) ELSE job
    IN
    /\ runner[r].pc = "complete"
    /\ \/ /\ proc = "up" /\ UNCHANGED faults
          /\ job' = completed
          /\ Goto(r, IF MarkCompletedApplies(j) THEN "announce" ELSE "cleanup")
       \/ AnswerLost /\ job' \in {job, completed} /\ Goto(r, "cleanup")
    /\ UNCHANGED <<clock, effects, loop, sem, wake, cancels, req, proc, restarts>>

\* fail: MarkFailed, whose error is only logged.
MarkFailed(r) ==
    LET j == runner[r].job
        failed == IF MarkFailedApplies(j)
                  THEN Failed(j, runner[r].error) ELSE job
    IN
    /\ runner[r].pc = "fail"
    /\ \/ proc = "up" /\ UNCHANGED faults /\ job' = failed
       \/ AnswerLost /\ job' \in {job, failed}
    /\ Goto(r, "announce")
    /\ UNCHANGED <<clock, effects, loop, sem, wake, cancels, req, proc, restarts>>

\* The terminal state runJob reached: an error is set exactly when it failed.
Outcome(r) == IF runner[r].error = "none" THEN "completed" ELSE "failed"

\* publishState and meterEmit; metering runs on the scheduler ctx.
Announce(r) ==
    LET j == runner[r].job IN
    /\ runner[r].pc = "announce"
    /\ announced' = [announced EXCEPT ![j] = Outcome(r)]
    /\ billed' = IF Outcome(r) = "completed" /\ proc = "up"
                 THEN [billed EXCEPT ![j] = @ + 1] ELSE billed
    /\ Goto(r, "cleanup")
    /\ UNCHANGED <<rows, stored, loop, sem, wake, cancels, req, env>>

\* Mutant: no deferred delete.
CleanupForgets(r) ==
    /\ runner[r].pc = "cleanup"
    /\ Goto(r, "release")
    /\ UNCHANGED <<rows, effects, loop, sem, wake, cancels, req, env>>

\* The deferred delete(s.cancels, j.ID), by key.
Cleanup(r) ==
    /\ runner[r].pc = "cleanup"
    /\ cancels' = [cancels EXCEPT ![runner[r].job] = None]
    /\ Goto(r, "release")
    /\ UNCHANGED <<rows, effects, loop, sem, wake, req, env>>

\* Mutant: the slot is not given back.
ReleaseLeaksSlot(r) ==
    /\ runner[r].pc = "release"
    /\ wake' = TRUE
    /\ runner' = [runner EXCEPT ![r] = Idle]
    /\ UNCHANGED <<rows, effects, loop, sem, cancels, req, env>>

\* The deferred <-s.sem and Wake.
Release(r) ==
    /\ runner[r].pc = "release"
    /\ sem' = sem - 1
    /\ wake' = TRUE
    /\ runner' = [runner EXCEPT ![r] = Idle]
    /\ UNCHANGED <<rows, effects, loop, cancels, req, env>>

RunnerStep(r) ==
    \/ Register(r) \/ LoadInputs(r) \/ Download(r) \/ Transcode(r)
    \/ PutDir(r) \/ MarkCompleted(r) \/ MarkFailed(r)
    \/ Announce(r) \/ Cleanup(r) \/ Release(r)

-----------------------------------------------------------------------------
(***************************************************************************)
(* The HTTP handlers.  A handler that answers an error before changing     *)
(* anything takes no step of its own or ends in RequestEnds.               *)
(***************************************************************************)

\* CheckJobAdmission over CountActiveJobs.
Admitted == MaxActive < 0 \/ Cardinality(Active) < MaxActive

Begin(q, pc, j) == req' = [req EXCEPT ![q] = [pc |-> pc, job |-> j, state |-> "queued"]]

Accepting(q) == proc = "up" /\ req[q].pc = "idle"

\* Mutant: no admission check.
CreateUnchecked(q) ==
    /\ Accepting(q)
    /\ Begin(q, "insert", None)
    /\ UNCHANGED <<rows, effects, sched, env>>

CreateAdmit(q) ==
    /\ Accepting(q)
    /\ Admitted
    /\ Begin(q, "insert", None)
    /\ UNCHANGED <<rows, effects, sched, env>>

\* The landed-event consumer inserts without an admission check.
AutoCreate(q) ==
    /\ AutoCreateJobs
    /\ Accepting(q)
    /\ Begin(q, "insert", None)
    /\ UNCHANGED <<rows, effects, sched, env>>

RetryAdmit(q, j) ==
    /\ Accepting(q)
    /\ Admitted
    /\ job[j].state # "absent"
    /\ Begin(q, "retry", j)
    /\ UNCHANGED <<rows, effects, sched, env>>

\* GetJob and the switch on the state it read.
CancelRead(q, j) ==
    /\ Accepting(q)
    /\ \/ job[j].state = "running" /\ Begin(q, "deliver", j)
       \/ job[j].state = "queued" /\ Begin(q, "dequeue", j)
    /\ UNCHANGED <<rows, effects, sched, env>>

\* The statement committed: the handler goes on to its events, or its caller
\* is gone and it stops with an error.
Answer(q, j, s) ==
    \/ /\ req' = [req EXCEPT ![q] = [pc |-> "announce", job |-> j, state |-> s]]
       /\ UNCHANGED faults
    \/ /\ faults < MaxFaults
       /\ faults' = faults + 1
       /\ req' = [req EXCEPT ![q] = NoRequest]

CreateJob(q, j) ==
    /\ req[q].pc = "insert"
    /\ clock < MaxQueueings
    /\ job[j].state = "absent"
    /\ job' = Inserted(j)
    /\ clock' = clock + 1
    /\ Answer(q, j, "queued")
    /\ UNCHANGED <<effects, sched, proc, restarts>>

RetryJob(q) ==
    LET j == req[q].job IN
    /\ req[q].pc = "retry"
    /\ clock < MaxQueueings
    /\ RetryJobApplies(j)
    /\ job' = Retried(j)
    /\ clock' = clock + 1
    /\ Answer(q, j, "queued")
    /\ UNCHANGED <<effects, sched, proc, restarts>>

CancelQueued(q) ==
    LET j == req[q].job IN
    /\ req[q].pc = "dequeue"
    /\ CancelQueuedApplies(j)
    /\ job' = Failed(j, "user")
    /\ Answer(q, j, "failed")
    /\ UNCHANGED <<clock, effects, sched, proc, restarts>>

\* Scheduler.Cancel: look the CancelFunc up under the mutex and call it.
Cancel(q) ==
    LET r == cancels[req[q].job] IN
    /\ req[q].pc = "deliver"
    /\ runner' = IF r = None THEN runner
                 ELSE [runner EXCEPT ![r] = [@ EXCEPT !.canceled = TRUE]]
    /\ req' = [req EXCEPT ![q] = NoRequest]
    /\ UNCHANGED <<rows, effects, loop, sem, wake, cancels, env>>

\* Mutant: no Wake after create and retry.
AnnounceWithoutWake(q) ==
    /\ req[q].pc = "announce"
    /\ announced' = [announced EXCEPT ![req[q].job] = req[q].state]
    /\ req' = [req EXCEPT ![q] = NoRequest]
    /\ UNCHANGED <<rows, stored, billed, sched, env>>

\* Publish the row's state; create and retry then nudge the loop.
AnnounceRequest(q) ==
    /\ req[q].pc = "announce"
    /\ announced' = [announced EXCEPT ![req[q].job] = req[q].state]
    /\ wake' = (wake \/ req[q].state = "queued")
    /\ req' = [req EXCEPT ![q] = NoRequest]
    /\ UNCHANGED <<rows, stored, billed, loop, sem, cancels, runner, env>>

\* A conflict, or an error before the statement took effect.
RequestEnds(q) ==
    /\ req[q].pc \in {"insert", "retry", "dequeue"}
    /\ req' = [req EXCEPT ![q] = NoRequest]
    /\ UNCHANGED <<rows, effects, sched, env>>

StartRequest(q) ==
    \/ CreateAdmit(q) \/ AutoCreate(q)
    \/ \E j \in Jobs : RetryAdmit(q, j) \/ CancelRead(q, j)

FinishRequest(q) ==
    \/ \E j \in Jobs : CreateJob(q, j)
    \/ RetryJob(q) \/ CancelQueued(q) \/ Cancel(q)
    \/ AnnounceRequest(q) \/ RequestEnds(q)

-----------------------------------------------------------------------------
(***************************************************************************)
(* The process.  A signal makes ctx done; main returns without waiting for *)
(* Run; rows stay as they are; nothing at startup looks at running rows.   *)
(***************************************************************************)
Shutdown ==
    /\ proc = "up" /\ restarts < MaxRestarts
    /\ proc' = "stopping"
    /\ UNCHANGED <<rows, effects, sched, req, faults, restarts>>

Exit ==
    /\ proc # "down" /\ restarts < MaxRestarts
    /\ proc' = "down"
    /\ restarts' = restarts + 1
    /\ loop' = "stopped"
    /\ sem' = 0
    /\ wake' = FALSE
    /\ cancels' = [j \in Jobs |-> None]
    /\ runner' = [r \in Runners |-> Idle]
    /\ req' = [q \in Requests |-> NoRequest]
    /\ UNCHANGED <<rows, effects, faults>>

Start ==
    /\ proc = "down"
    /\ proc' = "up"
    /\ loop' = "acquire"
    /\ UNCHANGED <<rows, effects, sem, wake, cancels, runner, req, faults, restarts>>

Next ==
    \/ LoopStep
    \/ ClaimError
    \/ \E r \in Runners : RunnerStep(r) \/ OnProgress(r)
    \/ \E q \in Requests : StartRequest(q) \/ FinishRequest(q)
    \/ Shutdown
    \/ Exit
    \/ Start

Spec == Init /\ [][Next]_vars

-----------------------------------------------------------------------------
(***************************************************************************)
(* Properties.                                                             *)
(***************************************************************************)

\* Two goroutines never execute the same job: a job that is canceled, retried
\* and claimed again while its first runJob is still returning is executed by
\* the second one only (ClaimNextQueued, runJob).
ExclusiveExecution ==
    \A r, s \in Runners :
        /\ runner[r].pc \in Working
        /\ runner[s].pc \in Working
        /\ runner[r].job = runner[s].job
        => r = s

\* While runJob executes a job, nobody else moves its row: it stays running
\* at the attempt that was claimed, so neither MarkCompleted nor MarkFailed
\* of that goroutine meets a row it does not own.
WorkingOwnsRow ==
    \A r \in Runners : runner[r].pc \in Working =>
        /\ job[runner[r].job].state = "running"
        /\ job[runner[r].job].attempts = runner[r].attempt

Occupied == {r \in Runners : runner[r].pc # "idle"}

\* At most cfg.Slots runJob goroutines exist, whatever mixture of claims,
\* failed claims, cancels and retries led there (the sem channel of Run).
SlotsRespected == Cardinality(Occupied) <= Slots

\* The outputs a completed job lists are in the object store, and they were
\* written by the attempt that completed it: no earlier attempt's upload has
\* replaced or torn them (PutDir before MarkCompleted in runJob; the output
\* prefix is the same for every attempt).
CompletedOutputsStored ==
    \A j \in Jobs : job[j].state = "completed" =>
        /\ job[j].outputs # {}
        /\ \A i \in job[j].outputs : stored[j][i] = job[j].attempts

\* A job is announced and billed as completed only when its row says so, and
\* is billed once however many attempts, cancels and lost answers it took
\* (the early return after MarkCompleted in runJob).
CompletionIsReal ==
    \A j \in Jobs :
        /\ announced[j] = "completed" => job[j].state = "completed"
        /\ billed[j] > 0 => job[j].state = "completed"
        /\ billed[j] <= 1

\* A queued row carries nothing of its earlier attempts: no outputs, no error
\* (the resets of RetryJob, over failed, cancelled and half-finished attempts).
QueuedIsClean ==
    \A j \in Jobs : Queued(j) =>
        job[j].outputs = {} /\ job[j].error = "none"

\* The loop does not sleep over a queued row: as long as no database answer
\* was lost, when Run waits while a row is queued then a wake token is there,
\* or the handler that queued a row is about to leave one.  Encodes that go on
\* in other slots are no excuse.  The poll ticker is needed only after a lost
\* answer (Wake, Run).
NoLostWakeup ==
    (loop = "wait" /\ proc = "up" /\ faults = 0 /\ \E j \in Jobs : Queued(j)) =>
        \/ wake
        \/ \E q \in Requests : req[q].pc = "announce" /\ req[q].state = "queued"

\* A registered CancelFunc always belongs to a live goroutine of that job, so
\* a cancel never stops another job (the cancels map of Scheduler).
CancelHitsOwnJob ==
    \A j \in Jobs : cancels[j] # None =>
        /\ runner[cancels[j]].pc \notin {"idle", "register", "release"}
        /\ runner[cancels[j]].job = j

\* The admission check of createJob and retryJob counts and then acts, so the
\* cap is soft, although retryJob's comment and the README mean a hard one; it
\* is exceeded by at most one job per further concurrent handler when
\* auto-create is off.
QuotaOvershootBound ==
    (MaxActive >= 1 /\ ~AutoCreateJobs) =>
        Cardinality(Active) <= MaxActive + Cardinality(Requests) - 1

\* The rows only move along the edges of jobs.CanTransition.
Lifecycle == INSTANCE JobLifecycle WITH state <- [j \in Jobs |-> job[j].state]

ImplementsLifecycle == Lifecycle!Spec

\* Refuted.  fail "finalizes a job as failed": once it has returned, the row of
\* that attempt is no longer running.
FailFinalizes ==
    \A r \in Runners :
        (runner[r].pc \in Closing /\ Outcome(r) = "failed") =>
            ~(/\ job[runner[r].job].state = "running"
              /\ job[runner[r].job].attempts = runner[r].attempt)

-----------------------------------------------------------------------------
(***************************************************************************)
(* Liveness, without process exits and lost answers.  The goroutines are   *)
(* scheduled by the Go runtime, statements return, and the ticker fires;   *)
(* clients need not send anything.  How long a download, an encode or an   *)
(* upload takes is up to the media and the network: it need not end at     *)
(* all, unless its ctx does it.                                            *)
(***************************************************************************)
LongCalls == {"download", "transcode", "putdir"}

\* A call of runJob returns because the job's ctx is done.
Interrupted(r) ==
    /\ CtxDone(r) /\ runner[r].pc \in LongCalls
    /\ RunnerStep(r) /\ runner'[r].error = CancelReason

Fairness ==
    /\ WF_vars(LoopStep)
    /\ \A r \in Runners :
        /\ WF_vars(RunnerStep(r) /\ runner[r].pc \notin LongCalls)
        /\ WF_vars(Interrupted(r))
    /\ \A q \in Requests : WF_vars(FinishRequest(q))

FairSpec == Spec /\ Fairness

LongCallsEnd == \A r \in Runners : []<>(runner[r].pc \notin LongCalls)

\* If no download, encode or upload lasts for ever, every queued job is
\* eventually claimed or canceled, and every claimed job is eventually completed
\* or failed (Run, runJob).
JobsProgress ==
    LongCallsEnd =>
        \A j \in Jobs :
            /\ Queued(j) ~> ~Queued(j)
            /\ job[j].state = "running" ~> job[j].state # "running"

\* A delivered cancel stops the goroutine and frees its slot, whatever call it
\* finds it in, however long that call would have lasted and however many are
\* still to come: each of the long ones runs on the ctx that Cancel ends
\* (runJob).
CancelFreesSlot ==
    \A r \in Runners : runner[r].canceled ~> runner[r].pc = "idle"

=============================================================================
