-------------------------- MODULE SchedulerProofs --------------------------
(***************************************************************************)
(* Theorems about Scheduler.tla, for every set of jobs, goroutines and     *)
(* handlers and every bound.                                               *)
(***************************************************************************)
EXTENDS Scheduler, FiniteSetTheorems, TLAPS

-----------------------------------------------------------------------------
(* Type correctness. *)

\* The store's statements give rows of the right shape (store.go).
LEMMA StatementsKeepShape ==
    ASSUME StoreType, NEW j \in Jobs
    PROVE  /\ Inserted(j) \in [Jobs -> Row]
           /\ Claimed(j) \in [Jobs -> Row]
           /\ Retried(j) \in [Jobs -> Row]
           /\ \A done \in SUBSET (1..MaxRungs) :
                /\ Progressed(j, done) \in [Jobs -> Row]
                /\ Completed(j, done) \in [Jobs -> Row]
           /\ \A error \in Errors : Failed(j, error) \in [Jobs -> Row]
  <1>1. Inserted(j) \in [Jobs -> Row]
    BY DEF StoreType, Row, NoRow, Errors, Inserted
  <1>2. Claimed(j) \in [Jobs -> Row]
    <2>1. job[j] \in Row /\ job[j].attempts + 1 \in Nat
      BY DEF StoreType, Row
    <2>2. [job[j] EXCEPT !.state = "running", !.error = "none",
                         !.attempts = job[j].attempts + 1] \in Row
      BY <2>1 DEF Row, Errors
    <2>3. QED
      BY <2>2 DEF StoreType, Claimed
  <1>3. Retried(j) \in [Jobs -> Row]
    BY DEF StoreType, Row, Errors, Retried
  <1>4. ASSUME NEW done \in SUBSET (1..MaxRungs)
        PROVE  /\ Progressed(j, done) \in [Jobs -> Row]
               /\ Completed(j, done) \in [Jobs -> Row]
    BY DEF StoreType, Row, Progressed, Completed
  <1>5. ASSUME NEW error \in Errors PROVE Failed(j, error) \in [Jobs -> Row]
    BY DEF StoreType, Row, Failed
  <1>6. QED
    BY <1>1, <1>2, <1>3, <1>4, <1>5

\* A fresh goroutine, and a goroutine that moves on or enters fail, have the
\* right shape (runJob).
LEMMA GoroutinesKeepShape ==
    /\ Idle \in Goroutine
    /\ \A j \in Jobs : StoreType => Spawned(j) \in Goroutine
    /\ \A x \in Goroutine, pc \in Working \cup Closing :
         [x EXCEPT !.pc = pc] \in Goroutine
    /\ \A x \in Goroutine, error \in Errors :
         [x EXCEPT !.pc = "fail", !.error = error] \in Goroutine
  <1>1. Idle \in Goroutine
    <2>1. 1 \in 1..MaxRungs /\ 1 \in 1..(MaxRungs + 1)
      BY SchedulerAssumption
    <2>2. QED
      BY <2>1 DEF Idle, Goroutine, Errors
  <1>2. ASSUME NEW j \in Jobs, StoreType PROVE Spawned(j) \in Goroutine
    <2>1. job[j].attempts + 1 \in Nat
      BY <1>2 DEF StoreType, Row
    <2>2. "register" \in Working
      BY DEF Working
    <2>3. QED
      BY <1>1, <2>1, <2>2 DEF Spawned, Goroutine
  <1>3. ASSUME NEW x \in Goroutine, NEW pc \in Working \cup Closing
        PROVE  [x EXCEPT !.pc = pc] \in Goroutine
    BY DEF Goroutine
  <1>4. ASSUME NEW x \in Goroutine, NEW error \in Errors
        PROVE  [x EXCEPT !.pc = "fail", !.error = error] \in Goroutine
    <2>1. "fail" \in Working
      BY DEF Working
    <2>2. QED
      BY <2>1 DEF Goroutine
  <1>5. QED
    BY <1>1, <1>2, <1>3, <1>4

\* The claim loop keeps the shape of the state (Run).
LEMMA LoopTypes == TypeOK /\ (LoopStep \/ ClaimError) => TypeOK'
  <1> SUFFICES ASSUME TypeOK, LoopStep \/ ClaimError PROVE TypeOK'
    OBVIOUS
  <1> USE DEF rows, effects, env
  <1>1. CASE AcquireSlot
    BY <1>1 DEF AcquireSlot, TypeOK, StoreType, LoopType, RunnerType, HandlerType
  <1>2. ASSUME NEW r \in Runners, NEW j \in Jobs, ClaimAndSpawn(r, j)
        PROVE  TypeOK'
    <2>1. StoreType'
      BY <1>2, StatementsKeepShape DEF ClaimAndSpawn, TypeOK, StoreType
    <2>2. LoopType' /\ HandlerType'
      BY <1>2 DEF ClaimAndSpawn, TypeOK, LoopType, HandlerType
    <2>3. /\ Spawned(j) \in Goroutine
          /\ Spawned(j).pc = "register" /\ Spawned(j).job = j /\ Spawned(j).rung = 1
      BY GoroutinesKeepShape DEF TypeOK, Spawned, Idle
    <2>4. RunnerType'
      BY <1>2, <2>3 DEF ClaimAndSpawn, TypeOK, RunnerType
    <2>5. QED
      BY <2>1, <2>2, <2>4 DEF TypeOK
  <1>3. CASE ClaimNothing
    BY <1>3 DEF ClaimNothing, ReleaseAndWait, TypeOK, StoreType, LoopType,
                RunnerType, HandlerType
  <1>4. CASE ClaimError
    <2>1. StoreType'
      BY <1>4, StatementsKeepShape DEF ClaimError, ReleaseAndWait, TypeOK, StoreType
    <2>2. LoopType' /\ RunnerType' /\ HandlerType'
      BY <1>4 DEF ClaimError, AnswerLost, ReleaseAndWait, TypeOK, LoopType,
                  RunnerType, HandlerType
    <2>3. QED
      BY <2>1, <2>2 DEF TypeOK
  <1>5. CASE WakeUp
    BY <1>5 DEF WakeUp, TypeOK, StoreType, LoopType, RunnerType, HandlerType
  <1>6. CASE Tick
    BY <1>6 DEF Tick, TypeOK, StoreType, LoopType, RunnerType, HandlerType
  <1>7. CASE StopLoop
    BY <1>7 DEF StopLoop, TypeOK, StoreType, LoopType, RunnerType, HandlerType
  <1>8. QED
    BY <1>1, <1>2, <1>3, <1>4, <1>5, <1>6, <1>7 DEF LoopStep

\* A step of a goroutine that only moves it on or into fail keeps the shape of
\* the goroutines, if the rung it is at stays within its ladder (runJob).
LEMMA MovesKeepShape ==
    ASSUME RunnerType, NEW r \in Runners, runner[r].pc # "idle", cancels' = cancels,
           NEW pc \in {"announce", "cleanup", "release", "complete", "fail"},
           NEW error \in Errors,
           \/ Goto(r, pc)
           \/ FailWith(r, error)
           \/ Goto(r, "transcode") /\ runner[r].pc = "download"
           \/ Goto(r, "putdir") /\ runner[r].pc = "transcode"
    PROVE  RunnerType'
  <1>1. runner' \in [Runners -> Goroutine]
    <2>1. runner[r] \in Goroutine
      BY DEF RunnerType
    <2>2. pc \in Working \cup Closing /\ "transcode" \in Working /\ "putdir" \in Working
      BY DEF Working, Closing
    <2>3. ASSUME NEW p \in Working \cup Closing, Goto(r, p)
          PROVE  runner' \in [Runners -> Goroutine]
      <3>1. [runner[r] EXCEPT !.pc = p] \in Goroutine
        BY <2>1, GoroutinesKeepShape
      <3>2. QED
        BY <2>3, <3>1 DEF RunnerType, Goto
    <2>4. ASSUME FailWith(r, error) PROVE runner' \in [Runners -> Goroutine]
      <3>1. [runner[r] EXCEPT !.pc = "fail", !.error = error] \in Goroutine
        BY <2>1, GoroutinesKeepShape
      <3>2. QED
        BY <2>4, <3>1 DEF RunnerType, FailWith
    <2>5. QED
      BY <2>2, <2>3, <2>4
  <1>2. \A s \in Runners \ {r} : runner'[s] = runner[s]
    BY DEF RunnerType, Goto, FailWith
  <1>3. /\ runner'[r].job = runner[r].job
        /\ runner'[r].rung = runner[r].rung
        /\ runner'[r].ladder = runner[r].ladder
        /\ \/ runner'[r].pc \in {"announce", "cleanup", "release", "complete", "fail"}
           \/ /\ runner'[r].pc \in {"transcode", "putdir"}
              /\ runner[r].pc \in {"download", "transcode"}
    BY DEF RunnerType, Goroutine, Goto, FailWith
  <1>4. QED
    BY <1>1, <1>2, <1>3 DEF RunnerType

\* The runJob goroutines keep the shape of the state (runJob, fail).
LEMMA RunnerTypes ==
    ASSUME TypeOK, NEW r \in Runners, RunnerStep(r) \/ OnProgress(r)
    PROVE  TypeOK'
  <1> USE DEF rows, effects, env
  <1> DEFINE j == runner[r].job
  <1>1. CASE Register(r)
    <2>1. j \in Jobs /\ runner[r] \in Goroutine /\ "load" \in Working
      BY <1>1 DEF Register, TypeOK, RunnerType, Working
    <2>2. StoreType' /\ LoopType' /\ HandlerType'
      BY <1>1, <2>1 DEF Register, TypeOK, StoreType, LoopType, HandlerType
    <2>3. runner' \in [Runners -> Goroutine]
      BY <1>1, <2>1, GoroutinesKeepShape DEF Register, Goto, TypeOK, RunnerType
    <2>4. runner'[r].pc = "load" /\ runner'[r].job = j /\ runner'[r].rung = runner[r].rung
      BY <1>1, <2>1 DEF Register, Goto, TypeOK, RunnerType, Goroutine
    <2>5. \A s \in Runners \ {r} : runner'[s] = runner[s]
      BY <1>1 DEF Register, Goto, TypeOK, RunnerType
    <2>6. cancels' \in [Jobs -> Runners \cup {None}]
      BY <1>1, <2>1 DEF Register, TypeOK, RunnerType
    <2>7. RunnerType'
      BY <1>1, <2>1, <2>3, <2>4, <2>5, <2>6 DEF Register, TypeOK, RunnerType
    <2>8. QED
      BY <2>2, <2>7 DEF TypeOK
  <1>2. CASE LoadInputs(r)
    <2>1. StoreType' /\ LoopType' /\ HandlerType'
      BY <1>2 DEF LoadInputs, TypeOK, StoreType, LoopType, HandlerType
    <2>2. CASE \E error \in {"internal", "media"} : FailWith(r, error)
      <3>1. PICK error \in Errors : FailWith(r, error)
        BY <2>2 DEF Errors
      <3>2. RunnerType'
        BY <1>2, <3>1, MovesKeepShape DEF LoadInputs, TypeOK
      <3>3. QED
        BY <2>1, <3>2 DEF TypeOK
    <2>3. ASSUME NEW n \in 1..MaxRungs,
                 runner' = [runner EXCEPT ![r] = [@ EXCEPT !.pc = "download", !.ladder = n]]
          PROVE  RunnerType'
      <3>1. runner[r] \in Goroutine /\ runner[r].rung = 1 /\ j \in Jobs
        BY <1>2 DEF LoadInputs, TypeOK, RunnerType
      <3>2. "download" \in Working
        BY DEF Working
      <3>3. [runner[r] EXCEPT !.pc = "download", !.ladder = n] \in Goroutine
        BY <3>1, <3>2 DEF Goroutine
      <3>4. /\ runner'[r].pc = "download" /\ runner'[r].job = j
            /\ runner'[r].rung = 1 /\ runner'[r].ladder = n
        BY <2>3, <3>1 DEF TypeOK, RunnerType, Goroutine
      <3>5. runner' \in [Runners -> Goroutine]
            /\ \A s \in Runners \ {r} : runner'[s] = runner[s]
        BY <2>3, <3>3 DEF TypeOK, RunnerType
      <3>6. cancels' = cancels
        BY <1>2 DEF LoadInputs
      <3>7. QED
        BY <3>1, <3>4, <3>5, <3>6 DEF TypeOK, RunnerType
    <2>4. QED
      BY <1>2, <2>1, <2>2, <2>3 DEF LoadInputs, TypeOK
  <1>3. CASE Download(r)
    <2>1. StoreType' /\ LoopType' /\ HandlerType'
      BY <1>3 DEF Download, TypeOK, StoreType, LoopType, HandlerType
    <2>2. "media" \in Errors /\ CancelReason \in Errors
      BY DEF Errors, CancelReason
    <2>3. RunnerType'
      BY <1>3, <2>2, MovesKeepShape DEF Download, TypeOK
    <2>4. QED
      BY <2>1, <2>3 DEF TypeOK
  <1>4. CASE Transcode(r)
    <2>1. StoreType' /\ LoopType' /\ HandlerType'
      BY <1>4 DEF Transcode, TypeOK, StoreType, LoopType, HandlerType
    <2>2. {"media", "internal"} \subseteq Errors /\ CancelReason \in Errors
      BY DEF Errors, CancelReason
    <2>3. RunnerType'
      BY <1>4, <2>2, MovesKeepShape DEF Transcode, TypeOK
    <2>4. QED
      BY <2>1, <2>3 DEF TypeOK
  <1>5. CASE PutDir(r)
    <2> DEFINE i == runner[r].rung
    <2>1. /\ j \in Jobs /\ runner[r] \in Goroutine
          /\ i \in 1..MaxRungs /\ runner[r].attempt \in Nat
      <3>1. j \in Jobs /\ runner[r] \in Goroutine /\ i <= runner[r].ladder
        BY <1>5 DEF PutDir, TypeOK, RunnerType
      <3>2. /\ i \in 1..(MaxRungs + 1) /\ runner[r].ladder \in 1..MaxRungs
            /\ runner[r].attempt \in Nat
        BY <3>1 DEF Goroutine
      <3>3. QED
        BY <3>1, <3>2, SchedulerAssumption
    <2>2. StoreType'
      <3>1. \A n \in Nat : [stored EXCEPT ![j] = [@ EXCEPT ![i] = n]]
                              \in [Jobs -> [1..MaxRungs -> Nat]]
        <4>1. \A n \in Nat : [stored[j] EXCEPT ![i] = n] \in [1..MaxRungs -> Nat]
          BY <2>1 DEF TypeOK, StoreType
        <4>2. QED
          BY <2>1, <4>1 DEF TypeOK, StoreType
      <3>2. stored' \in [Jobs -> [1..MaxRungs -> Nat]]
        <4>1. \/ stored' = stored
              \/ \E n \in Nat : stored' = [stored EXCEPT ![j] = [@ EXCEPT ![i] = n]]
          BY <1>5, <2>1 DEF PutDir
        <4>2. QED
          BY <3>1, <4>1 DEF TypeOK, StoreType
      <3>3. QED
        BY <1>5, <3>2 DEF PutDir, TypeOK, StoreType
    <2>3. LoopType' /\ HandlerType' /\ cancels' = cancels
      BY <1>5 DEF PutDir, TypeOK, LoopType, HandlerType
    <2>4. CASE FailWith(r, IF CtxDone(r) THEN CancelReason ELSE "internal")
      <3>1. (IF CtxDone(r) THEN CancelReason ELSE "internal") \in Errors
        BY DEF Errors, CancelReason
      <3>2. RunnerType'
        BY <1>5, <2>3, <2>4, <3>1, MovesKeepShape DEF PutDir, TypeOK
      <3>3. QED
        BY <2>2, <2>3, <3>2 DEF TypeOK
    <2>5. CASE runner' = [runner EXCEPT ![r] =
                            [@ EXCEPT !.rung = i + 1,
                                      !.pc = IF i < runner[r].ladder
                                             THEN "transcode" ELSE "complete"]]
      <3>1. i + 1 \in 1..(MaxRungs + 1) /\ {"transcode", "complete"} \subseteq Working
        BY <2>1, SchedulerAssumption DEF Working
      <3>2. [runner[r] EXCEPT !.rung = i + 1,
                              !.pc = IF i < runner[r].ladder
                                     THEN "transcode" ELSE "complete"] \in Goroutine
        BY <2>1, <3>1 DEF Goroutine
      <3>3. runner' \in [Runners -> Goroutine]
            /\ \A s \in Runners \ {r} : runner'[s] = runner[s]
        BY <2>5, <3>2 DEF TypeOK, RunnerType
      <3>4. /\ runner'[r].job = j /\ runner'[r].rung = i + 1
            /\ runner'[r].ladder = runner[r].ladder
            /\ runner'[r].pc = IF i < runner[r].ladder THEN "transcode" ELSE "complete"
        BY <2>1, <2>5 DEF TypeOK, RunnerType, Goroutine
      <3>5. runner[r].ladder \in Int /\ i \in Int
        BY <2>1 DEF Goroutine
      <3>6. RunnerType'
        BY <2>1, <2>3, <3>3, <3>4, <3>5 DEF TypeOK, RunnerType
      <3>7. QED
        BY <2>2, <2>3, <3>6 DEF TypeOK
    <2>6. QED
      BY <1>5, <2>4, <2>5 DEF PutDir
  <1>6. CASE MarkCompleted(r)
    <2>1. j \in Jobs /\ RungsDone(r) \in SUBSET (1..MaxRungs)
      <3>1. j \in Jobs /\ runner[r].rung \in 1..(MaxRungs + 1)
        BY <1>6 DEF MarkCompleted, TypeOK, RunnerType, Goroutine
      <3>2. QED
        BY <3>1, SchedulerAssumption DEF RungsDone
    <2>2. StoreType'
      BY <1>6, <2>1, StatementsKeepShape DEF MarkCompleted, TypeOK, StoreType
    <2>3. LoopType' /\ HandlerType' /\ cancels' = cancels
      BY <1>6 DEF MarkCompleted, AnswerLost, TypeOK, LoopType, HandlerType
    <2>4. \E pc \in {"announce", "cleanup"} : Goto(r, pc)
      BY <1>6 DEF MarkCompleted
    <2>5. "none" \in Errors
      BY DEF Errors
    <2>6. RunnerType'
      BY <1>6, <2>3, <2>4, <2>5, MovesKeepShape DEF MarkCompleted, TypeOK
    <2>7. QED
      BY <2>2, <2>3, <2>6 DEF TypeOK
  <1>7. CASE MarkFailed(r)
    <2>1. j \in Jobs /\ runner[r].error \in Errors
      BY <1>7 DEF MarkFailed, TypeOK, RunnerType, Goroutine
    <2>2. StoreType'
      BY <1>7, <2>1, StatementsKeepShape DEF MarkFailed, TypeOK, StoreType
    <2>3. LoopType' /\ HandlerType' /\ cancels' = cancels
      BY <1>7 DEF MarkFailed, AnswerLost, TypeOK, LoopType, HandlerType
    <2>4. RunnerType'
      BY <1>7, <2>1, <2>3, MovesKeepShape DEF MarkFailed, TypeOK
    <2>5. QED
      BY <2>2, <2>3, <2>4 DEF TypeOK
  <1>8. CASE Announce(r)
    <2>1. j \in Jobs /\ "none" \in Errors
      BY <1>8 DEF Announce, TypeOK, RunnerType, Errors
    <2>2. StoreType'
      BY <1>8, <2>1 DEF Announce, Outcome, TypeOK, StoreType
    <2>3. LoopType' /\ HandlerType' /\ cancels' = cancels
      BY <1>8 DEF Announce, TypeOK, LoopType, HandlerType
    <2>4. RunnerType'
      BY <1>8, <2>1, <2>3, MovesKeepShape DEF Announce, TypeOK
    <2>5. QED
      BY <2>2, <2>3, <2>4 DEF TypeOK
  <1>9. CASE Cleanup(r)
    <2>1. j \in Jobs /\ runner[r] \in Goroutine /\ "release" \in Closing
      BY <1>9 DEF Cleanup, TypeOK, RunnerType, Closing
    <2>2. StoreType' /\ LoopType' /\ HandlerType'
      BY <1>9 DEF Cleanup, TypeOK, StoreType, LoopType, HandlerType
    <2>3. /\ runner' \in [Runners -> Goroutine]
          /\ \A s \in Runners \ {r} : runner'[s] = runner[s]
      BY <1>9, <2>1, GoroutinesKeepShape DEF Cleanup, Goto, TypeOK, RunnerType
    <2>4. runner'[r].pc = "release" /\ runner'[r].job = j
      BY <1>9, <2>1 DEF Cleanup, Goto, TypeOK, RunnerType, Goroutine
    <2>5. cancels' \in [Jobs -> Runners \cup {None}]
      BY <1>9, <2>1 DEF Cleanup, TypeOK, RunnerType
    <2>6. RunnerType'
      BY <2>1, <2>3, <2>4, <2>5 DEF TypeOK, RunnerType
    <2>7. QED
      BY <2>2, <2>6 DEF TypeOK
  <1>10. CASE Release(r)
    <2>1. StoreType' /\ LoopType' /\ HandlerType' /\ cancels' = cancels
      BY <1>10 DEF Release, TypeOK, StoreType, LoopType, HandlerType
    <2>2. Idle.pc = "idle"
      BY DEF Idle
    <2>3. RunnerType'
      BY <1>10, <2>1, <2>2, GoroutinesKeepShape DEF Release, TypeOK, RunnerType
    <2>4. QED
      BY <2>1, <2>3 DEF TypeOK
  <1>11. CASE OnProgress(r)
    <2>1. j \in Jobs /\ RungsDone(r) \in SUBSET (1..MaxRungs)
      <3>1. j \in Jobs /\ runner[r].rung \in 1..(MaxRungs + 1)
        BY <1>11 DEF OnProgress, TypeOK, RunnerType, Goroutine
      <3>2. QED
        BY <3>1, SchedulerAssumption DEF RungsDone
    <2>2. StoreType'
      BY <1>11, <2>1, StatementsKeepShape DEF OnProgress, TypeOK, StoreType
    <2>3. QED
      BY <1>11, <2>2 DEF OnProgress, sched, TypeOK, LoopType, RunnerType, HandlerType
  <1>12. QED
    BY <1>1, <1>2, <1>3, <1>4, <1>5, <1>6, <1>7, <1>8, <1>9, <1>10, <1>11
       DEF RunnerStep

\* The handlers keep the shape of the state (createJob, retryJob, cancelJob).
LEMMA HandlerTypes ==
    ASSUME TypeOK, NEW q \in Requests, StartRequest(q) \/ FinishRequest(q)
    PROVE  TypeOK'
  <1> USE DEF rows, effects, sched, env
  <1>1. NoRequest \in Handler /\ NoRequest.pc = "idle"
    BY DEF NoRequest, Handler
  <1>2. ASSUME StartRequest(q) PROVE TypeOK'
    <2>1. StoreType' /\ LoopType' /\ RunnerType'
      BY <1>2 DEF StartRequest, CreateAdmit, AutoCreate, RetryAdmit, CancelRead,
                  TypeOK, StoreType, LoopType, RunnerType
    <2>2. \/ Begin(q, "insert", None)
          \/ \E j \in Jobs, pc \in {"retry", "deliver", "dequeue"} : Begin(q, pc, j)
      BY <1>2 DEF StartRequest, CreateAdmit, AutoCreate, RetryAdmit, CancelRead
    <2>3. HandlerType'
      BY <2>2 DEF Begin, TypeOK, HandlerType, Handler
    <2>4. QED
      BY <2>1, <2>3 DEF TypeOK
  <1>3. ASSUME NEW j \in Jobs, NEW s \in {"queued", "failed"}, Answer(q, j, s)
        PROVE  HandlerType' /\ faults' \in Nat
    BY <1>1, <1>3 DEF Answer, TypeOK, LoopType, HandlerType, Handler
  <1>4. ASSUME NEW j \in Jobs, CreateJob(q, j) PROVE TypeOK'
    <2>1. StoreType'
      BY <1>4, StatementsKeepShape DEF CreateJob, TypeOK, StoreType
    <2>2. HandlerType' /\ faults' \in Nat
      BY <1>3, <1>4 DEF CreateJob
    <2>3. QED
      BY <1>4, <2>1, <2>2 DEF CreateJob, TypeOK, LoopType, RunnerType
  <1>5. CASE RetryJob(q)
    <2>1. req[q].job \in Jobs
      BY <1>5 DEF RetryJob, TypeOK, HandlerType
    <2>2. StoreType'
      BY <1>5, <2>1, StatementsKeepShape DEF RetryJob, TypeOK, StoreType
    <2>3. HandlerType' /\ faults' \in Nat
      BY <1>3, <1>5, <2>1 DEF RetryJob
    <2>4. QED
      BY <1>5, <2>2, <2>3 DEF RetryJob, TypeOK, LoopType, RunnerType
  <1>6. CASE CancelQueued(q)
    <2>1. req[q].job \in Jobs /\ "user" \in Errors
      BY <1>6 DEF CancelQueued, TypeOK, HandlerType, Errors
    <2>2. StoreType'
      BY <1>6, <2>1, StatementsKeepShape DEF CancelQueued, TypeOK, StoreType
    <2>3. HandlerType' /\ faults' \in Nat
      BY <1>3, <1>6, <2>1 DEF CancelQueued
    <2>4. QED
      BY <1>6, <2>2, <2>3 DEF CancelQueued, TypeOK, LoopType, RunnerType
  <1>7. CASE Cancel(q)
    <2>1. StoreType' /\ LoopType'
      BY <1>7 DEF Cancel, TypeOK, StoreType, LoopType
    <2>2. HandlerType'
      BY <1>1, <1>7 DEF Cancel, TypeOK, HandlerType
    <2>3. CASE runner' = runner
      BY <1>7, <2>1, <2>2, <2>3 DEF Cancel, TypeOK, RunnerType
    <2>4. ASSUME NEW r \in Runners,
                 runner' = [runner EXCEPT ![r] = [@ EXCEPT !.canceled = TRUE]]
          PROVE  RunnerType'
      <3>1. runner[r] \in Goroutine
        BY DEF TypeOK, RunnerType
      <3>2. [runner[r] EXCEPT !.canceled = TRUE] \in Goroutine
        BY <3>1 DEF Goroutine
      <3>3. /\ runner'[r].pc = runner[r].pc /\ runner'[r].job = runner[r].job
            /\ runner'[r].rung = runner[r].rung
            /\ runner'[r].ladder = runner[r].ladder
        BY <2>4, <3>1 DEF TypeOK, RunnerType, Goroutine
      <3>4. runner' \in [Runners -> Goroutine]
            /\ \A s \in Runners \ {r} : runner'[s] = runner[s]
        BY <2>4, <3>2 DEF TypeOK, RunnerType
      <3>5. cancels' = cancels
        BY <1>7 DEF Cancel
      <3>6. QED
        BY <3>3, <3>4, <3>5 DEF TypeOK, RunnerType
    <2>5. req[q].job \in Jobs /\ cancels[req[q].job] \in Runners \cup {None}
      BY <1>7 DEF Cancel, TypeOK, HandlerType, RunnerType
    <2>6. QED
      BY <1>7, <2>1, <2>2, <2>3, <2>4, <2>5 DEF Cancel, TypeOK
  <1>8. CASE AnnounceRequest(q)
    <2>1. req[q].job \in Jobs /\ req[q].state \in {"queued", "failed"}
      BY <1>8 DEF AnnounceRequest, TypeOK, HandlerType, Handler
    <2>2. StoreType'
      BY <1>8, <2>1 DEF AnnounceRequest, TypeOK, StoreType
    <2>3. LoopType' /\ RunnerType'
      BY <1>8 DEF AnnounceRequest, TypeOK, LoopType, RunnerType
    <2>4. HandlerType'
      BY <1>1, <1>8 DEF AnnounceRequest, TypeOK, HandlerType
    <2>5. QED
      BY <2>2, <2>3, <2>4 DEF TypeOK
  <1>9. CASE RequestEnds(q)
    <2>1. StoreType' /\ LoopType' /\ RunnerType'
      BY <1>9 DEF RequestEnds, TypeOK, StoreType, LoopType, RunnerType
    <2>2. HandlerType'
      BY <1>1, <1>9 DEF RequestEnds, TypeOK, HandlerType
    <2>3. QED
      BY <2>1, <2>2 DEF TypeOK
  <1>10. QED
    BY <1>2, <1>4, <1>5, <1>6, <1>7, <1>8, <1>9 DEF FinishRequest

\* Signals, exits and starts keep the shape of the state (cmd/orchestrator).
LEMMA ProcessTypes == TypeOK /\ (Shutdown \/ Exit \/ Start) => TypeOK'
  <1> SUFFICES ASSUME TypeOK, Shutdown \/ Exit \/ Start PROVE TypeOK'
    OBVIOUS
  <1> USE DEF rows, effects, sched
  <1>1. CASE Shutdown
    BY <1>1 DEF Shutdown, TypeOK, StoreType, LoopType, RunnerType, HandlerType
  <1>2. CASE Exit
    <2>1. StoreType' /\ LoopType'
      <3>1. StoreType'
        BY <1>2 DEF Exit, TypeOK, StoreType
      <3>2. wake' \in BOOLEAN
        BY <1>2, Zenon DEF Exit
      <3>3. LoopType'
        BY <1>2, <3>2 DEF Exit, TypeOK, LoopType
      <3>4. QED
        BY <3>1, <3>3
    <2>2. RunnerType'
      BY <1>2, GoroutinesKeepShape DEF Exit, RunnerType, Idle
    <2>3. HandlerType'
      BY <1>2 DEF Exit, HandlerType, Handler, NoRequest
    <2>4. QED
      BY <2>1, <2>2, <2>3 DEF TypeOK
  <1>3. CASE Start
    BY <1>3 DEF Start, TypeOK, StoreType, LoopType, RunnerType, HandlerType
  <1>4. QED
    BY <1>1, <1>2, <1>3

\* The state keeps its shape: in particular a live goroutine always has a job
\* and never runs past the ladder it read (runJob).
THEOREM Typing == Spec => []TypeOK
  <1>1. Init => TypeOK
    <2> SUFFICES ASSUME Init PROVE TypeOK
      OBVIOUS
    <2>1. StoreType /\ LoopType
      <3>1. NoRow \in Row
        BY DEF Row, NoRow, Errors
      <3>2. StoreType
        BY <3>1 DEF Init, StoreType
      <3>3. wake \in BOOLEAN
        BY Zenon DEF Init
      <3>4. LoopType
        BY <3>3 DEF Init, LoopType
      <3>5. QED
        BY <3>2, <3>4
    <2>2. RunnerType
      BY GoroutinesKeepShape DEF Init, RunnerType, Idle
    <2>3. HandlerType
      BY DEF Init, HandlerType, Handler, NoRequest
    <2>4. QED
      BY <2>1, <2>2, <2>3 DEF TypeOK
  <1>2. TypeOK /\ [Next]_vars => TypeOK'
    <2>1. TypeOK /\ UNCHANGED vars => TypeOK'
      BY DEF vars, rows, effects, sched, env, TypeOK, StoreType, LoopType,
             RunnerType, HandlerType
    <2>2. QED
      BY <2>1, LoopTypes, RunnerTypes, HandlerTypes, ProcessTypes DEF Next
  <1>3. QED
    BY <1>1, <1>2, PTL DEF Spec

-----------------------------------------------------------------------------
(* One goroutine per executing job, and that goroutine owns the row. *)

Ownership == ExclusiveExecution /\ WorkingOwnsRow

\* The goroutines that execute after a step executed the same attempt of the
\* same job before it, and the step left their rows running.
OwnersKept ==
    \A s \in Runners : runner'[s].pc \in Working =>
        /\ runner[s].pc \in Working
        /\ runner'[s].job = runner[s].job
        /\ runner'[s].attempt = runner[s].attempt
        /\ job'[runner[s].job].state = "running"
        /\ job'[runner[s].job].attempts = job[runner[s].job].attempts

\* A step that keeps the owners keeps ownership.
LEMMA OwnersKeptSuffices ==
    ASSUME Ownership, OwnersKept PROVE Ownership'
  BY DEF Ownership, OwnersKept, ExclusiveExecution, WorkingOwnsRow

\* A statement whose WHERE guard names a state other than running leaves every
\* owned row as it is (CreateJob, RetryJob, CancelQueued, ClaimNextQueued).
LEMMA GuardedStatementKeepsOwners ==
    ASSUME TypeOK, Ownership, NEW j \in Jobs, job[j].state # "running",
           runner' = runner, \A k \in Jobs \ {j} : job'[k] = job[k]
    PROVE  OwnersKept
  BY DEF TypeOK, RunnerType, Working, Ownership, WorkingOwnsRow, OwnersKept

\* A goroutine that moves on within runJob, or leaves Working, keeps the
\* owners if no row changes.
LEMMA MoveKeepsOwners ==
    ASSUME TypeOK, Ownership, NEW r \in Runners, job' = job,
           \A s \in Runners \ {r} : runner'[s] = runner[s],
           runner'[r].pc \in Working =>
               /\ runner[r].pc \in Working
               /\ runner'[r].job = runner[r].job
               /\ runner'[r].attempt = runner[r].attempt
    PROVE  OwnersKept
  BY DEF Ownership, WorkingOwnsRow, OwnersKept

\* A goroutine that finalizes its own row leaves the other owners alone.
LEMMA FinalizeKeepsOwners ==
    ASSUME TypeOK, Ownership, NEW r \in Runners, runner[r].pc \in Working,
           runner'[r].pc \notin Working,
           \A s \in Runners \ {r} : runner'[s] = runner[s],
           \A k \in Jobs \ {runner[r].job} : job'[k] = job[k]
    PROVE  OwnersKept
  <1>1. \A s \in Runners \ {r} : runner[s].pc \in Working =>
            runner[s].job \in Jobs \ {runner[r].job}
    BY DEF TypeOK, RunnerType, Working, Ownership, ExclusiveExecution
  <1>2. QED
    BY <1>1 DEF Ownership, WorkingOwnsRow, OwnersKept

\* The claim loop preserves ownership: only a queued row is claimed, and no
\* goroutine owns a queued row (ClaimNextQueued).
LEMMA LoopOwnership ==
    ASSUME TypeOK, Ownership, LoopStep \/ ClaimError PROVE Ownership'
  <1> USE DEF rows, effects, env
  <1>1. ASSUME NEW r \in Runners, NEW j \in Jobs, ClaimAndSpawn(r, j)
        PROVE  Ownership'
    <2>1. /\ job[j].state = "queued" /\ job[j].attempts \in Nat
          /\ job'[j].state = "running" /\ job'[j].attempts = job[j].attempts + 1
          /\ \A k \in Jobs \ {j} : job'[k] = job[k]
      BY <1>1 DEF ClaimAndSpawn, Oldest, Queued, Claimed, TypeOK, StoreType, Row
    <2>2. \A s \in Runners : runner[s].pc \in Working =>
              runner[s].job \in Jobs \ {j}
      BY <2>1 DEF TypeOK, RunnerType, Working, Ownership, WorkingOwnsRow
    <2>3. /\ runner'[r].job = j
          /\ runner'[r].attempt = job[j].attempts + 1
          /\ \A s \in Runners \ {r} : runner'[s] = runner[s]
      BY <1>1 DEF ClaimAndSpawn, Spawned, Idle, TypeOK, RunnerType
    <2>4. ExclusiveExecution'
      BY <2>2, <2>3 DEF Ownership, ExclusiveExecution
    <2>5. WorkingOwnsRow'
      BY <2>1, <2>2, <2>3 DEF Ownership, WorkingOwnsRow
    <2>6. QED
      BY <2>4, <2>5 DEF Ownership
  <1>2. CASE AcquireSlot \/ ClaimNothing \/ WakeUp \/ Tick \/ StopLoop
    BY <1>2 DEF AcquireSlot, ClaimNothing, ReleaseAndWait, WakeUp, Tick, StopLoop,
                Ownership, ExclusiveExecution, WorkingOwnsRow
  <1>3. CASE ClaimError
    <2>1. runner' = runner
      BY <1>3 DEF ClaimError, ReleaseAndWait
    <2>2. CASE job' = job
      BY <2>1, <2>2 DEF Ownership, ExclusiveExecution, WorkingOwnsRow
    <2>3. ASSUME NEW j \in Jobs, Oldest(j), job' = Claimed(j) PROVE Ownership'
      <3>1. job[j].state # "running" /\ \A k \in Jobs \ {j} : job'[k] = job[k]
        BY <2>3 DEF Oldest, Queued, Claimed, TypeOK, StoreType
      <3>2. QED
        BY <2>1, <3>1, GuardedStatementKeepsOwners, OwnersKeptSuffices
    <2>4. QED
      BY <1>3, <2>2, <2>3 DEF ClaimError
  <1>4. QED
    BY <1>1, <1>2, <1>3 DEF LoopStep

\* A runJob goroutine preserves ownership: it touches only its own row, and
\* the statement that ends the row's run also ends its execution (runJob).
LEMMA RunnerOwnership ==
    ASSUME TypeOK, Ownership, NEW r \in Runners, RunnerStep(r) \/ OnProgress(r)
    PROVE  Ownership'
  <1> USE DEF rows, effects, env
  <1> SUFFICES OwnersKept
    BY OwnersKeptSuffices
  <1>1. ASSUME NEW pc, Goto(r, pc)
        PROVE  /\ runner'[r].pc = pc
               /\ runner'[r].job = runner[r].job
               /\ runner'[r].attempt = runner[r].attempt
               /\ \A s \in Runners \ {r} : runner'[s] = runner[s]
    BY <1>1 DEF Goto, TypeOK, RunnerType, Goroutine
  <1>2. ASSUME NEW error, FailWith(r, error)
        PROVE  /\ runner'[r].job = runner[r].job
               /\ runner'[r].attempt = runner[r].attempt
               /\ \A s \in Runners \ {r} : runner'[s] = runner[s]
    BY <1>2 DEF FailWith, TypeOK, RunnerType, Goroutine
  <1>3. CASE Register(r)
    BY <1>1, <1>3, MoveKeepsOwners DEF Register, Working
  <1>4. CASE LoadInputs(r)
    <2>1. ASSUME NEW n \in 1..MaxRungs,
                 runner' = [runner EXCEPT ![r] = [@ EXCEPT !.pc = "download", !.ladder = n]]
          PROVE  /\ runner'[r].job = runner[r].job
                 /\ runner'[r].attempt = runner[r].attempt
                 /\ \A s \in Runners \ {r} : runner'[s] = runner[s]
      BY <2>1 DEF TypeOK, RunnerType, Goroutine
    <2>2. runner[r].pc \in Working /\ job' = job
      BY <1>4 DEF LoadInputs, Working
    <2>3. QED
      BY <1>2, <1>4, <2>1, <2>2, MoveKeepsOwners DEF LoadInputs
  <1>5. CASE Download(r) \/ Transcode(r)
    <2>1. runner[r].pc \in Working /\ job' = job
      BY <1>5 DEF Download, Transcode, Working
    <2>2. QED
      BY <1>1, <1>2, <1>5, <2>1, MoveKeepsOwners DEF Download, Transcode
  <1>6. CASE PutDir(r)
    <2>1. runner[r].pc \in Working /\ job' = job
      BY <1>6 DEF PutDir, Working
    <2>2. ASSUME NEW n, NEW p,
                 runner' = [runner EXCEPT ![r] = [@ EXCEPT !.rung = n, !.pc = p]]
          PROVE  /\ runner'[r].job = runner[r].job
                 /\ runner'[r].attempt = runner[r].attempt
                 /\ \A s \in Runners \ {r} : runner'[s] = runner[s]
      BY <2>2 DEF TypeOK, RunnerType, Goroutine
    <2>3. QED
      BY <1>2, <1>6, <2>1, <2>2, MoveKeepsOwners DEF PutDir
  <1>7. CASE MarkCompleted(r)
    <2>1. runner[r].pc \in Working /\ runner[r].job \in Jobs
      BY <1>7 DEF MarkCompleted, Working, TypeOK, RunnerType
    <2>2. \E pc \in {"announce", "cleanup"} : Goto(r, pc)
      BY <1>7 DEF MarkCompleted
    <2>3. \A k \in Jobs \ {runner[r].job} : job'[k] = job[k]
      BY <1>7, <2>1 DEF MarkCompleted, Completed, TypeOK, StoreType
    <2>4. runner'[r].pc \notin Working
      BY <1>1, <2>2 DEF Working
    <2>5. QED
      BY <1>1, <2>1, <2>2, <2>3, <2>4, FinalizeKeepsOwners
  <1>8. CASE MarkFailed(r)
    <2>1. runner[r].pc \in Working /\ runner[r].job \in Jobs
      BY <1>8 DEF MarkFailed, Working, TypeOK, RunnerType
    <2>2. Goto(r, "announce")
      BY <1>8 DEF MarkFailed
    <2>3. \A k \in Jobs \ {runner[r].job} : job'[k] = job[k]
      BY <1>8, <2>1 DEF MarkFailed, Failed, TypeOK, StoreType
    <2>4. runner'[r].pc \notin Working
      BY <1>1, <2>2 DEF Working
    <2>5. QED
      BY <1>1, <2>1, <2>2, <2>3, <2>4, FinalizeKeepsOwners
  <1>9. CASE Announce(r) \/ Cleanup(r)
    <2>1. job' = job /\ \E pc \in {"cleanup", "release"} : Goto(r, pc)
      BY <1>9 DEF Announce, Cleanup
    <2>2. runner'[r].pc \notin Working
      BY <1>1, <2>1 DEF Working
    <2>3. QED
      BY <1>1, <2>1, <2>2, MoveKeepsOwners
  <1>10. CASE Release(r)
    <2>1. /\ job' = job /\ runner'[r].pc \notin Working
          /\ \A s \in Runners \ {r} : runner'[s] = runner[s]
      BY <1>10 DEF Release, Idle, Working, TypeOK, RunnerType
    <2>2. QED
      BY <2>1, MoveKeepsOwners
  <1>11. CASE OnProgress(r)
    <2>1. runner' = runner /\ runner[r].job \in Jobs
      BY <1>11 DEF OnProgress, sched, TypeOK, RunnerType
    <2>2. \A k \in Jobs : job'[k].state = job[k].state /\ job'[k].attempts = job[k].attempts
      BY <1>11, <2>1 DEF OnProgress, Progressed, TypeOK, StoreType, Row
    <2>3. QED
      BY <2>1, <2>2 DEF TypeOK, RunnerType, Working, Ownership, WorkingOwnsRow, OwnersKept
  <1>12. QED
    BY <1>3, <1>4, <1>5, <1>6, <1>7, <1>8, <1>9, <1>10, <1>11 DEF RunnerStep

\* The handlers preserve ownership: their statements apply only to absent,
\* failed and queued rows (CreateJob, RetryJob, CancelQueued).
LEMMA HandlerOwnership ==
    ASSUME TypeOK, Ownership, NEW q \in Requests, StartRequest(q) \/ FinishRequest(q)
    PROVE  Ownership'
  <1> USE DEF rows, effects, sched, env
  <1>1. CASE StartRequest(q) \/ AnnounceRequest(q) \/ RequestEnds(q)
    BY <1>1 DEF StartRequest, CreateAdmit, AutoCreate, RetryAdmit, CancelRead,
                AnnounceRequest, RequestEnds, Ownership, ExclusiveExecution, WorkingOwnsRow
  <1>2. ASSUME NEW j \in Jobs, CreateJob(q, j) PROVE Ownership'
    <2>1. /\ runner' = runner /\ job[j].state # "running"
          /\ \A k \in Jobs \ {j} : job'[k] = job[k]
      BY <1>2 DEF CreateJob, Inserted, TypeOK, StoreType
    <2>2. QED
      BY <2>1, GuardedStatementKeepsOwners, OwnersKeptSuffices
  <1>3. CASE RetryJob(q)
    <2>1. /\ runner' = runner /\ req[q].job \in Jobs
          /\ job[req[q].job].state # "running"
          /\ \A k \in Jobs \ {req[q].job} : job'[k] = job[k]
      BY <1>3 DEF RetryJob, RetryJobApplies, Retried, TypeOK, StoreType, HandlerType
    <2>2. QED
      BY <2>1, GuardedStatementKeepsOwners, OwnersKeptSuffices
  <1>4. CASE CancelQueued(q)
    <2>1. /\ runner' = runner /\ req[q].job \in Jobs
          /\ job[req[q].job].state # "running"
          /\ \A k \in Jobs \ {req[q].job} : job'[k] = job[k]
      BY <1>4 DEF CancelQueued, CancelQueuedApplies, Failed, TypeOK, StoreType, HandlerType
    <2>2. QED
      BY <2>1, GuardedStatementKeepsOwners, OwnersKeptSuffices
  <1>5. CASE Cancel(q)
    <2>1. \A s \in Runners : /\ runner'[s].pc = runner[s].pc
                             /\ runner'[s].job = runner[s].job
                             /\ runner'[s].attempt = runner[s].attempt
      BY <1>5 DEF Cancel, TypeOK, RunnerType, Goroutine
    <2>2. job' = job
      BY <1>5 DEF Cancel
    <2>3. QED
      BY <2>1, <2>2 DEF Ownership, ExclusiveExecution, WorkingOwnsRow
  <1>6. QED
    BY <1>1, <1>2, <1>3, <1>4, <1>5 DEF FinishRequest

\* Never two goroutines on one job, and nobody moves the row of a job that is
\* being executed, through every interleaving of claims, cancels, retries,
\* lost answers, shutdowns and restarts.
THEOREM ExclusiveOwnership == Spec => [](ExclusiveExecution /\ WorkingOwnsRow)
  <1>1. Init => Ownership
    BY DEF Init, Idle, Working, Ownership, ExclusiveExecution, WorkingOwnsRow
  <1>2. TypeOK /\ Ownership /\ [Next]_vars => Ownership'
    <2> SUFFICES ASSUME TypeOK, Ownership, [Next]_vars PROVE Ownership'
      OBVIOUS
    <2>1. CASE UNCHANGED vars
      BY <2>1 DEF vars, rows, sched, Ownership, ExclusiveExecution, WorkingOwnsRow
    <2>2. CASE Shutdown \/ Start
      BY <2>2 DEF Shutdown, Start, rows, sched, Ownership, ExclusiveExecution,
                  WorkingOwnsRow
    <2>3. CASE Exit
      BY <2>3 DEF Exit, Idle, Working, Ownership, ExclusiveExecution, WorkingOwnsRow
    <2>4. QED
      BY <2>1, <2>2, <2>3, LoopOwnership, RunnerOwnership, HandlerOwnership DEF Next
  <1>3. QED
    BY <1>1, <1>2, Typing, PTL DEF Spec, Ownership

\* In particular the row of a job that is being executed stays running at the
\* attempt that was claimed, so neither MarkCompleted nor MarkFailed meets a
\* row its goroutine does not own.
THEOREM OwnedRowsStay == Spec => []WorkingOwnsRow
  BY ExclusiveOwnership, PTL

-----------------------------------------------------------------------------
(* What a step may do to the rows. *)

\* A statement on the row of job j, as far as the states of rows go: the edge
\* it takes, and the columns it leaves or writes (the statements of store.go).
RowWritten(j) ==
    /\ \A k \in Jobs \ {j} : job'[k] = job[k]
    /\ \/ job[j].state = "absent" /\ job'[j].state = "queued"
       \/ job[j].state = "failed" /\ job'[j].state = "queued"
       \/ job[j].state = "queued" /\ job'[j].state = "running"
       \/ job[j].state = "running" /\ job'[j].state \in {"running", "completed"}
       \/ job[j].state \in {"queued", "running"} /\ job'[j].state = "failed"
    /\ job'[j].state = "queued" => job'[j].outputs = {} /\ job'[j].error = "none"

\* Which statement a step runs, on which row, and under which guard.
RowStep ==
    \/ job' = job
    \/ \E q \in Requests, j \in Jobs : CreateJob(q, j)
    \/ \E q \in Requests : RetryJob(q) \/ CancelQueued(q)
    \/ \E r \in Runners, j \in Jobs : ClaimAndSpawn(r, j)
    \/ \E j \in Jobs : ClaimError /\ Oldest(j) /\ job' = Claimed(j)
    \/ \E r \in Runners : /\ OnProgress(r) /\ UpdateProgressApplies(runner[r].job)
                          /\ job' = Progressed(runner[r].job, RungsDone(r))
    \/ \E r \in Runners : /\ MarkCompleted(r) /\ MarkCompletedApplies(runner[r].job)
                          /\ job' = Completed(runner[r].job, RungsDone(r))
    \/ \E r \in Runners : /\ MarkFailed(r) /\ MarkFailedApplies(runner[r].job)
                          /\ job' = Failed(runner[r].job, runner[r].error)

LEMMA RowSteps == [Next]_vars => RowStep
  <1> SUFFICES ASSUME [Next]_vars PROVE RowStep
    OBVIOUS
  <1> USE DEF rows
  <1>1. CASE UNCHANGED vars
    BY <1>1 DEF vars, RowStep
  <1>2. CASE LoopStep
    BY <1>2 DEF LoopStep, AcquireSlot, ClaimNothing, WakeUp, Tick, StopLoop, RowStep
  <1>3. CASE ClaimError
    BY <1>3 DEF ClaimError, RowStep
  <1>4. ASSUME NEW r \in Runners, RunnerStep(r) PROVE RowStep
    <2>1. CASE MarkCompleted(r)
      BY <2>1 DEF MarkCompleted, RowStep
    <2>2. CASE MarkFailed(r)
      BY <2>2 DEF MarkFailed, RowStep
    <2>3. QED
      BY <1>4, <2>1, <2>2 DEF RunnerStep, Register, LoadInputs, Download, Transcode, PutDir,
                              Announce, Cleanup, Release, RowStep
  <1>5. ASSUME NEW r \in Runners, OnProgress(r) PROVE RowStep
    BY <1>5 DEF OnProgress, RowStep
  <1>6. ASSUME NEW q \in Requests, StartRequest(q) PROVE RowStep
    BY <1>6 DEF StartRequest, CreateAdmit, AutoCreate, RetryAdmit, CancelRead, RowStep
  <1>7. ASSUME NEW q \in Requests, FinishRequest(q) PROVE RowStep
    BY <1>7 DEF FinishRequest, Cancel, AnnounceRequest, RequestEnds, RowStep
  <1>8. CASE Shutdown \/ Exit \/ Start
    BY <1>8 DEF Shutdown, Exit, Start, RowStep
  <1>9. QED
    BY <1>1, <1>2, <1>3, <1>4, <1>5, <1>6, <1>7, <1>8 DEF Next

\* No step writes two rows, and every write is along an edge of CanTransition
\* or leaves the state alone (store.go).
LEMMA RowsMoveOnce ==
    ASSUME TypeOK, [Next]_vars
    PROVE  job' = job \/ \E j \in Jobs : RowWritten(j)
  <1>1. job \in [Jobs -> Row]
    BY DEF TypeOK, StoreType
  <1>2. ASSUME NEW q \in Requests, NEW j \in Jobs, CreateJob(q, j) PROVE RowWritten(j)
    BY <1>1, <1>2 DEF CreateJob, Inserted, NoRow, RowWritten
  <1>3. ASSUME NEW q \in Requests, RetryJob(q) \/ CancelQueued(q) PROVE RowWritten(req[q].job)
    <2>1. req[q].job \in Jobs /\ job[req[q].job] \in Row
      BY <1>1, <1>3 DEF RetryJob, CancelQueued, TypeOK, HandlerType
    <2>2. CASE RetryJob(q)
      BY <1>1, <2>1, <2>2 DEF RetryJob, RetryJobApplies, Retried, Row, RowWritten
    <2>3. CASE CancelQueued(q)
      BY <1>1, <2>1, <2>3 DEF CancelQueued, CancelQueuedApplies, Failed, Row, RowWritten
    <2>4. QED
      BY <1>3, <2>2, <2>3
  <1>4. ASSUME NEW j \in Jobs, Oldest(j), job' = Claimed(j) PROVE RowWritten(j)
    BY <1>1, <1>4 DEF Oldest, Queued, Claimed, Row, RowWritten
  <1>5. ASSUME NEW r \in Runners, runner[r].pc # "idle"
        PROVE  runner[r].job \in Jobs /\ job[runner[r].job] \in Row
    BY <1>1, <1>5 DEF TypeOK, RunnerType
  <1>6. ASSUME NEW r \in Runners, OnProgress(r), UpdateProgressApplies(runner[r].job),
               job' = Progressed(runner[r].job, RungsDone(r))
        PROVE  RowWritten(runner[r].job)
    BY <1>1, <1>5, <1>6 DEF OnProgress, UpdateProgressApplies, Progressed, Row, RowWritten
  <1>7. ASSUME NEW r \in Runners, MarkCompleted(r), MarkCompletedApplies(runner[r].job),
               job' = Completed(runner[r].job, RungsDone(r))
        PROVE  RowWritten(runner[r].job)
    BY <1>1, <1>5, <1>7 DEF MarkCompleted, MarkCompletedApplies, Completed, Row, RowWritten
  <1>8. ASSUME NEW r \in Runners, MarkFailed(r), MarkFailedApplies(runner[r].job),
               job' = Failed(runner[r].job, runner[r].error)
        PROVE  RowWritten(runner[r].job)
    BY <1>1, <1>5, <1>8 DEF MarkFailed, MarkFailedApplies, Failed, Row, RowWritten
  <1>9. ASSUME NEW q \in Requests, RetryJob(q) \/ CancelQueued(q) PROVE req[q].job \in Jobs
    BY <1>9 DEF RetryJob, CancelQueued, TypeOK, HandlerType
  <1>10. ASSUME NEW r \in Runners, OnProgress(r) \/ MarkCompleted(r) \/ MarkFailed(r)
         PROVE  runner[r].job \in Jobs
    BY <1>5, <1>10 DEF OnProgress, MarkCompleted, MarkFailed
  <1>11. ASSUME NEW r \in Runners, NEW j \in Jobs, ClaimAndSpawn(r, j) PROVE RowWritten(j)
    BY <1>4, <1>11 DEF ClaimAndSpawn
  <1>12. QED
    BY <1>2, <1>3, <1>4, <1>6, <1>7, <1>8, <1>9, <1>10, <1>11, RowSteps DEF RowStep

\* A completed row is final.
LEMMA CompletedIsFinal ==
    ASSUME TypeOK, [Next]_vars, NEW j \in Jobs, job[j].state = "completed"
    PROVE  job'[j] = job[j]
  BY RowsMoveOnce DEF RowWritten

\* A row that is queued carries no outputs and no error of its earlier
\* attempts (the resets of RetryJob).
THEOREM QueuedRowsAreClean == Spec => []QueuedIsClean
  <1>1. Init => QueuedIsClean
    BY DEF Init, NoRow, QueuedIsClean, Queued
  <1>2. TypeOK /\ QueuedIsClean /\ [Next]_vars => QueuedIsClean'
    BY RowsMoveOnce DEF RowWritten, QueuedIsClean, Queued
  <1>3. QED
    BY <1>1, <1>2, Typing, PTL DEF Spec

\* The rows that the statements of store.go, the goroutines and the handlers
\* produce move along the edges of jobs.CanTransition and no others.
THEOREM RowsFollowLifecycle == Spec => ImplementsLifecycle
  <1>1. Init => Lifecycle!Init
    BY DEF Init, NoRow, Lifecycle!Init
  <1>2. TypeOK /\ [Next]_vars => [Lifecycle!Next]_([j \in Jobs |-> job[j].state])
    <2> SUFFICES ASSUME TypeOK, [Next]_vars,
                        [j \in Jobs |-> job[j].state]' # [j \in Jobs |-> job[j].state]
                 PROVE  Lifecycle!Next
      OBVIOUS
    <2>1. PICK k \in Jobs : RowWritten(k)
      BY RowsMoveOnce
    <2>2. job'[k].state # job[k].state
      BY <2>1 DEF RowWritten
    <2>3. [j \in Jobs |-> job[j].state]' = [[j \in Jobs |-> job[j].state] EXCEPT ![k] = job'[k].state]
      BY <2>1 DEF RowWritten
    <2>4. CASE job[k].state = "absent"
      <3>1. Lifecycle!Create(k)
        BY <2>1, <2>3, <2>4 DEF RowWritten, Lifecycle!Create
      <3>2. QED
        BY <3>1 DEF Lifecycle!Next
    <2>5. CASE job[k].state # "absent"
      <3>1. PICK to \in Lifecycle!States : to = job'[k].state
        BY <2>1 DEF RowWritten, Lifecycle!States
      <3>2. Lifecycle!Transition(k, to)
        BY <2>1, <2>2, <2>3, <2>5, <3>1 DEF RowWritten, Lifecycle!Transition, Lifecycle!CanTransition
      <3>3. QED
        BY <3>1, <3>2 DEF Lifecycle!Next
    <2>6. QED
      BY <2>4, <2>5
  <1>3. QED
    BY <1>1, <1>2, Typing, PTL DEF Spec, ImplementsLifecycle, Lifecycle!Spec

-----------------------------------------------------------------------------
(* The goroutines, their slots and their CancelFuncs. *)

\* The steps of runJob between its registration and its deferred functions.
WorkStep(r) ==
    \/ LoadInputs(r) \/ Download(r) \/ Transcode(r) \/ PutDir(r)
    \/ MarkCompleted(r) \/ MarkFailed(r) \/ Announce(r)

\* Such a step keeps the goroutine on its attempt of its job, and leaves the
\* other goroutines, the loop and the CancelFuncs alone (runJob, fail).
LEMMA WorkMoves ==
    ASSUME TypeOK, NEW r \in Runners, WorkStep(r)
    PROVE  /\ runner'[r].job = runner[r].job
           /\ runner'[r].attempt = runner[r].attempt
           /\ runner[r].pc \notin {"idle", "register", "cleanup", "release"}
           /\ runner'[r].pc \notin {"idle", "register", "release"}
           /\ \A s \in Runners \ {r} : runner'[s] = runner[s]
           /\ UNCHANGED <<cancels, sem, loop, wake, req, proc, clock>>
  <1>1. UNCHANGED <<cancels, sem, loop, wake, req, proc, clock>>
    BY DEF WorkStep, LoadInputs, Download, Transcode, PutDir, MarkCompleted, MarkFailed, Announce,
           rows, env
  <1>2. runner[r].pc \notin {"idle", "register", "cleanup", "release"}
    BY DEF WorkStep, LoadInputs, Download, Transcode, PutDir, MarkCompleted, MarkFailed, Announce
  <1>3. runner \in [Runners -> Goroutine] /\ runner[r] \in Goroutine
    BY DEF TypeOK, RunnerType
  <1>4. ASSUME NEW p \in {"transcode", "putdir", "announce", "cleanup"}, Goto(r, p)
        PROVE  /\ runner'[r].job = runner[r].job /\ runner'[r].attempt = runner[r].attempt
               /\ runner'[r].pc = p /\ \A s \in Runners \ {r} : runner'[s] = runner[s]
    BY <1>3, <1>4 DEF Goto, Goroutine
  <1>5. ASSUME NEW error, FailWith(r, error)
        PROVE  /\ runner'[r].job = runner[r].job /\ runner'[r].attempt = runner[r].attempt
               /\ runner'[r].pc = "fail" /\ \A s \in Runners \ {r} : runner'[s] = runner[s]
    BY <1>3, <1>5 DEF FailWith, Goroutine
  <1>6. CASE LoadInputs(r)
    <2>1. ASSUME NEW n \in 1..MaxRungs,
                 runner' = [runner EXCEPT ![r] = [@ EXCEPT !.pc = "download", !.ladder = n]]
          PROVE  /\ runner'[r].job = runner[r].job /\ runner'[r].attempt = runner[r].attempt
                 /\ runner'[r].pc = "download" /\ \A s \in Runners \ {r} : runner'[s] = runner[s]
      BY <1>3, <2>1 DEF Goroutine
    <2>2. QED
      BY <1>1, <1>2, <1>5, <1>6, <2>1 DEF LoadInputs
  <1>7. CASE PutDir(r)
    <2>1. ASSUME NEW n, NEW p \in {"transcode", "complete"},
                 runner' = [runner EXCEPT ![r] = [@ EXCEPT !.rung = n, !.pc = p]]
          PROVE  /\ runner'[r].job = runner[r].job /\ runner'[r].attempt = runner[r].attempt
                 /\ runner'[r].pc = p /\ \A s \in Runners \ {r} : runner'[s] = runner[s]
      BY <1>3, <2>1 DEF Goroutine
    <2>2. QED
      BY <1>1, <1>2, <1>5, <1>7, <2>1 DEF PutDir
  <1>8. CASE Download(r) \/ Transcode(r)
    BY <1>1, <1>2, <1>4, <1>5, <1>8 DEF Download, Transcode
  <1>9. CASE MarkCompleted(r) \/ MarkFailed(r) \/ Announce(r)
    BY <1>1, <1>2, <1>4, <1>9 DEF MarkCompleted, MarkFailed, Announce
  <1>10. QED
    BY <1>6, <1>7, <1>8, <1>9 DEF WorkStep

\* The other steps of goroutines, and Cancel.
LEMMA EdgeMoves ==
    ASSUME TypeOK
    PROVE  /\ \A r \in Runners : Register(r) =>
                /\ runner[r].pc = "register" /\ runner'[r].pc = "load"
                /\ runner'[r].job = runner[r].job /\ runner[r].job \in Jobs
                /\ runner'[r].attempt = runner[r].attempt
                /\ \A s \in Runners \ {r} : runner'[s] = runner[s]
           /\ \A r \in Runners : Cleanup(r) =>
                /\ runner[r].pc = "cleanup" /\ runner'[r].pc = "release"
                /\ runner'[r].job = runner[r].job /\ runner[r].job \in Jobs
                /\ \A s \in Runners \ {r} : runner'[s] = runner[s]
           /\ \A r \in Runners : Release(r) =>
                /\ runner[r].pc = "release" /\ runner'[r] = Idle
                /\ \A s \in Runners \ {r} : runner'[s] = runner[s]
           /\ \A r \in Runners, j \in Jobs : ClaimAndSpawn(r, j) =>
                /\ runner[r].pc = "idle" /\ runner'[r] = Spawned(j)
                /\ runner'[r].pc = "register" /\ runner'[r].job = j
                /\ \A s \in Runners \ {r} : runner'[s] = runner[s]
           /\ \A q \in Requests : Cancel(q) =>
                \A s \in Runners : /\ runner'[s].pc = runner[s].pc /\ runner'[s].job = runner[s].job
                                   /\ runner'[s].attempt = runner[s].attempt
                                   /\ runner'[s].error = runner[s].error
                                   /\ runner'[s].rung = runner[s].rung
  <1>1. runner \in [Runners -> Goroutine] /\ \A r \in Runners : runner[r].pc # "idle" => runner[r].job \in Jobs
    BY DEF TypeOK, RunnerType
  <1>2. ASSUME NEW r \in Runners, Register(r)
        PROVE  /\ runner[r].pc = "register" /\ runner'[r].pc = "load"
               /\ runner'[r].job = runner[r].job /\ runner[r].job \in Jobs
               /\ runner'[r].attempt = runner[r].attempt
               /\ \A s \in Runners \ {r} : runner'[s] = runner[s]
    BY <1>1, <1>2 DEF Register, Goto, Goroutine
  <1>3. ASSUME NEW r \in Runners, Cleanup(r)
        PROVE  /\ runner[r].pc = "cleanup" /\ runner'[r].pc = "release"
               /\ runner'[r].job = runner[r].job /\ runner[r].job \in Jobs
               /\ \A s \in Runners \ {r} : runner'[s] = runner[s]
    BY <1>1, <1>3 DEF Cleanup, Goto, Goroutine
  <1>4. ASSUME NEW r \in Runners, Release(r)
        PROVE  /\ runner[r].pc = "release" /\ runner'[r] = Idle
               /\ \A s \in Runners \ {r} : runner'[s] = runner[s]
    BY <1>1, <1>4 DEF Release
  <1>5. ASSUME NEW r \in Runners, NEW j \in Jobs, ClaimAndSpawn(r, j)
        PROVE  /\ runner[r].pc = "idle" /\ runner'[r] = Spawned(j)
               /\ runner'[r].pc = "register" /\ runner'[r].job = j
               /\ \A s \in Runners \ {r} : runner'[s] = runner[s]
    BY <1>1, <1>5 DEF ClaimAndSpawn, Spawned, Idle
  <1>6. ASSUME NEW q \in Requests, Cancel(q), NEW s \in Runners
        PROVE  /\ runner'[s].pc = runner[s].pc /\ runner'[s].job = runner[s].job
               /\ runner'[s].attempt = runner[s].attempt
               /\ runner'[s].error = runner[s].error
               /\ runner'[s].rung = runner[s].rung
    BY <1>1, <1>6 DEF Cancel, Goroutine
  <1>7. QED
    BY <1>2, <1>3, <1>4, <1>5, <1>6

\* Every step, as far as goroutines and CancelFuncs go.
LEMMA GoroutineSteps ==
    ASSUME [Next]_vars
    PROVE  \/ runner' = runner /\ cancels' = cancels
           \/ \E r \in Runners, j \in Jobs : ClaimAndSpawn(r, j)
           \/ \E r \in Runners : Register(r) \/ WorkStep(r) \/ Cleanup(r) \/ Release(r)
           \/ \E q \in Requests : Cancel(q)
           \/ Exit
  <1> USE DEF sched
  <1>1. CASE UNCHANGED vars
    BY <1>1 DEF vars
  <1>2. CASE LoopStep \/ ClaimError
    BY <1>2 DEF LoopStep, AcquireSlot, ClaimNothing, WakeUp, Tick, StopLoop, ClaimError, ReleaseAndWait
  <1>3. ASSUME NEW r \in Runners, RunnerStep(r) \/ OnProgress(r)
        PROVE  Register(r) \/ WorkStep(r) \/ Cleanup(r) \/ Release(r) \/ (runner' = runner /\ cancels' = cancels)
    BY <1>3 DEF RunnerStep, WorkStep, OnProgress
  <1>4. ASSUME NEW q \in Requests, StartRequest(q) \/ FinishRequest(q)
        PROVE  Cancel(q) \/ (runner' = runner /\ cancels' = cancels)
    BY <1>4 DEF StartRequest, CreateAdmit, AutoCreate, RetryAdmit, CancelRead, FinishRequest, CreateJob,
                RetryJob, CancelQueued, AnnounceRequest, RequestEnds
  <1>5. CASE Shutdown \/ Start
    BY <1>5 DEF Shutdown, Start
  <1>6. QED
    BY <1>1, <1>2, <1>3, <1>4, <1>5 DEF Next

\* A cancel reaches a goroutine of the job it names, or nobody, although a
\* goroutine that returns deletes the entry of its job and not its own (the
\* cancels map of Scheduler).
THEOREM CancelReachesItsJob == Spec => []CancelHitsOwnJob
  <1>1. Init => CancelHitsOwnJob
    BY DEF Init, CancelHitsOwnJob
  <1>2. TypeOK /\ CancelHitsOwnJob /\ [Next]_vars => CancelHitsOwnJob'
    <2> SUFFICES ASSUME TypeOK, CancelHitsOwnJob, [Next]_vars, NEW j \in Jobs, cancels'[j] # None
                 PROVE  runner'[cancels'[j]].pc \notin {"idle", "register", "release"}
                        /\ runner'[cancels'[j]].job = j
      BY DEF CancelHitsOwnJob
    <2>0. /\ cancels \in [Jobs -> Runners \cup {None}]
          /\ cancels[j] # None => /\ cancels[j] \in Runners
                                  /\ runner[cancels[j]].pc \notin {"idle", "register", "release"}
                                  /\ runner[cancels[j]].job = j
      BY DEF TypeOK, RunnerType, CancelHitsOwnJob
    <2>1. CASE runner' = runner /\ cancels' = cancels
      BY <2>0, <2>1
    <2>2. ASSUME NEW r \in Runners, NEW k \in Jobs, ClaimAndSpawn(r, k)
          PROVE  runner'[cancels'[j]].pc \notin {"idle", "register", "release"} /\ runner'[cancels'[j]].job = j
      BY <2>0, <2>2, EdgeMoves DEF ClaimAndSpawn
    <2>3. ASSUME NEW r \in Runners, Register(r)
          PROVE  runner'[cancels'[j]].pc \notin {"idle", "register", "release"} /\ runner'[cancels'[j]].job = j
      <3>1. cancels' = [cancels EXCEPT ![runner[r].job] = r]
        BY <2>3 DEF Register
      <3>2. QED
        BY <2>0, <2>3, <3>1, EdgeMoves
    <2>4. ASSUME NEW r \in Runners, WorkStep(r)
          PROVE  runner'[cancels'[j]].pc \notin {"idle", "register", "release"} /\ runner'[cancels'[j]].job = j
      BY <2>0, <2>4, WorkMoves
    <2>5. ASSUME NEW r \in Runners, Cleanup(r)
          PROVE  runner'[cancels'[j]].pc \notin {"idle", "register", "release"} /\ runner'[cancels'[j]].job = j
      <3>1. cancels' = [cancels EXCEPT ![runner[r].job] = None]
        BY <2>5 DEF Cleanup
      <3>2. QED
        BY <2>0, <2>5, <3>1, EdgeMoves
    <2>6. ASSUME NEW r \in Runners, Release(r)
          PROVE  runner'[cancels'[j]].pc \notin {"idle", "register", "release"} /\ runner'[cancels'[j]].job = j
      BY <2>0, <2>6, EdgeMoves DEF Release
    <2>7. ASSUME NEW q \in Requests, Cancel(q)
          PROVE  runner'[cancels'[j]].pc \notin {"idle", "register", "release"} /\ runner'[cancels'[j]].job = j
      <3>1. cancels' = cancels
        BY <2>7 DEF Cancel
      <3>2. \A s \in Runners : runner'[s].pc = runner[s].pc /\ runner'[s].job = runner[s].job
        BY <2>7, EdgeMoves
      <3>3. QED
        BY <2>0, <3>1, <3>2
    <2>8. CASE Exit
      BY <2>8 DEF Exit
    <2>9. QED
      BY <2>1, <2>2, <2>3, <2>4, <2>5, <2>6, <2>7, <2>8, GoroutineSteps
  <1>3. QED
    BY <1>1, <1>2, Typing, PTL DEF Spec

-----------------------------------------------------------------------------
(* The slots. *)

\* The sem channel holds a token for every goroutine and one for the claim
\* that Run is making, and never more than its capacity (Run).
SlotsCounted ==
    /\ sem = Cardinality(Occupied) + (IF loop = "claim" THEN 1 ELSE 0)
    /\ sem <= Slots
    /\ proc = "down" => loop = "stopped"

\* What the goroutine steps do to the set of goroutines that live.
LEMMA OccupiedMoves ==
    ASSUME TypeOK
    PROVE  /\ \A r \in Runners, j \in Jobs : ClaimAndSpawn(r, j) =>
                  r \notin Occupied /\ Occupied' = Occupied \cup {r}
           /\ \A r \in Runners : Release(r) => r \in Occupied /\ Occupied' = Occupied \ {r}
           /\ \A r \in Runners : Register(r) \/ WorkStep(r) \/ Cleanup(r) => Occupied' = Occupied
           /\ \A q \in Requests : Cancel(q) => Occupied' = Occupied
  <1>1. ASSUME NEW r \in Runners, NEW j \in Jobs, ClaimAndSpawn(r, j)
        PROVE  r \notin Occupied /\ Occupied' = Occupied \cup {r}
    <2>1. /\ runner[r].pc = "idle" /\ runner'[r].pc = "register"
          /\ \A s \in Runners \ {r} : runner'[s] = runner[s]
      BY <1>1, EdgeMoves
    <2>2. QED
      BY <2>1 DEF Occupied
  <1>2. ASSUME NEW r \in Runners, Release(r) PROVE r \in Occupied /\ Occupied' = Occupied \ {r}
    <2>1. /\ runner[r].pc = "release" /\ runner'[r].pc = "idle"
          /\ \A s \in Runners \ {r} : runner'[s] = runner[s]
      BY <1>2, EdgeMoves DEF Idle
    <2>2. QED
      BY <2>1 DEF Occupied
  <1>3. ASSUME NEW r \in Runners, Register(r) \/ WorkStep(r) \/ Cleanup(r) PROVE Occupied' = Occupied
    <2>1. /\ runner[r].pc # "idle" /\ runner'[r].pc # "idle"
          /\ \A s \in Runners \ {r} : runner'[s] = runner[s]
      BY <1>3, EdgeMoves, WorkMoves
    <2>2. QED
      BY <2>1 DEF Occupied
  <1>4. ASSUME NEW q \in Requests, Cancel(q) PROVE Occupied' = Occupied
    <2>1. \A s \in Runners : runner'[s].pc = runner[s].pc
      BY <1>4, EdgeMoves
    <2>2. QED
      BY <2>1 DEF Occupied
  <1>5. QED
    BY <1>1, <1>2, <1>3, <1>4

LEMMA OccupiedFinite == IsFiniteSet(Occupied) /\ Cardinality(Occupied) \in Nat
  <1>1. Occupied \in SUBSET Runners /\ IsFiniteSet(Runners)
    BY SchedulerAssumption DEF Occupied
  <1>2. QED
    BY <1>1, FS_Subset, FS_CardinalityType

\* Every token of the sem channel is accounted for (Run, runJob).
LEMMA SlotsStep ==
    ASSUME TypeOK, SlotsCounted, [Next]_vars PROVE SlotsCounted'
  <1> USE DEF sched, env
  <1>0. /\ sem \in Int /\ Slots \in Nat \ {0} /\ IsFiniteSet(Occupied) /\ Cardinality(Occupied) \in Nat
        /\ sem = Cardinality(Occupied) + (IF loop = "claim" THEN 1 ELSE 0) /\ sem <= Slots
        /\ proc = "down" => loop = "stopped"
    BY OccupiedFinite, SchedulerAssumption DEF TypeOK, LoopType, SlotsCounted
  <1>1. ASSUME Occupied' = Occupied, sem' = sem, loop' = loop \/ (loop # "claim" /\ loop' # "claim"),
               proc' = "down" => loop' = "stopped"
        PROVE  SlotsCounted'
    BY <1>0, <1>1 DEF SlotsCounted
  <1>2. runner' = runner => Occupied' = Occupied
    BY DEF Occupied
  <1>3. CASE UNCHANGED vars
    BY <1>0, <1>1, <1>2, <1>3 DEF vars
  <1>4. CASE AcquireSlot
    BY <1>0, <1>2, <1>4 DEF AcquireSlot, SlotsCounted
  <1>5. ASSUME NEW r \in Runners, NEW j \in Jobs, ClaimAndSpawn(r, j) PROVE SlotsCounted'
    <2>1. Cardinality(Occupied') = Cardinality(Occupied) + 1
      BY <1>0, <1>5, OccupiedMoves, FS_AddElement
    <2>2. QED
      BY <1>0, <1>5, <2>1 DEF ClaimAndSpawn, SlotsCounted
  <1>6. CASE ClaimNothing \/ ClaimError
    BY <1>0, <1>2, <1>6 DEF ClaimNothing, ClaimError, ReleaseAndWait, SlotsCounted
  <1>7. CASE WakeUp \/ Tick \/ StopLoop
    BY <1>0, <1>1, <1>2, <1>7 DEF WakeUp, Tick, StopLoop
  <1>8. ASSUME NEW r \in Runners, Register(r) \/ WorkStep(r) \/ Cleanup(r) \/ OnProgress(r)
        PROVE  SlotsCounted'
    <2>1. UNCHANGED <<sem, loop, proc>>
      BY <1>8, WorkMoves DEF Register, Cleanup, OnProgress
    <2>2. Occupied' = Occupied
      BY <1>2, <1>8, OccupiedMoves DEF OnProgress
    <2>3. QED
      BY <1>0, <1>1, <2>1, <2>2
  <1>9. ASSUME NEW r \in Runners, Release(r) PROVE SlotsCounted'
    <2>1. Cardinality(Occupied') = Cardinality(Occupied) - 1
      BY <1>0, <1>9, OccupiedMoves, FS_RemoveElement
    <2>2. QED
      BY <1>0, <1>9, <2>1 DEF Release, SlotsCounted
  <1>10. ASSUME NEW q \in Requests, StartRequest(q) \/ FinishRequest(q) PROVE SlotsCounted'
    <2>1. UNCHANGED <<sem, loop, proc>> /\ (Cancel(q) \/ runner' = runner)
      BY <1>10 DEF StartRequest, CreateAdmit, AutoCreate, RetryAdmit, CancelRead, FinishRequest,
                   CreateJob, RetryJob, CancelQueued, Cancel, AnnounceRequest, RequestEnds
    <2>2. QED
      BY <1>0, <1>1, <1>2, <2>1, OccupiedMoves
  <1>11. CASE Shutdown \/ Start
    BY <1>0, <1>1, <1>2, <1>11 DEF Shutdown, Start
  <1>12. CASE Exit
    <2>1. Occupied' = {}
      BY <1>12 DEF Exit, Occupied, Idle
    <2>2. QED
      BY <1>0, <1>12, <2>1, FS_EmptySet DEF Exit, SlotsCounted
  <1>13. QED
    BY <1>3, <1>4, <1>5, <1>6, <1>7, <1>8, <1>9, <1>10, <1>11, <1>12
       DEF Next, LoopStep, RunnerStep, WorkStep

\* Never more goroutines than slots, for any capacity.
THEOREM SlotsAreRespected == Spec => []SlotsRespected
  <1>1. Init => SlotsCounted
    <2> SUFFICES ASSUME Init PROVE SlotsCounted
      OBVIOUS
    <2>1. Occupied = {}
      BY DEF Init, Occupied, Idle
    <2>2. QED
      BY <2>1, FS_EmptySet, SchedulerAssumption DEF Init, SlotsCounted
  <1>2. TypeOK /\ SlotsCounted /\ [Next]_vars => SlotsCounted'
    BY SlotsStep
  <1>3. SlotsCounted => SlotsRespected
    BY OccupiedFinite, SchedulerAssumption DEF SlotsCounted, SlotsRespected
  <1>4. QED
    BY <1>1, <1>2, <1>3, Typing, PTL DEF Spec

-----------------------------------------------------------------------------
(* The wake token. *)

\* A goroutine's step queues no row, hides no lost answer and takes no token.
LEMMA RunnersQueueNothing ==
    ASSUME TypeOK, NEW r \in Runners, RunnerStep(r) \/ OnProgress(r), faults' = 0
    PROVE  /\ \A j \in Jobs : job'[j].state = "queued" => job[j].state = "queued"
           /\ UNCHANGED <<loop, proc, req>>
           /\ faults = 0
           /\ wake => wake'
  <1> USE DEF rows, effects, sched, env
  <1>1. job \in [Jobs -> Row] /\ faults \in Nat
    BY DEF TypeOK, StoreType, LoopType
  <1>2. UNCHANGED <<loop, proc, req>> /\ (wake' = wake \/ wake' = TRUE)
    <2>1. CASE WorkStep(r)
      BY <2>1, WorkMoves
    <2>2. CASE Register(r) \/ Cleanup(r) \/ Release(r) \/ OnProgress(r)
      BY <2>2 DEF Register, Cleanup, Release, OnProgress
    <2>3. QED
      BY <2>1, <2>2 DEF RunnerStep, WorkStep
  <1>3. wake => wake'
    BY <1>2, Zenon
  <1>4. /\ faults = 0
        /\ \A j \in Jobs : job'[j].state = "queued" => job[j].state = "queued"
    <2>1. CASE MarkCompleted(r)
      <3>1. faults = 0 /\ (job' = job \/ job' = Completed(runner[r].job, RungsDone(r)))
        BY <1>1, <2>1 DEF MarkCompleted, AnswerLost
      <3>2. QED
        BY <1>1, <3>1 DEF Completed, Row
    <2>2. CASE MarkFailed(r)
      <3>1. faults = 0 /\ (job' = job \/ job' = Failed(runner[r].job, runner[r].error))
        BY <1>1, <2>2 DEF MarkFailed, AnswerLost
      <3>2. QED
        BY <1>1, <3>1 DEF Failed, Row
    <2>3. CASE OnProgress(r)
      BY <1>1, <2>3 DEF OnProgress, Progressed, Row
    <2>4. CASE \/ Register(r) \/ LoadInputs(r) \/ Download(r) \/ Transcode(r)
               \/ PutDir(r) \/ Announce(r) \/ Cleanup(r) \/ Release(r)
      BY <2>4 DEF Register, LoadInputs, Download, Transcode, PutDir, Announce, Cleanup, Release
    <2>5. QED
      BY <2>1, <2>2, <2>3, <2>4 DEF RunnerStep
  <1>5. QED
    BY <1>2, <1>3, <1>4

\* A step that could put the loop to sleep over a queued row leaves a token or
\* a handler that will (Run, Wake).
LEMMA WakeStep ==
    ASSUME TypeOK, SlotsCounted, NoLostWakeup, [Next]_vars PROVE NoLostWakeup'
  <1> USE DEF sched, env
  <1> DEFINE Coming == \/ wake
                       \/ \E p \in Requests : req[p].pc = "announce" /\ req[p].state = "queued"
  <1> SUFFICES ASSUME loop' = "wait", proc' = "up", faults' = 0, NEW j \in Jobs, job'[j].state = "queued"
               PROVE  Coming'
    BY DEF NoLostWakeup, Queued
  <1>0. /\ faults \in Nat /\ (proc = "down" => loop = "stopped")
        /\ loop = "wait" /\ proc = "up" /\ faults = 0 /\ job[j].state = "queued" => Coming
    BY DEF TypeOK, LoopType, SlotsCounted, NoLostWakeup, Queued
  <1>1. CASE UNCHANGED vars
    BY <1>0, <1>1 DEF vars, rows
  <1>2. CASE LoopStep
    BY <1>2 DEF LoopStep, AcquireSlot, ClaimAndSpawn, ClaimNothing, ReleaseAndWait, WakeUp, Tick, StopLoop, Queued
  <1>3. CASE ClaimError
    BY <1>0, <1>3 DEF ClaimError, AnswerLost, ReleaseAndWait
  <1>4. ASSUME NEW r \in Runners, RunnerStep(r) \/ OnProgress(r) PROVE Coming'
    BY <1>0, <1>4, RunnersQueueNothing
  <1>5. ASSUME NEW q \in Requests, StartRequest(q) PROVE Coming'
    <2>1. UNCHANGED <<loop, proc, faults, job, wake>> /\ req[q].pc = "idle"
      BY <1>5 DEF StartRequest, CreateAdmit, AutoCreate, RetryAdmit, CancelRead, Accepting, rows
    <2>2. \A p \in Requests \ {q} : req'[p] = req[p]
      BY <1>5 DEF StartRequest, CreateAdmit, AutoCreate, RetryAdmit, CancelRead, Begin, TypeOK, HandlerType
    <2>3. QED
      BY <1>0, <2>1, <2>2
  <1>6. ASSUME NEW q \in Requests, FinishRequest(q) PROVE Coming'
    <2>1. req \in [Requests -> Handler]
      BY DEF TypeOK, HandlerType
    <2>2. CASE \E k \in Jobs : CreateJob(q, k)
      BY <1>0, <2>1, <2>2 DEF CreateJob, Answer
    <2>3. CASE RetryJob(q)
      BY <1>0, <2>1, <2>3 DEF RetryJob, Answer
    <2>4. CASE CancelQueued(q)
      <3>1. /\ UNCHANGED <<loop, proc, wake>> /\ req[q].pc = "dequeue" /\ faults = 0
            /\ \A p \in Requests \ {q} : req'[p] = req[p]
        BY <1>0, <2>1, <2>4 DEF CancelQueued, Answer
      <3>2. job[j].state = "queued"
        <4>1. req[q].job \in Jobs
          BY <2>4 DEF CancelQueued, TypeOK, HandlerType
        <4>2. QED
          BY <2>4, <3>1, <4>1 DEF CancelQueued, CancelQueuedApplies, Failed, TypeOK, StoreType, Row
      <3>3. QED
        BY <1>0, <3>1, <3>2
    <2>5. CASE Cancel(q) \/ RequestEnds(q)
      <3>1. /\ UNCHANGED <<loop, proc, wake, job, faults>> /\ req[q].pc # "announce"
            /\ \A p \in Requests \ {q} : req'[p] = req[p]
        BY <2>1, <2>5 DEF Cancel, RequestEnds, rows
      <3>2. QED
        BY <1>0, <3>1
    <2>6. CASE AnnounceRequest(q)
      <3>1. /\ UNCHANGED <<loop, proc, job, faults>> /\ wake' = (wake \/ req[q].state = "queued")
            /\ \A p \in Requests \ {q} : req'[p] = req[p]
        BY <2>1, <2>6 DEF AnnounceRequest, rows
      <3>2. wake => wake'
        BY <3>1, Zenon
      <3>3. req[q].state = "queued" => wake'
        BY <3>1, Zenon
      <3>4. QED
        BY <1>0, <3>1, <3>2, <3>3
    <2>7. QED
      BY <1>6, <2>2, <2>3, <2>4, <2>5, <2>6 DEF FinishRequest
  <1>7. CASE Shutdown \/ Exit \/ Start
    BY <1>7 DEF Shutdown, Exit, Start
  <1>8. QED
    BY <1>1, <1>2, <1>3, <1>4, <1>5, <1>6, <1>7 DEF Next

\* As long as no database answer was lost, the loop never sleeps over a
\* queued row unless a wake token is there or the handler that queued a row is
\* about to leave one, for any number of slots, goroutines and handlers, also
\* across restarts (Wake, Run).
THEOREM WakeupsAreNotLost == Spec => []NoLostWakeup
  <1>1. Init => NoLostWakeup /\ SlotsCounted
    <2> SUFFICES ASSUME Init PROVE NoLostWakeup /\ SlotsCounted
      OBVIOUS
    <2>1. Occupied = {}
      BY DEF Init, Occupied, Idle
    <2>2. QED
      BY <2>1, FS_EmptySet, SchedulerAssumption DEF Init, SlotsCounted, NoLostWakeup
  <1>2. TypeOK /\ SlotsCounted /\ NoLostWakeup /\ [Next]_vars => SlotsCounted' /\ NoLostWakeup'
    BY SlotsStep, WakeStep
  <1>3. QED
    BY <1>1, <1>2, Typing, PTL DEF Spec

-----------------------------------------------------------------------------
(* Completion: announced and billed once, and only when the row says so. *)

\* A goroutine about to announce and bill a completed job (runJob).
Billable(r) == runner[r].pc = "announce" /\ runner[r].error = "none"

Billing ==
    /\ CompletionIsReal
    /\ \A r \in Runners : runner[r].pc = "fail" => runner[r].error # "none"
    /\ \A r \in Runners : Billable(r) =>
          job[runner[r].job].state = "completed" /\ billed[runner[r].job] = 0
    /\ \A r, s \in Runners :
          Billable(r) /\ Billable(s) /\ runner[r].job = runner[s].job => r = s

\* A step that bills nothing, announces no completion and brings nobody to
\* that point.
LEMMA BillingKept ==
    ASSUME TypeOK, Billing, [Next]_vars, billed' = billed,
           \A j \in Jobs : announced'[j] = announced[j] \/ announced'[j] # "completed",
           \A s \in Runners : Billable(s)' => Billable(s) /\ runner'[s].job = runner[s].job,
           \A s \in Runners : runner'[s].pc = "fail" => runner'[s].error # "none"
    PROVE  Billing'
  <1>1. \A s \in Runners : Billable(s) => runner[s].job \in Jobs
    BY DEF Billable, TypeOK, RunnerType
  <1>2. \A j \in Jobs : job[j].state = "completed" => job'[j].state = "completed"
    BY CompletedIsFinal
  <1>3. CompletionIsReal'
    BY <1>2 DEF Billing, CompletionIsReal
  <1>4. \A r \in Runners : Billable(r)' =>
            job'[runner'[r].job].state = "completed" /\ billed'[runner'[r].job] = 0
    BY <1>1, <1>2 DEF Billing
  <1>5. \A r, s \in Runners :
            Billable(r)' /\ Billable(s)' /\ runner'[r].job = runner'[s].job => r = s
    BY DEF Billing
  <1>6. QED
    BY <1>3, <1>4, <1>5 DEF Billing

\* What steps announce: only Announce publishes a completion, and only it bills.
LEMMA Announcements ==
    ASSUME TypeOK, [Next]_vars
    PROVE  \/ \E r \in Runners : Announce(r)
           \/ /\ billed' = billed
              /\ \A j \in Jobs : announced'[j] = announced[j] \/ announced'[j] # "completed"
  <1> USE DEF effects
  <1>0. announced \in [Jobs -> {"none", "queued", "running", "completed", "failed"}]
    BY DEF TypeOK, StoreType
  <1>1. CASE UNCHANGED vars
    BY <1>1 DEF vars
  <1>2. CASE LoopStep \/ ClaimError
    BY <1>2 DEF LoopStep, AcquireSlot, ClaimAndSpawn, ClaimNothing, WakeUp, Tick, StopLoop, ClaimError, ReleaseAndWait
  <1>3. ASSUME NEW r \in Runners, Register(r) \/ OnProgress(r)
        PROVE  billed' = billed /\ \A j \in Jobs : announced'[j] = announced[j] \/ announced'[j] # "completed"
    <2>1. billed' = billed /\ announced' = [announced EXCEPT ![runner[r].job] = "running"]
      BY <1>3 DEF Register, OnProgress
    <2>2. QED
      BY <1>0, <2>1
  <1>4. ASSUME NEW r \in Runners, RunnerStep(r), ~Register(r), ~Announce(r)
        PROVE  billed' = billed /\ announced' = announced
    BY <1>4 DEF RunnerStep, LoadInputs, Download, Transcode, PutDir, MarkCompleted, MarkFailed, Cleanup, Release
  <1>5. ASSUME NEW q \in Requests, AnnounceRequest(q)
        PROVE  billed' = billed /\ \A j \in Jobs : announced'[j] = announced[j] \/ announced'[j] # "completed"
    <2>1. /\ billed' = billed /\ announced' = [announced EXCEPT ![req[q].job] = req[q].state]
          /\ req[q].state # "completed"
      BY <1>5 DEF AnnounceRequest, TypeOK, HandlerType, Handler
    <2>2. QED
      BY <1>0, <2>1
  <1>6. ASSUME NEW q \in Requests, StartRequest(q) \/ FinishRequest(q), ~AnnounceRequest(q)
        PROVE  billed' = billed /\ announced' = announced
    BY <1>6 DEF StartRequest, CreateAdmit, AutoCreate, RetryAdmit, CancelRead, FinishRequest, CreateJob,
                RetryJob, CancelQueued, Cancel, RequestEnds
  <1>7. CASE Shutdown \/ Exit \/ Start
    BY <1>7 DEF Shutdown, Exit, Start
  <1>8. QED
    BY <1>1, <1>2, <1>3, <1>4, <1>5, <1>6, <1>7 DEF Next

LEMMA BillingStep ==
    ASSUME TypeOK, Billing, [Next]_vars PROVE Billing'
  <1>0. runner \in [Runners -> Goroutine] /\ \A r \in Runners : runner[r].pc = "fail" => runner[r].error # "none"
    BY DEF TypeOK, RunnerType, Billing
  <1>1. ASSUME NEW r \in Runners, Announce(r) PROVE Billing'
    <2>1. /\ runner[r].job \in Jobs /\ runner[r].pc = "announce" /\ job' = job
          /\ runner'[r].pc = "cleanup" /\ \A s \in Runners \ {r} : runner'[s] = runner[s]
      BY <1>0, <1>1 DEF Announce, Goto, rows, Goroutine, TypeOK, RunnerType
    <2>2. announced \in [Jobs -> {"none", "queued", "running", "completed", "failed"}] /\ billed \in [Jobs -> Nat]
      BY DEF TypeOK, StoreType
    <2>3. \A s \in Runners : Billable(s)' => s # r /\ Billable(s) /\ runner'[s].job = runner[s].job
      BY <2>1 DEF Billable
    <2>4. \A s \in Runners : runner'[s].pc = "fail" => runner'[s].error # "none"
      BY <1>0, <2>1
    <2>5. CASE Billable(r)
      <3>1. /\ job[runner[r].job].state = "completed" /\ billed[runner[r].job] = 0
            /\ \A s \in Runners : Billable(s) /\ s # r => runner[s].job # runner[r].job
        BY <2>5 DEF Billing
      <3>2. /\ announced' = [announced EXCEPT ![runner[r].job] = "completed"]
            /\ billed' = billed \/ billed' = [billed EXCEPT ![runner[r].job] = @ + 1]
        BY <1>1, <2>5 DEF Announce, Outcome, Billable
      <3>3. /\ billed'[runner[r].job] \in {0, 1}
            /\ \A k \in Jobs \ {runner[r].job} : billed'[k] = billed[k] /\ announced'[k] = announced[k]
        BY <2>1, <2>2, <3>1, <3>2
      <3>4. CompletionIsReal'
        BY <2>1, <3>1, <3>3 DEF Billing, CompletionIsReal
      <3>5. \A s \in Runners : Billable(s)' =>
                job'[runner'[s].job].state = "completed" /\ billed'[runner'[s].job] = 0
        <4>1. \A s \in Runners : Billable(s) => runner[s].job \in Jobs
          BY DEF Billable, TypeOK, RunnerType
        <4>2. QED
          BY <2>1, <2>3, <3>1, <3>3, <4>1 DEF Billing
      <3>6. \A s, t \in Runners :
                Billable(s)' /\ Billable(t)' /\ runner'[s].job = runner'[t].job => s = t
        BY <2>3 DEF Billing
      <3>7. QED
        BY <2>4, <3>4, <3>5, <3>6 DEF Billing
    <2>6. CASE ~Billable(r)
      <3>1. /\ announced' = [announced EXCEPT ![runner[r].job] = "failed"] /\ billed' = billed
        BY <1>1, <2>1, <2>6 DEF Announce, Outcome, Billable
      <3>2. \A j \in Jobs : announced'[j] = announced[j] \/ announced'[j] # "completed"
        BY <2>2, <3>1
      <3>3. QED
        BY <2>3, <2>4, <3>1, <3>2, BillingKept
    <2>7. QED
      BY <2>5, <2>6
  <1>2. ASSUME NEW r \in Runners, MarkCompleted(r) PROVE Billing'
    <2>1. /\ runner[r].job \in Jobs /\ runner'[r].job = runner[r].job
          /\ \A s \in Runners \ {r} : runner'[s] = runner[s]
          /\ runner'[r].pc \in {"announce", "cleanup"}
          /\ runner[r].pc = "complete" /\ UNCHANGED effects
      <3>1. PICK pc \in {"announce", "cleanup"} : Goto(r, pc)
        BY <1>2 DEF MarkCompleted
      <3>2. QED
        BY <1>0, <1>2, <3>1 DEF MarkCompleted, Goto, Goroutine, TypeOK, RunnerType
    <2>2. runner'[r].pc = "announce" =>
              job[runner[r].job].state = "running" /\ job' = Completed(runner[r].job, RungsDone(r))
      BY <1>0, <1>2 DEF MarkCompleted, MarkCompletedApplies, Goto, Goroutine
    <2>3. \A s \in Runners : runner'[s].pc = "fail" => runner'[s].error # "none"
      BY <1>0, <2>1
    <2>4. billed' = billed /\ announced' = announced
      BY <2>1 DEF effects
    <2>5. CASE runner'[r].pc = "cleanup"
      <3>1. \A s \in Runners : Billable(s)' => Billable(s) /\ runner'[s].job = runner[s].job
        BY <2>1, <2>5 DEF Billable
      <3>2. QED
        BY <2>3, <2>4, <3>1, BillingKept
    <2>6. CASE runner'[r].pc = "announce"
      <3>1. /\ job[runner[r].job].state = "running" /\ job'[runner[r].job].state = "completed"
            /\ \A k \in Jobs \ {runner[r].job} : job'[k] = job[k]
        <4>1. job \in [Jobs -> Row] /\ job[runner[r].job] \in Row
          BY <2>1 DEF TypeOK, StoreType
        <4>2. job' = [job EXCEPT ![runner[r].job] =
                        [@ EXCEPT !.state = "completed", !.outputs = RungsDone(r)]]
          BY <2>2, <2>6 DEF Completed
        <4>3. QED
          BY <2>1, <2>2, <2>6, <4>1, <4>2 DEF Row
      <3>2. /\ billed[runner[r].job] = 0 /\ announced[runner[r].job] # "completed"
            /\ \A s \in Runners : Billable(s) => runner[s].job # runner[r].job
        <4>1. billed[runner[r].job] \in Nat
          BY <2>1 DEF TypeOK, StoreType
        <4>2. QED
          BY <2>1, <3>1, <4>1 DEF Billing, CompletionIsReal
      <3>3. CompletionIsReal'
        BY <2>4, <3>1 DEF Billing, CompletionIsReal
      <3>4. \A s \in Runners : Billable(s)' =>
                (s = r \/ (Billable(s) /\ runner[s].job # runner[r].job /\ runner'[s] = runner[s]))
        BY <2>1, <3>2 DEF Billable
      <3>5. \A s \in Runners : Billable(s)' =>
                job'[runner'[s].job].state = "completed" /\ billed'[runner'[s].job] = 0
        <4>1. \A s \in Runners : Billable(s) => runner[s].job \in Jobs
          BY DEF Billable, TypeOK, RunnerType
        <4>2. QED
          BY <2>1, <2>4, <3>1, <3>2, <3>4, <4>1 DEF Billing
      <3>6. \A s, t \in Runners :
                Billable(s)' /\ Billable(t)' /\ runner'[s].job = runner'[t].job => s = t
        BY <2>1, <3>4 DEF Billing
      <3>7. QED
        BY <2>3, <3>3, <3>5, <3>6 DEF Billing
    <2>7. QED
      BY <2>1, <2>5, <2>6
  <1>3. ASSUME ~(\E r \in Runners : Announce(r)),
               \A s \in Runners : Billable(s)' => Billable(s) /\ runner'[s].job = runner[s].job,
               \A s \in Runners : runner'[s].pc = "fail" => runner'[s].error # "none"
        PROVE  Billing'
    BY <1>3, Announcements, BillingKept
  <1>4. ASSUME NEW r \in Runners, \A s \in Runners \ {r} : runner'[s] = runner[s],
               ~(runner'[r].pc = "announce" /\ runner'[r].error = "none"),
               runner'[r].pc = "fail" => runner'[r].error # "none", ~(\E s \in Runners : Announce(s))
        PROVE  Billing'
    BY <1>0, <1>3, <1>4 DEF Billable
  <1>5. ASSUME NEW r \in Runners, LoadInputs(r) \/ Download(r) \/ Transcode(r) \/ PutDir(r),
               ~(\E s \in Runners : Announce(s))
        PROVE  Billing'
    <2>1. /\ \A s \in Runners \ {r} : runner'[s] = runner[s]
          /\ runner'[r].pc # "announce" /\ (runner'[r].pc = "fail" => runner'[r].error # "none")
      <3>1. ASSUME NEW error \in {"media", "internal", "user", "shutdown"}, FailWith(r, error)
            PROVE  /\ \A s \in Runners \ {r} : runner'[s] = runner[s]
                   /\ runner'[r].pc = "fail" /\ runner'[r].error # "none"
        BY <1>0, <3>1 DEF FailWith, Goroutine
      <3>2. ASSUME NEW p \in {"transcode", "putdir"}, Goto(r, p)
            PROVE  /\ \A s \in Runners \ {r} : runner'[s] = runner[s]
                   /\ runner'[r].pc = p
        BY <1>0, <3>2 DEF Goto, Goroutine
      <3>3. CancelReason \in {"user", "shutdown"}
        BY DEF CancelReason
      <3>4. CASE LoadInputs(r)
        <4>1. ASSUME NEW n \in 1..MaxRungs,
                     runner' = [runner EXCEPT ![r] = [@ EXCEPT !.pc = "download", !.ladder = n]]
              PROVE  /\ \A s \in Runners \ {r} : runner'[s] = runner[s]
                     /\ runner'[r].pc = "download"
          BY <1>0, <4>1 DEF Goroutine
        <4>2. QED
          BY <3>1, <3>4, <4>1 DEF LoadInputs
      <3>5. CASE Download(r) \/ Transcode(r)
        BY <3>1, <3>2, <3>3, <3>5 DEF Download, Transcode
      <3>6. CASE PutDir(r)
        <4>1. ASSUME NEW n, NEW p \in {"transcode", "complete"},
                     runner' = [runner EXCEPT ![r] = [@ EXCEPT !.rung = n, !.pc = p]]
              PROVE  /\ \A s \in Runners \ {r} : runner'[s] = runner[s]
                     /\ runner'[r].pc = p
          BY <1>0, <4>1 DEF Goroutine
        <4>2. QED
          BY <3>1, <3>3, <3>6, <4>1 DEF PutDir
      <3>7. QED
        BY <1>5, <3>4, <3>5, <3>6
    <2>2. QED
      BY <1>4, <1>5, <2>1
  <1>6. ASSUME NEW r \in Runners, MarkFailed(r), ~(\E s \in Runners : Announce(s)) PROVE Billing'
    <2>1. /\ \A s \in Runners \ {r} : runner'[s] = runner[s]
          /\ runner'[r].pc = "announce" /\ runner'[r].error = runner[r].error
      BY <1>0, <1>6 DEF MarkFailed, Goto, Goroutine
    <2>2. runner[r].pc = "fail"
      BY <1>6 DEF MarkFailed
    <2>3. QED
      BY <1>0, <1>4, <1>6, <2>1, <2>2
  <1>7. ASSUME NEW r \in Runners, Register(r) \/ Cleanup(r) \/ Release(r), ~(\E s \in Runners : Announce(s))
        PROVE  Billing'
    <2>1. /\ \A s \in Runners \ {r} : runner'[s] = runner[s]
          /\ runner'[r].pc \in {"load", "release", "idle"}
      BY <1>7, EdgeMoves DEF Idle
    <2>2. QED
      BY <1>4, <1>7, <2>1
  <1>8. ASSUME NEW r \in Runners, NEW j \in Jobs, ClaimAndSpawn(r, j), ~(\E s \in Runners : Announce(s))
        PROVE  Billing'
    BY <1>4, <1>8, EdgeMoves
  <1>9. ASSUME NEW q \in Requests, Cancel(q), ~(\E s \in Runners : Announce(s)) PROVE Billing'
    <2>1. \A s \in Runners : /\ runner'[s].pc = runner[s].pc /\ runner'[s].job = runner[s].job
                             /\ runner'[s].error = runner[s].error
      BY <1>9, EdgeMoves
    <2>2. QED
      BY <1>0, <1>3, <1>9, <2>1 DEF Billable
  <1>10. ASSUME Exit, ~(\E s \in Runners : Announce(s)) PROVE Billing'
    <2>1. \A s \in Runners : runner'[s].pc = "idle"
      BY <1>10 DEF Exit, Idle
    <2>2. QED
      BY <1>3, <1>10, <2>1 DEF Billable
  <1>11. ASSUME runner' = runner, ~(\E s \in Runners : Announce(s)) PROVE Billing'
    BY <1>0, <1>3, <1>11 DEF Billable
  <1>12. QED
    BY <1>1, <1>2, <1>5, <1>6, <1>7, <1>8, <1>9, <1>10, <1>11, GoroutineSteps DEF WorkStep

\* A job is announced and billed as completed only when its row says so, and
\* billed at most once, over any number of attempts, goroutines, cancels,
\* lost answers and restarts.
THEOREM CompletionsAreReal == Spec => []CompletionIsReal
  <1>1. Init => Billing
    BY DEF Init, Idle, NoRow, Billing, Billable, CompletionIsReal
  <1>2. TypeOK /\ Billing /\ [Next]_vars => Billing'
    BY BillingStep
  <1>3. Billing => CompletionIsReal
    BY DEF Billing
  <1>4. QED
    BY <1>1, <1>2, <1>3, Typing, PTL DEF Spec

-----------------------------------------------------------------------------
(* Outputs. *)

\* What a working goroutine has uploaded is still there, from its attempt, and
\* a goroutine that is about to complete has uploaded a rung (runJob).
Uploaded ==
    \A r \in Runners : runner[r].pc \in Working =>
        /\ \A i \in RungsDone(r) : stored[runner[r].job][i] = runner[r].attempt
        /\ runner[r].pc = "complete" => RungsDone(r) # {}

\* What the outputs theorem is inductive with.
Outputs == Ownership /\ Uploaded /\ CompletedOutputsStored

\* Only PutDir touches the object store, and only the rung its goroutine is at.
LEMMA StoredMoves ==
    ASSUME TypeOK, [Next]_vars
    PROVE  \/ stored' = stored
           \/ \E r \in Runners : PutDir(r)
  <1> USE DEF effects
  <1>1. CASE UNCHANGED vars
    BY <1>1 DEF vars
  <1>2. CASE LoopStep \/ ClaimError
    BY <1>2 DEF LoopStep, AcquireSlot, ClaimAndSpawn, ClaimNothing, WakeUp, Tick, StopLoop, ClaimError,
                ReleaseAndWait
  <1>3. ASSUME NEW r \in Runners, RunnerStep(r) \/ OnProgress(r), ~PutDir(r) PROVE stored' = stored
    BY <1>3 DEF RunnerStep, Register, LoadInputs, Download, Transcode, MarkCompleted, MarkFailed, Announce,
                Cleanup, Release, OnProgress
  <1>4. ASSUME NEW q \in Requests, StartRequest(q) \/ FinishRequest(q) PROVE stored' = stored
    BY <1>4 DEF StartRequest, CreateAdmit, AutoCreate, RetryAdmit, CancelRead, FinishRequest, CreateJob,
                RetryJob, CancelQueued, Cancel, AnnounceRequest, RequestEnds
  <1>5. CASE Shutdown \/ Exit \/ Start
    BY <1>5 DEF Shutdown, Exit, Start
  <1>6. QED
    BY <1>1, <1>2, <1>3, <1>4, <1>5 DEF Next

\* A goroutine that works after a step of somebody else, or after a step of its
\* own that is not an upload, has as much behind it as before (runJob).
RungKept(s) ==
    runner'[s].pc \in Working =>
        \/ /\ runner[s].pc \in Working /\ runner'[s].job = runner[s].job
           /\ runner'[s].attempt = runner[s].attempt /\ runner'[s].rung = runner[s].rung
           /\ runner'[s].pc = "complete" => runner[s].pc = "complete"
        \/ runner'[s].rung = 1 /\ runner'[s].pc # "complete"

LEMMA RungsKept ==
    ASSUME TypeOK, [Next]_vars, ~(\E r \in Runners : PutDir(r)), NEW s \in Runners
    PROVE  RungKept(s)
  <1>0. runner \in [Runners -> Goroutine] /\ runner[s] \in Goroutine
    BY DEF TypeOK, RunnerType
  <1>1. ASSUME runner'[s] = runner[s] PROVE RungKept(s)
    BY <1>1 DEF RungKept
  <1>2. ASSUME NEW p \in {"load", "transcode", "putdir", "announce", "cleanup", "release"}, Goto(s, p),
               runner[s].pc \in Working
        PROVE  RungKept(s)
    BY <1>0, <1>2 DEF Goto, Goroutine, RungKept
  <1>3. ASSUME NEW error, FailWith(s, error), runner[s].pc \in Working PROVE RungKept(s)
    BY <1>0, <1>3 DEF FailWith, Goroutine, RungKept
  <1>4. CASE LoadInputs(s)
    <2>1. ASSUME NEW n \in 1..MaxRungs,
                 runner' = [runner EXCEPT ![s] = [@ EXCEPT !.pc = "download", !.ladder = n]],
                 runner[s].pc \in Working
          PROVE  RungKept(s)
      BY <1>0, <2>1 DEF Goroutine, RungKept
    <2>2. QED
      BY <1>3, <1>4, <2>1 DEF LoadInputs, Working
  <1>5. CASE Register(s) \/ Download(s) \/ Transcode(s) \/ MarkCompleted(s) \/ MarkFailed(s)
    BY <1>2, <1>3, <1>5 DEF Register, Download, Transcode, MarkCompleted, MarkFailed, Working
  <1>6. CASE Announce(s) \/ Cleanup(s)
    <2>1. runner'[s].pc \in Closing
      BY <1>0, <1>6 DEF Announce, Cleanup, Goto, Closing, Goroutine
    <2>2. QED
      BY <2>1 DEF RungKept, Working, Closing
  <1>7. CASE Release(s) \/ Exit
    <2>1. runner'[s] = Idle
      BY <1>0, <1>7 DEF Release, Exit
    <2>2. QED
      BY <2>1 DEF RungKept, Working, Idle
  <1>8. ASSUME NEW j \in Jobs, ClaimAndSpawn(s, j) PROVE RungKept(s)
    <2>1. runner'[s] = Spawned(j)
      BY <1>0, <1>8 DEF ClaimAndSpawn
    <2>2. QED
      BY <2>1 DEF RungKept, Spawned, Idle
  <1>9. ASSUME NEW q \in Requests, Cancel(q) PROVE RungKept(s)
    <2>1. /\ runner'[s].pc = runner[s].pc /\ runner'[s].job = runner[s].job
          /\ runner'[s].attempt = runner[s].attempt /\ runner'[s].rung = runner[s].rung
      BY <1>9, EdgeMoves
    <2>2. QED
      BY <2>1 DEF RungKept
  <1>10. ASSUME NEW r \in Runners \ {s}, NEW j \in Jobs, ClaimAndSpawn(r, j) PROVE RungKept(s)
    BY <1>1, <1>10, EdgeMoves
  <1>11. ASSUME NEW r \in Runners \ {s}, Register(r) \/ WorkStep(r) \/ Cleanup(r) \/ Release(r)
         PROVE  RungKept(s)
    BY <1>1, <1>11, EdgeMoves, WorkMoves
  <1>12. QED
    BY <1>1, <1>4, <1>5, <1>6, <1>7, <1>8, <1>9, <1>10, <1>11, GoroutineSteps DEF WorkStep

\* A row becomes completed by MarkCompleted of a goroutine of its job, which
\* lists the rungs it is past.
LEMMA NewlyCompleted ==
    ASSUME TypeOK, [Next]_vars, NEW j \in Jobs, job'[j].state = "completed", job[j].state # "completed"
    PROVE  \E r \in Runners : /\ runner[r].pc = "complete" /\ runner[r].job = j
                              /\ job'[j].outputs = RungsDone(r) /\ job'[j].attempts = job[j].attempts
  <1>0. job \in [Jobs -> Row] /\ job[j] \in Row
    BY DEF TypeOK, StoreType
  <1>1. ASSUME NEW q \in Requests, NEW k \in Jobs, CreateJob(q, k) PROVE FALSE
    BY <1>0, <1>1 DEF CreateJob, Inserted, NoRow
  <1>2. ASSUME NEW q \in Requests, RetryJob(q) PROVE FALSE
    BY <1>0, <1>2 DEF RetryJob, Retried, Row
  <1>3. ASSUME NEW k, NEW error, job' = Failed(k, error) PROVE FALSE
    BY <1>0, <1>3 DEF Failed, Row
  <1>4. ASSUME NEW k, job' = Claimed(k) PROVE FALSE
    BY <1>0, <1>4 DEF Claimed, Row
  <1>5. ASSUME NEW k, NEW done, job' = Progressed(k, done) PROVE FALSE
    BY <1>0, <1>5 DEF Progressed, Row
  <1>6. ASSUME NEW r \in Runners, MarkCompleted(r), job' = Completed(runner[r].job, RungsDone(r))
        PROVE  /\ runner[r].pc = "complete" /\ runner[r].job = j
               /\ job'[j].outputs = RungsDone(r) /\ job'[j].attempts = job[j].attempts
    <2>1. runner[r].pc = "complete"
      BY <1>6 DEF MarkCompleted
    <2>2. runner[r].job = j
      BY <1>0, <1>6 DEF Completed
    <2>3. job'[j] = [job[j] EXCEPT !.state = "completed", !.outputs = RungsDone(r)]
      BY <1>0, <1>6, <2>2 DEF Completed
    <2>4. QED
      BY <1>0, <2>1, <2>2, <2>3 DEF Row
  <1>7. QED
    BY <1>1, <1>2, <1>3, <1>4, <1>5, <1>6, RowSteps DEF RowStep, CancelQueued, ClaimAndSpawn

LEMMA OutputsStep ==
    ASSUME TypeOK, Outputs, [Next]_vars PROVE Uploaded' /\ CompletedOutputsStored'
  <1>0. /\ runner \in [Runners -> Goroutine] /\ stored \in [Jobs -> [1..MaxRungs -> Nat]]
        /\ \A r \in Runners : runner[r].pc \in Working => runner[r].job \in Jobs
        /\ \A r \in Runners : runner[r].rung \in 1..(MaxRungs + 1) /\ MaxRungs \in Nat
    BY SchedulerAssumption DEF TypeOK, StoreType, RunnerType, Goroutine, Working
  <1>1. ASSUME NEW r \in Runners, PutDir(r) PROVE Uploaded' /\ CompletedOutputsStored'
    <2>1. /\ runner[r] \in Goroutine /\ runner[r].pc = "putdir" /\ runner[r].job \in Jobs
          /\ runner[r].rung \in 1..MaxRungs /\ job' = job /\ runner[r].pc \in Working
          /\ job[runner[r].job].state = "running"
      <3>1. runner[r].rung <= runner[r].ladder /\ runner[r].ladder \in 1..MaxRungs
        BY <1>1 DEF PutDir, TypeOK, RunnerType, Goroutine
      <3>2. QED
        BY <1>0, <1>1, <3>1 DEF PutDir, rows, Working, Outputs, Ownership, WorkingOwnsRow
    <2>2. /\ \A k \in Jobs \ {runner[r].job} : stored'[k] = stored[k]
          /\ \A i \in RungsDone(r) : stored'[runner[r].job][i] = stored[runner[r].job][i]
      <3>1. ASSUME NEW x \in Nat,
                   stored' = [stored EXCEPT ![runner[r].job] = [@ EXCEPT ![runner[r].rung] = x]]
            PROVE  /\ \A k \in Jobs \ {runner[r].job} : stored'[k] = stored[k]
                   /\ \A i \in RungsDone(r) : stored'[runner[r].job][i] = stored[runner[r].job][i]
        BY <1>0, <2>1, <3>1 DEF RungsDone
      <3>2. runner[r].attempt \in Nat
        BY <2>1 DEF Goroutine
      <3>3. QED
        BY <1>1, <3>1, <3>2 DEF PutDir
    <2>3. CompletedOutputsStored'
      BY <2>1, <2>2 DEF Outputs, CompletedOutputsStored
    <2>4. \A s \in Runners \ {r} : runner'[s] = runner[s]
      BY <1>1, WorkMoves DEF WorkStep
    <2>5. ASSUME NEW s \in Runners \ {r}, runner'[s].pc \in Working
          PROVE  /\ \A i \in RungsDone(s)' : stored'[runner'[s].job][i] = runner'[s].attempt
                 /\ runner'[s].pc = "complete" => RungsDone(s)' # {}
      <3>1. runner[s].job \in Jobs \ {runner[r].job}
        BY <1>0, <2>1, <2>4, <2>5 DEF Outputs, Ownership, ExclusiveExecution
      <3>2. QED
        BY <2>2, <2>4, <2>5, <3>1 DEF Outputs, Uploaded, RungsDone
    <2>6. /\ \A i \in RungsDone(r)' : stored'[runner'[r].job][i] = runner'[r].attempt
          /\ runner'[r].pc = "complete" => RungsDone(r)' # {}
      <3>1. \A i \in RungsDone(r) : stored'[runner[r].job][i] = runner[r].attempt
        BY <2>1, <2>2 DEF Outputs, Uploaded
      <3>2. runner'[r].job = runner[r].job /\ runner'[r].attempt = runner[r].attempt
        BY <1>1, WorkMoves DEF WorkStep
      <3>3. ASSUME NEW error, FailWith(r, error) PROVE runner'[r].pc = "fail" /\ runner'[r].rung = runner[r].rung
        BY <1>0, <2>1, <3>3 DEF FailWith, Goroutine
      <3>4. ASSUME NEW p, runner' = [runner EXCEPT ![r] = [@ EXCEPT !.rung = runner[r].rung + 1, !.pc = p]],
                   stored' = [stored EXCEPT ![runner[r].job] = [@ EXCEPT ![runner[r].rung] = runner[r].attempt]]
            PROVE  /\ runner'[r].rung = runner[r].rung + 1
                   /\ stored'[runner[r].job][runner[r].rung] = runner[r].attempt
        BY <1>0, <2>1, <3>4 DEF Goroutine
      <3>5. CASE runner'[r].pc = "fail" /\ runner'[r].rung = runner[r].rung
        BY <3>1, <3>2, <3>5 DEF RungsDone
      <3>6. CASE /\ runner'[r].rung = runner[r].rung + 1
                 /\ stored'[runner[r].job][runner[r].rung] = runner[r].attempt
        <4>1. RungsDone(r)' = RungsDone(r) \cup {runner[r].rung}
          BY <2>1, <3>6 DEF RungsDone
        <4>2. QED
          BY <3>1, <3>2, <3>6, <4>1
      <3>7. QED
        BY <1>1, <3>3, <3>4, <3>5, <3>6 DEF PutDir
    <2>7. QED
      BY <2>3, <2>5, <2>6 DEF Uploaded
  <1>2. ASSUME ~(\E r \in Runners : PutDir(r)) PROVE Uploaded' /\ CompletedOutputsStored'
    <2>1. stored' = stored
      BY <1>2, StoredMoves
    <2>2. Uploaded'
      <3>1. SUFFICES ASSUME NEW s \in Runners, runner'[s].pc \in Working
                     PROVE  /\ \A i \in RungsDone(s)' : stored'[runner'[s].job][i] = runner'[s].attempt
                            /\ runner'[s].pc = "complete" => RungsDone(s)' # {}
        BY DEF Uploaded
      <3>2. CASE runner'[s].rung = 1 /\ runner'[s].pc # "complete"
        BY <3>2 DEF RungsDone
      <3>3. CASE /\ runner[s].pc \in Working /\ runner'[s].job = runner[s].job
                 /\ runner'[s].attempt = runner[s].attempt /\ runner'[s].rung = runner[s].rung
                 /\ runner'[s].pc = "complete" => runner[s].pc = "complete"
        BY <2>1, <3>3 DEF Outputs, Uploaded, RungsDone
      <3>4. QED
        BY <1>2, <3>1, <3>2, <3>3, RungsKept DEF RungKept
    <2>3. CompletedOutputsStored'
      <3>1. SUFFICES ASSUME NEW j \in Jobs, job'[j].state = "completed"
                     PROVE  /\ job'[j].outputs # {}
                            /\ \A i \in job'[j].outputs : stored'[j][i] = job'[j].attempts
        BY DEF CompletedOutputsStored
      <3>2. CASE job[j].state = "completed"
        BY <2>1, <3>2, CompletedIsFinal DEF Outputs, CompletedOutputsStored
      <3>3. CASE job[j].state # "completed"
        <4>1. PICK r \in Runners : /\ runner[r].pc = "complete" /\ runner[r].job = j
                                   /\ job'[j].outputs = RungsDone(r) /\ job'[j].attempts = job[j].attempts
          BY <3>1, <3>3, NewlyCompleted
        <4>2. runner[r].pc \in Working
          BY <4>1 DEF Working
        <4>3. QED
          BY <2>1, <4>1, <4>2 DEF Outputs, Uploaded, Ownership, WorkingOwnsRow
      <3>4. QED
        BY <3>2, <3>3
    <2>4. QED
      BY <2>2, <2>3
  <1>3. QED
    BY <1>1, <1>2

\* The outputs a completed job lists are in the object store, written by the
\* attempt that completed it, although every attempt writes under the same
\* prefix and earlier goroutines of the job may still be returning.
THEOREM OutputsAreStored == Spec => []CompletedOutputsStored
  <1>1. Init => Uploaded /\ CompletedOutputsStored
    BY DEF Init, Idle, NoRow, Uploaded, CompletedOutputsStored, Working
  <1>2. TypeOK /\ Ownership /\ Uploaded /\ CompletedOutputsStored /\ [Next]_vars
            => Uploaded' /\ CompletedOutputsStored'
    BY OutputsStep DEF Outputs
  <1>3. ExclusiveExecution /\ WorkingOwnsRow => Ownership
    BY DEF Ownership
  <1>4. QED
    BY <1>1, <1>2, <1>3, Typing, ExclusiveOwnership, PTL DEF Spec

-----------------------------------------------------------------------------
(* Admission. *)

\* The handlers that passed the admission check and have not acted yet.
Pending == {q \in Requests : req[q].pc \in {"insert", "retry"}}

\* A handler between its check and its statement counts like the job it is
\* going to make active (createJob, retryJob).
QuotaCounted ==
    (MaxActive >= 1 /\ ~AutoCreateJobs) =>
        Cardinality(Active) + Cardinality(Pending) <= MaxActive + Cardinality(Requests) - 1

\* Only a handler that acts makes a job active.
LEMMA ActiveMoves ==
    ASSUME TypeOK, [Next]_vars
    PROVE  \/ Active' \subseteq Active
           \/ \E q \in Requests, j \in Jobs : CreateJob(q, j) /\ Active' = Active \cup {j}
           \/ \E q \in Requests : RetryJob(q) /\ req[q].job \in Jobs /\ Active' = Active \cup {req[q].job}
  <1>0. job \in [Jobs -> Row]
    BY DEF TypeOK, StoreType
  <1>1. ASSUME NEW q \in Requests, NEW j \in Jobs, CreateJob(q, j) PROVE Active' = Active \cup {j}
    BY <1>0, <1>1 DEF CreateJob, Inserted, NoRow, Active
  <1>2. ASSUME NEW q \in Requests, RetryJob(q)
        PROVE  req[q].job \in Jobs /\ Active' = Active \cup {req[q].job}
    <2>1. req[q].job \in Jobs /\ job[req[q].job] \in Row
      BY <1>0, <1>2 DEF RetryJob, TypeOK, HandlerType
    <2>2. /\ \A k \in Jobs \ {req[q].job} : job'[k] = job[k]
          /\ job'[req[q].job].state = "queued"
      BY <1>0, <1>2, <2>1 DEF RetryJob, Retried, Row
    <2>3. QED
      BY <2>1, <2>2 DEF Active
  <1>3. ASSUME NEW j \in Jobs, RowWritten(j), job'[j].state # "queued" PROVE Active' \subseteq Active
    BY <1>3 DEF RowWritten, Active
  <1>4. ASSUME NEW j \in Jobs, RowWritten(j), job'[j].state = "queued"
        PROVE  \/ \E q \in Requests, k \in Jobs : CreateJob(q, k)
               \/ \E q \in Requests : RetryJob(q)
    <2>1. job[j].state \in {"absent", "failed"} /\ job[j] \in Row
      BY <1>0, <1>4 DEF RowWritten
    <2>2. ASSUME NEW k, NEW error, job' = Failed(k, error) PROVE FALSE
      BY <1>0, <1>4, <2>1, <2>2 DEF Failed, Row
    <2>3. ASSUME NEW k, job' = Claimed(k) PROVE FALSE
      BY <1>0, <1>4, <2>1, <2>3 DEF Claimed, Row
    <2>4. ASSUME NEW k, NEW done, job' = Progressed(k, done) \/ job' = Completed(k, done) PROVE FALSE
      BY <1>0, <1>4, <2>1, <2>4 DEF Progressed, Completed, Row
    <2>5. job' # job
      BY <1>4, <2>1
    <2>6. QED
      BY <2>2, <2>3, <2>4, <2>5, RowSteps DEF RowStep, CancelQueued, ClaimAndSpawn
  <1>5. ASSUME job' = job PROVE Active' \subseteq Active
    BY <1>5 DEF Active
  <1>6. QED
    BY <1>1, <1>2, <1>3, <1>4, <1>5, RowsMoveOnce

\* A handler becomes pending only when CheckJobAdmission let it pass, and is no
\* longer pending once it acted.
LEMMA PendingMoves ==
    ASSUME TypeOK, ~AutoCreateJobs, [Next]_vars
    PROVE  /\ \/ Pending' \subseteq Pending
              \/ \E q \in Requests : Admitted /\ job' = job /\ Pending' = Pending \cup {q}
           /\ \A q \in Requests, j \in Jobs : CreateJob(q, j) =>
                  q \in Pending /\ job[j].state = "absent" /\ Pending' = Pending \ {q}
           /\ \A q \in Requests : RetryJob(q) =>
                  q \in Pending /\ job[req[q].job].state = "failed" /\ Pending' = Pending \ {q}
  <1>0. req \in [Requests -> Handler]
    BY DEF TypeOK, HandlerType
  <1>1. ASSUME req' = req PROVE Pending' \subseteq Pending
    BY <1>1 DEF Pending
  <1>2. ASSUME NEW q \in Requests, NEW h, h.pc \notin {"insert", "retry"}, req' = [req EXCEPT ![q] = h]
        PROVE  Pending' = Pending \ {q}
    BY <1>0, <1>2 DEF Pending
  <1>3. ASSUME NEW q \in Requests, NEW j, NEW s, Answer(q, j, s) PROVE Pending' = Pending \ {q}
    <2>1. NoRequest.pc \notin {"insert", "retry"}
      BY DEF NoRequest
    <2>2. QED
      BY <1>2, <1>3, <2>1 DEF Answer
  <1>4. ASSUME NEW q \in Requests, NEW j \in Jobs, CreateJob(q, j)
        PROVE  q \in Pending /\ job[j].state = "absent" /\ Pending' = Pending \ {q}
    <2>1. q \in Pending
      BY <1>4 DEF CreateJob, Pending
    <2>2. QED
      BY <1>3, <1>4, <2>1 DEF CreateJob
  <1>5. ASSUME NEW q \in Requests, RetryJob(q)
        PROVE  q \in Pending /\ job[req[q].job].state = "failed" /\ Pending' = Pending \ {q}
    <2>1. q \in Pending
      BY <1>5 DEF RetryJob, Pending
    <2>2. QED
      BY <1>3, <1>5, <2>1 DEF RetryJob, RetryJobApplies
  <1>6. ASSUME NEW q \in Requests, CancelQueued(q) \/ Cancel(q) \/ AnnounceRequest(q) \/ RequestEnds(q)
        PROVE  Pending' \subseteq Pending
    <2>1. CASE CancelQueued(q)
      BY <1>3, <2>1 DEF CancelQueued
    <2>2. CASE req' = [req EXCEPT ![q] = NoRequest]
      <3>1. NoRequest.pc \notin {"insert", "retry"}
        BY DEF NoRequest
      <3>2. QED
        BY <1>2, <2>2, <3>1
    <2>3. QED
      BY <1>6, <2>1, <2>2 DEF Cancel, AnnounceRequest, RequestEnds
  <1>7. ASSUME NEW q \in Requests, CreateAdmit(q) \/ \E j \in Jobs : RetryAdmit(q, j)
        PROVE  Admitted /\ job' = job /\ Pending' = Pending \cup {q}
    <2>1. PICK pc \in {"insert", "retry"}, j \in Jobs \cup {None} : Begin(q, pc, j)
      BY <1>7 DEF CreateAdmit, RetryAdmit
    <2>2. Pending' = Pending \cup {q}
      BY <1>0, <2>1 DEF Begin, Pending
    <2>3. QED
      BY <1>7, <2>2 DEF CreateAdmit, RetryAdmit, rows
  <1>8. ASSUME NEW q \in Requests, NEW j \in Jobs, CancelRead(q, j) PROVE Pending' \subseteq Pending
    <2>1. PICK pc \in {"deliver", "dequeue"} : Begin(q, pc, j)
      BY <1>8 DEF CancelRead
    <2>2. QED
      BY <1>2, <2>1 DEF Begin
  <1>9. ASSUME NEW q \in Requests, StartRequest(q) \/ FinishRequest(q)
        PROVE  \/ Pending' \subseteq Pending
               \/ Admitted /\ job' = job /\ Pending' = Pending \cup {q}
    BY <1>4, <1>5, <1>6, <1>7, <1>8, <1>9 DEF StartRequest, FinishRequest, AutoCreate
  <1>10. CASE Exit
    <2>1. Pending' = {}
      BY <1>10 DEF Exit, NoRequest, Pending
    <2>2. QED
      BY <1>4, <1>5, <2>1
  <1>11. CASE UNCHANGED vars \/ LoopStep \/ ClaimError \/ Shutdown \/ Start
    BY <1>1, <1>4, <1>5, <1>11 DEF vars, LoopStep, AcquireSlot, ClaimAndSpawn, ClaimNothing, WakeUp, Tick,
           StopLoop, ClaimError, ReleaseAndWait, Shutdown, Start
  <1>12. ASSUME NEW r \in Runners, RunnerStep(r) \/ OnProgress(r) PROVE req' = req
    BY <1>12 DEF RunnerStep, Register, LoadInputs, Download, Transcode, PutDir, MarkCompleted, MarkFailed,
                 Announce, Cleanup, Release, OnProgress
  <1>13. QED
    BY <1>1, <1>4, <1>5, <1>9, <1>10, <1>11, <1>12 DEF Next

\* Active rows and pending handlers are finite sets.
LEMMA CountsAreFinite ==
    /\ IsFiniteSet(Active) /\ Cardinality(Active) \in Nat
    /\ IsFiniteSet(Pending) /\ Cardinality(Pending) \in Nat
    /\ Cardinality(Pending) <= Cardinality(Requests) /\ Cardinality(Requests) \in Nat
  <1>1. Active \in SUBSET Jobs /\ Pending \in SUBSET Requests
    BY DEF Active, Pending
  <1>2. IsFiniteSet(Jobs) /\ IsFiniteSet(Requests)
    BY SchedulerAssumption
  <1>3. QED
    BY <1>1, <1>2, FS_Subset, FS_CardinalityType

LEMMA QuotaStep ==
    ASSUME TypeOK, QuotaCounted, MaxActive >= 1, ~AutoCreateJobs, [Next]_vars
    PROVE  Cardinality(Active') + Cardinality(Pending') <= MaxActive + Cardinality(Requests) - 1
  <1>0. /\ IsFiniteSet(Active) /\ Cardinality(Active) \in Nat
        /\ IsFiniteSet(Pending) /\ Cardinality(Pending) \in Nat
        /\ Cardinality(Requests) \in Nat /\ MaxActive \in Int
        /\ Cardinality(Active) + Cardinality(Pending) <= MaxActive + Cardinality(Requests) - 1
    BY CountsAreFinite, SchedulerAssumption DEF QuotaCounted
  <1>1. ASSUME NEW q \in Pending, NEW j \in Jobs, j \notin Active,
               Active' = Active \cup {j}, Pending' = Pending \ {q}
        PROVE  Cardinality(Active') + Cardinality(Pending') <= MaxActive + Cardinality(Requests) - 1
    <2>1. Cardinality(Active') = Cardinality(Active) + 1
      BY <1>0, <1>1, FS_AddElement
    <2>2. Cardinality(Pending') = Cardinality(Pending) - 1
      BY <1>0, <1>1, FS_RemoveElement
    <2>3. QED
      BY <1>0, <2>1, <2>2
  <1>2. ASSUME NEW q \in Requests, NEW j \in Jobs, CreateJob(q, j), Active' = Active \cup {j}
        PROVE  Cardinality(Active') + Cardinality(Pending') <= MaxActive + Cardinality(Requests) - 1
    <2>1. q \in Pending /\ j \notin Active /\ Pending' = Pending \ {q}
      BY <1>2, PendingMoves DEF Active
    <2>2. QED
      BY <1>1, <1>2, <2>1
  <1>3. ASSUME NEW q \in Requests, RetryJob(q), req[q].job \in Jobs, Active' = Active \cup {req[q].job}
        PROVE  Cardinality(Active') + Cardinality(Pending') <= MaxActive + Cardinality(Requests) - 1
    <2>1. q \in Pending /\ req[q].job \notin Active /\ Pending' = Pending \ {q}
      BY <1>3, PendingMoves DEF Active
    <2>2. QED
      BY <1>1, <1>3, <2>1
  <1>4. ASSUME Active' \subseteq Active
        PROVE  Cardinality(Active') + Cardinality(Pending') <= MaxActive + Cardinality(Requests) - 1
    <2>1. Cardinality(Active') <= Cardinality(Active) /\ Cardinality(Active') \in Nat
      BY <1>0, <1>4, FS_Subset, FS_CardinalityType
    <2>2. CASE Pending' \subseteq Pending
      <3>1. Cardinality(Pending') <= Cardinality(Pending) /\ Cardinality(Pending') \in Nat
        BY <1>0, <2>2, FS_Subset, FS_CardinalityType
      <3>2. QED
        BY <1>0, <2>1, <3>1
    <2>3. ASSUME NEW q \in Requests, Admitted, Pending' = Pending \cup {q}
          PROVE  Cardinality(Active') + Cardinality(Pending') <= MaxActive + Cardinality(Requests) - 1
      <3>1. Pending' \in SUBSET Requests /\ IsFiniteSet(Requests)
        BY SchedulerAssumption DEF Pending
      <3>2. Cardinality(Pending') <= Cardinality(Requests) /\ Cardinality(Pending') \in Nat
        BY <3>1, FS_Subset, FS_CardinalityType
      <3>3. Cardinality(Active) < MaxActive
        BY <2>3, <1>0 DEF Admitted
      <3>4. QED
        BY <1>0, <2>1, <3>2, <3>3
    <2>4. QED
      BY <2>2, <2>3, PendingMoves
  <1>5. QED
    BY <1>2, <1>3, <1>4, ActiveMoves

\* The soft cap: with auto-create off, at most one job per further handler is
\* active beyond the effective maxActiveJobs, for any number of handlers that
\* count before they insert (CheckJobAdmission, createJob, retryJob).
THEOREM OvershootIsBounded == Spec => []QuotaOvershootBound
  <1>1. Init => QuotaCounted
    <2> SUFFICES ASSUME Init PROVE QuotaCounted
      OBVIOUS
    <2>1. Active = {} /\ Pending = {}
      BY DEF Init, NoRow, NoRequest, Active, Pending
    <2>2. Cardinality(Active) = 0 /\ Cardinality(Pending) = 0
      BY <2>1, FS_EmptySet
    <2>3. Cardinality(Requests) \in Nat /\ MaxActive \in Int
      BY CountsAreFinite, SchedulerAssumption
    <2>4. QED
      BY <2>2, <2>3 DEF QuotaCounted
  <1>2. TypeOK /\ QuotaCounted /\ [Next]_vars => QuotaCounted'
    BY QuotaStep DEF QuotaCounted
  <1>3. QuotaCounted => QuotaOvershootBound
    BY CountsAreFinite, SchedulerAssumption DEF QuotaCounted, QuotaOvershootBound
  <1>4. QED
    BY <1>1, <1>2, <1>3, Typing, PTL DEF Spec

=============================================================================
