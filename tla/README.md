# TLA+ specification of aether-edit

aether-edit is a file transcoder: a browser console uploads media in chunks to
an upload service, which stores the object and announces it; an orchestrator
probes landed objects, queues transcode jobs and runs them on ffmpeg; tenancy
keeps accounts, plans and usage; telemetry streams hardware and job state back
to the console. The services talk over NATS JetStream and each has its own
Postgres schema.

This directory models the parts of that system whose correctness depends on
the order in which things happen, checks them with TLC on small instances and
proves the central facts with TLAPS for every size.

## Inventory

| Component | State it keeps | Operations | Who it interacts with | What is hard |
|---|---|---|---|---|
| orchestrator `internal/scheduler` | slot channel, wake channel, cancel registry, one goroutine per job | Run, runJob, Wake, Cancel | job store, object store, engine, NATS | goroutines of one job that overlap, cancel at any point, shutdown |
| orchestrator `internal/store` | job, preset and source rows | one statement per operation, each with its own guard | all of the orchestrator | the guards must add up to the state machine of `jobs/job.go` |
| orchestrator `internal/httpapi` | none | createJob, retryJob, cancelJob; presets; reads | store, quota, scheduler | check-then-act on rows that others move |
| orchestrator `internal/quota` | limits | CheckJobAdmission | store | the cap is counted before the insert |
| orchestrator `internal/consumer` | none (durable consumer in JetStream) | handle, autoCreateJob | stream, object store, engine, store, scheduler | redelivery, ack timeout, crash before the ack |
| orchestrator engine, objstore, natsio, metering, config, auth, migrate | none that outlives a call | adapters | ffmpeg, S3, NATS, Postgres | the outcomes of their calls |
| upload service | session and chunk rows, multipart upload, staging object, assets, inflight gauge, retry delays | create, put chunk, complete, cancel, get | S3, Postgres, JetStream | concurrent handlers on one session, partial failure of a long sequence of calls |
| tenancy | users, workspaces, memberships, login states, refresh tokens, API keys, the key cache of the OIDC client, metering events and rollups | login, refresh, membership, keys, metering consumer, quota | OIDC provider, JetStream, orchestrator | token reuse, last owner, duplicate events, quota read before use |
| telemetry | subscriber buffers, sticky messages, job aggregate | hub publish and subscribe, aggregator, samplers, SSE | NATS, console | bounded buffers, reordered and repeated messages |
| contracts | none | wire types, configured quota | all services | none |
| console | upload tasks, session, event streams | chunk pump with pause, resume, cancel; SSE reconnect | all services | a pump of asynchronous fetches, aborted and restarted |
| `services/api`, `services/renderer`, `packages/core`, `web`, `mobile`, `schema` | no code yet | | | |
| `infra`, `docs/design` | deployment and a design prototype | | | |

What makes each one correct:

* scheduler: one goroutine executes a job at a time; its row is its own; at most
  `Slots` encodes run; completion is announced and billed iff it is recorded;
  no queued job is slept over; a cancel that is delivered goes to an attempt of
  its own job and ends it, however long its encode would take; every job ends.
* job store: rows move only along the edges of `jobs.CanTransition`.
* quota: the cap is exceeded by no more than the requests that are in the window.
* landed consumer: one job per object in spite of redelivery; no ack before the
  work is done; no readable object is lost.
* upload: what is announced is stored, whole, under its own hash; chunks stay
  done; COMPLETED comes after the events; cancel collects what was stored.
* tenancy: usage is counted once per event and no event is lost; the storage
  quota is exceeded by no more than what is not counted yet; a refresh token is
  used once and its family comes back from the dead only in a race (Observed); a
  login state opens one session; tokens stay within memberships; a workspace loses
  its last owner to nothing less than a race (Observed).
* telemetry: every dropped event is announced in its place; no event waits for
  the next one; the counters follow the jobs; GPU numbers follow the status.
* console: a chunk shown as done is recorded at the service, and an object shown
  as landed was published by it; nothing in flight is abandoned; an upload that
  has a session does not hang while it shows as uploading. Without a session it
  does (Observed): `createUpload` fails and the user resumes.

## Modules

| Module | Models |
|---|---|
| `JobLifecycle` | the four-state machine of `internal/jobs/job.go`: the abstract specification of a job row |
| `Scheduler` | claim loop, runners, job statements, job handlers, admission, process start and end |
| `SchedulerProofs` | theorems about `Scheduler` |
| `LandedConsumer` | the landed-event consumer over a redelivering stream; the jobs it creates then move as `JobLifecycle` allows |
| `LandedConsumerProofs` | theorems about `LandedConsumer` |
| `UploadSession` | one upload session: create, put, complete and cancel handlers, rows, bucket, gauge |
| `UploadSessionProofs` | theorems about `UploadSession` |
| `UploadEngine` | the console's upload of one file as a client of that service |
| `UploadEngineProofs` | theorems about `UploadEngine` |
| `Metering` | tenancy's metering consumer, its transaction, the usage rollups and the quota that reads them |
| `MeteringProofs` | theorems about `Metering` |
| `Workspaces` | tenancy's workspaces, memberships, API keys and access tokens |
| `WorkspacesProofs` | theorems about `Workspaces` |
| `Sessions` | sign-in, refresh rotation and logout; extends `Workspaces`, whose tables they share |
| `SessionsProofs` | theorems about `Sessions`; extends `WorkspacesProofs` |
| `Hub` | telemetry's SSE fan-out: the buffers, the notify channel and the loop of a connection |
| `Telemetry` | what is published to the hubs: job aggregator, log consumer, hardware loop; extends `Hub` |
| `TelemetryProofs` | theorems about `Hub` and `Telemetry` |
| `MC...` | constants and symmetry for TLC |

### Scheduler

The state is that of the code: `job` is the jobs table (state, attempts, error,
finished outputs, `queuedAt`), `sem`, `wake` and `cancels` are the fields of
`Scheduler`, `runner[r]` is a goroutine in `runJob` with its program counter,
`req[q]` a handler between two of its statements. `stored`, `announced` and
`billed` record the effects outside: objects under the output prefix, the last
state published, the completion events emitted.

One action is one call others can observe. `AcquireSlot`, `ClaimAndSpawn`,
`ClaimNothing`, `ClaimError`, `WakeUp`, `Tick` and `StopLoop` are `Run`;
`Register` to `Release` are `runJob` and its deferred functions in their order;
`CreateAdmit`/`CreateJob`, `RetryAdmit`/`RetryJob` and
`CancelRead`/`CancelQueued`/`Cancel` are the handlers, split where they stop
holding what they read. A statement carries the guard of its WHERE clause
(`...Applies`). A lost answer (`AnswerLost`, `Answer`) lets a statement commit
and its caller see an error. `Shutdown` makes the context done: from then on
every statement on it ends in an error, as pgx does. `Exit` is the end of
`main`, which does not wait for `Run`, or a crash. `AutoCreate` stands for the
insert of the landed consumer; which objects get one is `LandedConsumer`.

Abstracted: one workspace; error messages to five classes; progress numbers to
the set of finished rungs; preset and source reads to their outcome; publishing
and metering, whose errors are only logged, to one step.

### LandedConsumer

`settled`, `due`, `delivered` and `buffer` are the stream and the client's
prefetched deliveries, modelled as external from how the consumer uses them:
explicit acks, at most `MaxDeliver` deliveries, redelivery after a Nak or when
`AckWait` runs out. `pc` walks through `handle` and `autoCreateJob`. Parsing,
Exists, Download and Probe are one step because nothing shared changes in them.
Meanwhile users create, cancel and retry jobs and the scheduler runs them, along
`JobLifecycle`.

### UploadSession

`sess` and `chunk` are the rows, `multipart`, `parts`, `staging` and `assets`
the bucket, `call[i]` a handler between two calls. A file is a function from
chunks to contents; its hash and key are that function, and the ETag of a part
is its content. Every store or bucket call may fail with or without having taken
effect, within `MaxFaults`; a publication may fail at any time. The retry delay
of `BackoffDirector` shapes only the delay named in a 429 and is not modelled.

### UploadEngine

`task` is the `UploadTask` object. JavaScript runs one continuation at a time,
so an action is the code between two awaits, and `Pump`, which every
continuation ends in, is an operator of the object they leave behind. What is
still outstanding is counted, not named: `mover[m]` is how many invocations of
`moveChunk` stand at `m`, `get[g]` how many answers to `getUpload` are on their
way and what they will say, `completing[s]` how many invocations of `finish`
wait for a complete that the service has taken to `s`. Nothing bounds these counts but the clicks (`MaxClicks`) and failures
(`MaxFaults`). `Abort` turns the requests on the wire into pending rejections;
the catch then asks the controller of that later moment, as the code does. The
hook's `tasks` map drops a cancelled task, so no click reaches it any more. The
service appears as its session state, its recorded chunks and whether it has
published the landed event. Its complete and its cancel are split where the
handlers let others in: complete reads the session (`CompleteRead`), assembles,
and then publishes and sets COMPLETED; cancel reads it (`DeleteRead`) and later
sets CANCELLED without a condition (`DeleteWrites`). `deleting` holds the DELETE
of this console and one of another client of the workspace (`DeleteElsewhere`),
so both can overlap each other and any number of completes. `UploadSession` has
the steps in between and the bucket.

Abstracted: sizes, rates and the view; the hinted delay to a flag that ends at
some time; all pump timers to one, because a pump that finds nothing to claim
changes nothing.

### Metering

`event[e]` is a metering event from its admission (`AdmitUpload`, `AdmitJob`,
which ask the quota) over its publication to what the message says; `due` and
`lost` are the messages in the stream, `call[w]` an invocation of `handle` in
one process, `recorded` and `rollup` the two tables. `ApplyMetering` is split
where Postgres lets others in: the INSERT waits for an open transaction with the
same event id, the upsert for one on the same row and then adds to what it
committed; a COMMIT may work although its answer is lost. `CompleteAgain` is a
second complete of one upload, which publishes under a new id and is therefore
counted again; `slack` remembers what the last admission could not know of, so
that `StorageOvershootBound` says exactly how soft the quota is. At this commit
the upload service still asks configured limits (`upload/main.go:35`); the
admissions are those of a service that uses `quotaclient`.

Abstracted: one workspace; the kinds that only count; bytes and encode seconds
to small integers (the code adds seconds as float64); every malformed payload to
a negative amount.

### Workspaces

`users`, `spaces`, `role`, `active` and `key` are the tables, `access` the access
tokens that have not expired, as pairs of subject and workspace. A handler is
split at its statements: `UpdateBegin`, `UpdateCurrent`, `CountStep` and
`UpdateWrite` are `handleUpdateMemberRole`, and so on for adding, removing,
switching, keys and the exchange of a key for a token. What a handler has read
travels in `call[q]`. `raced` is history: it is set in every request that has
read a workspace whose memberships then change, so that `LastOwnerNeedsRace` can
say that the check of the last owner fails only under such a race. `Abort` is a
failing statement, a client that goes away or a crash, at any point.

Abstracted: names, e-mail addresses, key secrets and their hashes, times; the
handlers that only read.

### Sessions

`login` and `refresh` are the tables, `jwks` the key cache, `kid` the key the
provider signs with (external), `visit[v]` a request. `TakeLoginState` to
`BootstrapActive` are `handleCallback`, with `keyForKid` and `fetchJWKS` split
where the mutex is free; `IssueMembership` and `IssueCreate` are `issueSession`;
`RefreshGet`, `MarkRefreshTokenUsed`, `RefreshUser` and the two of
`issueSession` are `handleRefresh`; `LogoutGet` and `RevokeRefreshFamily` are
`handleLogout`, the second also the answer to a reused token. A token that was
ever issued may be presented at any time, twice and at once. The handlers of
`Workspaces` run beside them (`Handlers`).

Abstracted: clocks, except that the key cache ages; the checks on an ID token,
which only refuse (`Disconnect`). Expiry of tokens is left out here, since it
only takes requests away.

### Hub and Telemetry

`mu` is the hub's mutex with the loop of the `Publish` that holds it: the event,
the connections still to be served (`todo`) and the one that has been pushed to
but not signalled (`at`). `conn[c]` has the fields of `Conn`, the local variables
of `ServeConn` and three counters of history: events accepted, delivered, and
drops announced. A packet carries its number among the accepted events, which is
what makes the accounting of drops a statement about order and not only about
sums. `work[p]` is what a publisher has computed and not yet published:
`HandleState` and `HandleProgress` compute under the aggregator's mutex and
publish after it.

`Telemetry` adds the subjects with a goroutine each, messages that may be lost,
the aggregator, the log consumer and the hardware loop. The three hubs share
nothing, so `stream` picks one at the start. The states of a job (`phase`) are
those of the producer's contract, retry included; they are external because the
orchestrator at this commit publishes on another subject (Observed). `excused`
and `overlapped` record the two situations in which the aggregate may be wrong:
a lost message or an end that overtakes a progress message, and two handlers
that publish in the other order.

Abstracted: frames, heartbeats, rates of single jobs, the numbers of a sample.

## Runs

| Run | Instance | Shows |
|---|---|---|
| `scheduler` | 3 jobs, 1 slot, 2 handlers, cap 1, 3 queueings | slots, no lost wake-up, how soft the quota is |
| `scheduler_restart` | 1 job, 2 slots, 3 goroutine identities, ladder of up to 2, 1 lost answer, 1 exit | exclusive execution and ownership, honest completion, outputs that no earlier attempt tears, clean retries, cancel registry, refinement of `JobLifecycle` |
| `scheduler_live` | 2 jobs, 1 slot, 1 handler, 3 queueings, fair | a delivered cancel frees its slot; every queued job leaves the queue, every running job ends |
| `scheduler_shutdown` | 1 job, 1 exit | expected violation, see Findings |
| `landed` | 2 messages about one object, 1 refused, 1 fault, 1 job failure | no duplicate jobs, no early ack, every readable object handled |
| `upload` | 2 chunks, 2 contents, 3 handlers, 1 fault | landed objects, chunk map, event order, cancel, gauge |
| `upload_retry` | 1 chunk, 2 handlers, 1 fault | expected violation, see Findings |
| `console` | 2 chunks, 2 streams, 2 attempts, 2 clicks, 1 fault, fair | done chunks are recorded and landings published, whatever DELETE overlaps a complete; nothing in flight is abandoned, uploads with a session end |
| `metering` | 2 events, 2 processes, 2 months, storage 3, 3 faults, fair | exact usage, no event dropped, every event counted, how soft the storage quota is |
| `workspaces` | 2 people, 3 workspaces (one not yet created), 1 key, 2 requests in flight, 4 in all | tokens within memberships, the last owner, revoked keys |
| `sessions` | 1 of 2 people signs in, 2 login states, 2 refresh tokens, 2 provider keys, 2 + 1 requests in flight | rotation, reuse, logout, single-use login, the key cache |
| `telemetry` | 1 job, 1 subscriber, buffer of 2, 5 messages or samples | drop accounting, wake-ups, counters, status and samples |

Why the bounds are enough. The hard cases of the scheduler need two attempts of
one job that overlap (two queueings, two slots), a handler between them and one
failure: `scheduler_restart` has all of them at once, and a third goroutine
identity so that the second attempt can be followed by the end of the first.
A ladder of two lets an upload of one attempt meet the rungs of another.
Contention for the slot, the queue order and the quota need several jobs and two
handlers: `scheduler` has those, without failures. One slot is also the sharp
case of the wake-up: nobody else is there to signal in place of a lost token. A duplicate job needs one
redelivery, or a second message, and one failure; `MaxDeliver` is then one more
than the failures, as ten is in the code for up to nine. An upload race needs two handlers that complete and one that
cancels or puts; two contents make an ETag of the chunk map differ from the
stored part. A stale invocation in the console needs a pause and a resume, a
double resume two clicks after a failure, an auto-resume a failure and an abort
of the same chunk at two attempts; two streams let a late answer free a slot
that is no longer its own. Two events are enough for two transactions on one
event or on one row, for an overshoot and for a repeated complete; three faults
repeat a message, lose a COMMIT answer and end a process in one behaviour.
The last owner needs two owners (one request to make the second), and a race
two more requests in flight at once; the fourth adds the member, the key or the
switch that makes the others matter. Reuse, a double refresh and a logout that
overtakes a rotation need two requests on one family and a successor; a second
login state and a second provider key let two logins overtake each other in the
key cache. In `telemetry` five messages take a job through queued, running,
progress and its end or its retry; a buffer of two overflows while another drain
is being written.

Deadlock is not checked in `landed`, `metering` and the runs of `UploadSession`,
`UploadEngine`, `Workspaces`, `Sessions` and `Telemetry`, where the system may stop: all
messages settled and all jobs finished, a create that failed, an upload that has
landed, no more requests or samples within the bound. It is checked in the
scheduler runs.

Symmetry is used for safety runs only, over identities that no action
distinguishes.

## Fairness

`scheduler_live` assumes weak fairness of the claim loop, of every handler that
has begun, and of the statements and deferred functions of every goroutine: the
Go runtime schedules them and their calls return. Nobody has to send requests,
and the poll ticker is part of the loop. `OnProgress` and `ClaimError` are not
assumed. Process exits and lost answers are excluded, because after them jobs do
stay behind (Findings).

A download, an encode or an upload (`LongCalls`) may last for ever. It is only
assumed to return with the error of its context once that context is done
(`Interrupted`), which is what `exec.CommandContext` and the S3 client do; the
engine then answers with `ctx.Err()` (`ffmpegadapter/adapter.go:176`). So in
`CancelFreesSlot` it is the cancel that ends the work: a call that ran on the
context of the process instead of the job's would hang, and is the mutant of this
property. `JobsProgress` adds the premise that no such call lasts for ever
(`LongCallsEnd`).

`landed` assumes that the stream delivers what is due, that `AckWait` runs out,
and that the callback runs. Failures, crashes, users and the scheduler are not
assumed to do anything.

`console` assumes only that while a request or a timer is outstanding, some
request is answered or some timer fires: one weak fairness condition over all of
them, so a single request may be overtaken for as long as others come back.
Nobody has to click.

`metering` assumes that the stream delivers something that is due, that
`AckWait` runs out and that `handle` goes on. Nobody has to publish, and
failures are bounded: an event whose store never answers is never counted.

## Proofs

Every invariant and every action property that a passing run checks, and the
refinement of `JobLifecycle`, is also a theorem: it holds for every value of the
constants that satisfies the named assumption of its module, not only for the
instance of the run. The assumptions say that the sets a count is taken over are
finite, that bounds are numbers, and that the null value `None` is none of the
ordinary values; those of `Metering` and `Telemetry` also fix the shape of their
inputs. TLC evaluates them in the runs.

Few of the properties are inductive. The proofs share one layout: an invariant
that says what an actor may rely on between two of its steps, a relation that
says what any step may do to the part of the state in question, one lemma per
group of actions that its steps are such steps, and a lemma that such steps keep
the invariant. Sums and counts over finite sets are not computed by induction,
which the provers cannot do: they are compared by a smallest counterexample, or
by what adding or removing one element does to a cardinality.

### SchedulerProofs

* `Typing`: `TypeOK`. The part that is not mere typing is that a runner never
  leaves the ladder it read.
* `ExclusiveOwnership` and `OwnedRowsStay`: `ExclusiveExecution` and
  `WorkingOwnsRow`. The second is what makes the first inductive: a claim takes a
  queued row, so no goroutine that owns a running row can be on the same job;
  every statement of a handler is guarded by queued or failed, so it leaves the
  rows of executing goroutines alone; and a goroutine's own final statement is
  also what ends its execution (`OwnersKept`).
* `RowsFollowLifecycle`: `Spec` implements `JobLifecycle`. `RowStep` says that a
  step of the system writes at most one row, and how; `QueuedRowsAreClean`
  (`QueuedIsClean`) follows from the same description: the only writers of the
  columns that a retry resets are goroutines that execute, whose row is running.
* `CancelReachesItsJob`: `CancelHitsOwnJob`.
* `SlotsAreRespected`: `SlotsRespected`, because `sem` holds exactly the living
  goroutines and the claim under way (`SlotsCounted`).
* `WakeupsAreNotLost`: `NoLostWakeup`, for any number of slots and however many of
  them are taken. Nothing is concluded from a goroutine that is still working and
  will signal when it returns: a queued job that the loop sleeps over has its
  own token in the channel or a handler that is about to leave one, because a
  claim that found nothing saw an empty queue and every queueing after it signals;
  goroutines queue nothing (`RunnersQueueNothing`).
* `CompletionsAreReal`: `CompletionIsReal`. A goroutine on its way to announce a
  completion is the only one of its job and found it unbilled (`Billing`).
* `OutputsAreStored`: `CompletedOutputsStored`. The rungs a goroutine has uploaded
  are still those of its attempt, since nobody else executes its job (`Uploaded`).
* `OvershootIsBounded`: `QuotaOvershootBound`. A handler between its check and its
  statement counts like the job it is about to make active (`QuotaCounted`).

### LandedConsumerProofs

* `OneJobPerObject`: `NoDuplicateJobs`. What the guard of `autoCreateJob` saw is
  still true at its INSERT (`GuardHolds`): others move jobs meanwhile, but only a
  retry revives one, and a retried job is the user's.
* `AckFollowsWork`: `AckedIsDone`, from what `handle` did on its way to the ack
  (`WorkDone`). `Typing`: `TypeOK`.

### UploadSessionProofs

One invariant carries all five. Concurrent assembly is safe because the multipart
upload is completed at most once: before that there is no object anywhere, and
afterwards all objects, in the staging area, under `assets/`, in the row, in the
events and in the handlers, are the same one (`OneObject`). `Progress` and
`Collecting` say what a handler may rely on at each step, and `Evolves` what the
others may do meanwhile.

* `LandsOneStoredObject`: `LandedIsStored`; `CompletionIsAnnounced`:
  `CompletedIsAnnounced`; `CancelCollects`: `CancelledIsCollected`.
* `GaugeIsExact`: `InflightIsExact`, by the weight of each program counter.
* `DoneChunksStay`: the action property `DoneIsKept`.

### UploadEngineProofs

* `ConsoleIsHonest`: `DoneIsStored`. A DONE cell comes from an answer that
  travelled, so the invariant says what the answers on their way may contain
  (`RecordedIsStored`, `AnswersAreStored`); stale ones stay true because the
  service never forgets a chunk.
* `LandsOnlyWhole`: `LandedIsPublished`. A DELETE may change the session at any
  point of a complete, so nothing is said about the state a landing leaves behind
  (Observed). What holds is about the past: the session is
  created once (`CreatedOnce`) and nobody has read it before (`Begun`); a
  complete that goes on to assemble has read a session with every chunk recorded
  (`CompletingIsWhole`), which stays true since chunks are not forgotten; and only
  a complete that has published leaves COMPLETED behind (`CompletedIsPublished`).
* `NothingWaitsInVain`: `InflightIsMoved`. Every chunk and slot that `pump` claims
  gets its own `moveChunk`; pausing and resuming put back what has none
  (`StaysMoved`).

### MeteringProofs

* `NoEventDropped`: `NothingDropped`. An ack is safe because the event is recorded
  by then (`AckedIsRecorded`), and what a message says cannot change because only
  published events travel (`CarriedIsPublished`).
* `UsageHolds`: `UsageIsExact`. Open transactions are of different events, those
  about to commit of different months, and each holds the committed row with its
  event added (`Transactions`); what was recorded is final. So a commit adds one
  event to the sum of one month and touches no other.
* `OvershootIsSlack`: `StorageOvershootBound`. A step changes counted and
  uncounted bytes by opposite amounts, or is one the slack accounts for.

### WorkspacesProofs and SessionsProofs

* `TokensWithinMembership`: `ScopeIsMembership` under the handlers of `Workspaces`;
  `ScopeWithSessions` with logins and refreshes beside them. A switch that was let
  in is for a member or for one who was removed since (`SwitchIsEntitled`).
* `RevocationIsFinal`: the action property `RevokedKeyIsDead`.
* `LastOwnerOnlyRaced`: the action property `LastOwnerNeedsRace`. What a demotion
  or a removal has read is still true unless its workspace was changed meanwhile
  (`ReadsHold`), and then its guard protects the last owner.
* `RotationIsExclusive`: `OneTokenPerFamily`; `LoginOnce`: `LoginStateIsSingleUse`.
  Of all that could still use a family, or a login state, there are never two
  (`Rotation`, `Claimed`).
* `PublishedKeyIsFound`: the action property `KeyIsFound`. The document a login
  fetched is not older than the key it looks for (`VisitKey`).
* `EndedForGood`: the action property `FamilyStaysDead`.

### TelemetryProofs

* `NoSilentLoss` and `NoStall`: `LossIsAccounted` and `NoStalledEvents` of
  `HubSpec`, whose publishers publish anything. The accounting is inductive with
  two facts: a connection has something in hand only between a drain and the end
  of its flush (`HandsFree`), and a publisher that still has connections to serve
  has an event for them (`LoopHasEvent`).
* `ImplementsHub`: `Spec => HubSpec`. Every step of the services is a step of the
  hub or leaves it alone. That the aggregates they publish are among the events of
  the hub needs a bound on the counters: counted and waiting messages are no more
  than were sent (`Bounded`). `ServicesKeepHub` carries the two results over.
* `FarmCounted`: `FarmIsCounted`. The counters follow each change of the table
  (`Tallied`). For a job nothing was lost of, some state `h` has been handled: the
  waiting state messages lead from `h` to the state in the farm, the entry of the
  table is that of `h` unless progress came first, and progress waits only while
  running is due or handled (`Agreement`). At most one handler has a report to
  publish, and it is the current one (`Published`).
* `SamplesAgree`: `SampleAgreesWithStatus`. The hardware loop publishes a status
  before its sample (`Sources`); a client without drops has been sent, or is being
  sent, the sticky status (`Clients`). Lemmas about `LastStatus` say what
  appending, draining and flushing do to it.
* `TypesHold`: `TypeOK`.

### Only model checked

The liveness properties `CancelFreesSlot`, `JobsProgress`, `LandedIsHandled`,
`EventsAreCounted` and `UploadingEnds`: fairness and `ENABLED` are out of the
prover's reach. The two properties that a run refutes have no theorem.

## Findings

* `scheduler_shutdown`: on shutdown `fail` writes on a context that is done; the
  row stays running for ever while failed was published (`scheduler.go:230`).
* `upload_retry`: the staging object is deleted before ASSEMBLED is recorded; a
  failure between them leaves a session that can never complete
  (`upload/server.go:533-538`).

### Observed

Divergences that the models exhibit and that no run of its own is spent on. The
runs check how far each of them goes, as named:

* `httpapi/jobs.go:166` and `:120`: admission counts the active jobs and queues in
  a later statement, so two retries, or a retry and a create, that are admitted
  at once exceed the cap. The repository means a hard one: "a workspace at its
  active-job cap cannot re-admit failed jobs past the cap" (orchestrator
  `README.md:85-86`, and likewise `jobs.go:164-165` and `api_test.go:402`, which
  tests one request at a time). `QuotaOvershootBound` says by how much it is
  exceeded at most.
* `scheduler.go:247`: the deferred delete works by job id, so a goroutine that
  returns late removes the cancel function of the next attempt of its job; that
  attempt runs without being cancellable and `DELETE` answers 409.
* `upload/server.go:581`: a cancel that read the session before complete finished
  overwrites COMPLETED with CANCELLED, after the console has shown the upload as
  landed, although "completed sessions cannot be cancelled" (`server.go:556`).
  `LandedIsPublished` says what a landing still means.
* `workspaces.go:335` and `:384`: two owners who demote or remove each other at
  once leave the workspace without one, although "the last owner can neither be
  demoted nor removed" (tenancy README). `LastOwnerNeedsRace` shows that nothing
  less does.
* `authflow.go:292-301`: a refresh that was let in before a logout or a detected
  reuse creates its successor after the family was revoked, and that token is
  live, although revocation is "immediate" (tenancy README). `FamilyStaysDead`
  therefore speaks of families without such a refresh.
* `aggregator.go:142`: the two handlers publish after they release the mutex, so
  the aggregate on the stream can go back and the older one can be the one that
  stays, although its counters are "monotonic" (telemetry API.md).
  `FarmIsCounted` says when the last one is right.
* `engine.ts:340` and `:372-379`: when `createUpload` fails and the user resumes,
  the upload shows as uploading without a session; nothing creates one, and it
  stays so until it is cancelled. `UploadingEnds` is about uploads that have a
  session.
* `engine.ts:373-379`: of two overlapping resumes the second reopens an upload
  that is being completed, and `finish` runs twice.
* `oidc.go:281`: an older JWKS document may replace a newer one, and the login
  that fetched the newer one is refused. `KeyIsFound` shows that this is the only
  way to miss a published key.
* The orchestrator publishes `aether.ft.jobs.progress.v1` (`natsio.go:100`);
  telemetry subscribes `aether.ft.job.state.v1` and `aether.ft.job.progress.v1`
  (`aggregator.go:21-22`). Nothing in the repository publishes the latter.

## Not modelled

Formatting, token formats, request validation, configuration, migrations, the
ffmpeg command line and progress parser, reading the hardware, and rendering:
they keep no state that another step depends on. Presets are one table with
single-statement handlers; what a preset says is a free choice where a job reads
it. The console's event streams and token refresh are the client side of `Hub`
and `Sessions`: one shared refresh promise, a reconnect loop, and reducers that
replace what they hold; they live in one tab and are rebuilt on reload. The retry
delay of the upload service is a level kept per session: each refused admission
doubles the delay up to a cap, an admission resets it, and it only shapes the
delay named in a 429. That a
cancel during the reads of `runJob` is recorded with the text of a database
error, that `job_queued` is not emitted again after a crash, and that the console
may briefly exceed its number of parallel requests are known from the models and
stated by no property.

## Plan

1. Done: `JobLifecycle`, `Scheduler`, `LandedConsumer`, `UploadSession`,
   `UploadEngine`, `Metering`, `Workspaces`, `Sessions`, `Hub`, `Telemetry`, and
   the theorems above.
2. Shorter proofs where several theorems of a module repeat a case split, and
   `TypeOK` as a theorem of the modules whose invariant states it under another
   name.
3. Where a run can be made room for: the console's reconnecting streams.
