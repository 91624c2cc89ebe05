---------------------------- MODULE UploadEngine ----------------------------
(***************************************************************************)
(* packages/console/src/upload/engine.ts: the console's upload of one      *)
(* file.  JavaScript runs one continuation at a time, so an action is the  *)
(* code from one await (or callback) to the next; what interleaves is the  *)
(* order in which requests, timers and clicks come back.                   *)
(*                                                                         *)
(* `task' is the UploadTask object.  The invocations that outlive the      *)
(* turn they began in are counted by what they still know: `mover'         *)
(* (moveChunk), `get' (getUpload in resyncFromServer), `completing'        *)
(* (finish) and `timers'.  pause replaces the AbortController, so a        *)
(* request belongs to an old controller only by having been aborted.       *)
(*                                                                         *)
(* The upload service is what the client sees of it; UploadSession.tla     *)
(* models it in detail.  Its complete and DELETE handlers read the session *)
(* and write it later, without looking again.                              *)
(***************************************************************************)
EXTENDS Integers, FiniteSets, FiniteSetsExt

CONSTANTS
    Chunks,         \* chunk indices of the file
    Streams,        \* the MAX_PARALLEL stream slots
    MaxAttempts,    \* MAX_CHUNK_ATTEMPTS
    None,           \* no chunk in a slot
    MaxClicks,      \* bound: clicks on Pause and Resume
    MaxFaults       \* bound: failed or saturated requests

ASSUME UploadEngineAssumption ==
    /\ Chunks \subseteq Nat /\ Chunks # {} /\ IsFiniteSet(Chunks)
    /\ Streams \subseteq Nat /\ Streams # {} /\ IsFiniteSet(Streams)
    /\ None \notin Nat
    /\ MaxAttempts \in Nat \ {0}
    /\ MaxClicks \in Nat /\ MaxFaults \in Nat

VARIABLES
    task,       \* the fields of UploadTask
    creating,   \* is start waiting for createUpload
    mover,      \* mover[m]: number of invocations of moveChunk at m
    get,        \* get[g]: number of invocations of resyncFromServer at g
    completing, \* completing[s]: invocations of finish whose completeUpload is at s
    timers,     \* setTimeout callbacks of pump and of enterErrorAndAutoResume
    deleting,   \* deleting[d]: the DELETE of cancel, and another client's
    landed,     \* was onLanded called
    session,    \* state of the session at the service, "absent" before create
    stored,     \* chunks the service has recorded as DONE
    published,  \* has the service published the landed event
    clicks,     \* clicks on Pause and Resume so far
    faults      \* failures so far

calls  == <<creating, mover, get, completing, timers, deleting>>
server == <<session, stored, published>>
bounds == <<clicks, faults>>
vars   == <<task, calls, landed, server, bounds>>

\* moveChunk reads and hashes, waits for its PUT (which the service may have
\* recorded), or for the rejection of an aborted one.
Moves == [pc : {"hash", "put", "recorded", "aborted"}, slot : Streams, chunk : Chunks]

\* getUpload is on its way, aborted, or answered with the DONE cells of then.
Asks == [pc : {"asked", "aborted"}, by : {"resume", "finish"}, done : {{}}]
        \cup [pc : {"read"}, by : {"resume", "finish"}, done : SUBSET Chunks]

\* completeUpload is on its way to the service; handleComplete has read the
\* session as ACTIVE, or as ASSEMBLED or has assembled it.
Stages == {"sent", "assemble", "finish"}

Tasks == [state : {"uploading", "paused", "error", "verifying", "landed", "canceled"},
          uploadId : BOOLEAN,
          chunks : [Chunks -> {"PENDING", "INFLIGHT", "DONE", "RETRY"}],
          streams : [Streams -> Chunks \cup {None}],
          attempts : [Chunks -> 0..MaxAttempts],
          parked : BOOLEAN, disposed : BOOLEAN]

TypeOK ==
    /\ task \in Tasks
    /\ creating \in BOOLEAN
    /\ deleting \in [{"console", "other"} -> {"no", "sent", "read"}]
    /\ mover \in [Moves -> Nat]
    /\ get \in [Asks -> Nat]
    /\ completing \in [Stages -> Nat] /\ landed \in BOOLEAN
    /\ timers \in [pump : BOOLEAN, resume : Nat]
    /\ session \in {"absent", "ACTIVE", "ASSEMBLED", "COMPLETED", "CANCELLED"}
    /\ stored \subseteq Chunks /\ published \in BOOLEAN
    /\ clicks \in 0..MaxClicks /\ faults \in 0..MaxFaults

NoStreams == [s \in Streams |-> None]

Init ==
    /\ task = [state |-> "uploading", uploadId |-> FALSE,
               chunks |-> [c \in Chunks |-> "PENDING"], streams |-> NoStreams,
               attempts |-> [c \in Chunks |-> 0], parked |-> FALSE, disposed |-> FALSE]
    /\ creating = TRUE
    /\ mover = [m \in Moves |-> 0]
    /\ get = [g \in Asks |-> 0]
    /\ completing = [s \in Stages |-> 0]
    /\ timers = [pump |-> FALSE, resume |-> 0]
    /\ deleting = [d \in {"console", "other"} |-> "no"]
    /\ landed = FALSE
    /\ session = "absent"
    /\ stored = {}
    /\ published = FALSE
    /\ clicks = 0
    /\ faults = 0

Works == UNCHANGED bounds
Clicked == clicks < MaxClicks /\ clicks' = clicks + 1 /\ UNCHANGED faults
Fails == faults < MaxFaults /\ faults' = faults + 1 /\ UNCHANGED clicks

-----------------------------------------------------------------------------
(***************************************************************************)
(* pump.  A chunk map exists once the session is created.                  *)
(***************************************************************************)
Claimable(t) == {c \in Chunks : t.uploadId /\ t.chunks[c] \in {"PENDING", "RETRY"}}
AllDone(t)   == t.uploadId /\ \A c \in Chunks : t.chunks[c] = "DONE"

Rank(x, S) == Cardinality({y \in S : y < x})

\* What the loop of pump pairs: the free slots in order with the claimable
\* chunks in order.
Claims(t) ==
    LET free == {s \in Streams : t.streams[s] = None}
    IN  {r \in [slot : free, chunk : Claimable(t)] :
            Rank(r.slot, free) = Rank(r.chunk, Claimable(t))}

Claimed(t, claims) ==
    [t EXCEPT !.chunks = [c \in Chunks |-> IF \E r \in claims : r.chunk = c
                                           THEN "INFLIGHT" ELSE t.chunks[c]],
              !.streams = [s \in Streams |-> IF \E r \in claims : r.slot = s
                                             THEN (CHOOSE r \in claims : r.slot = s).chunk
                                             ELSE t.streams[s]]]

\* Each pair is a new invocation of moveChunk.
Spawned(mv, claims) ==
    [m \in Moves |-> IF m.pc = "hash" /\ [slot |-> m.slot, chunk |-> m.chunk] \in claims
                     THEN mv[m] + 1 ELSE mv[m]]

Stays(t, mv, tm) == task' = t /\ mover' = mv /\ timers' = tm

\* pump called on the object t, with the movers and timers as they then are.
\* The entry of finish belongs to the same turn.  One timer stands for all
\* that are set while parked: an unparked pump with nothing new does nothing.
Pump(t, mv, tm) ==
    \/ /\ t.state # "uploading" \/ t.disposed
       /\ Stays(t, mv, tm)
       /\ UNCHANGED completing
    \/ /\ t.state = "uploading" /\ ~t.disposed /\ t.parked
       /\ Stays(t, mv, [tm EXCEPT !.pump = TRUE])
       /\ UNCHANGED completing
    \/ /\ t.state = "uploading" /\ ~t.disposed /\ ~t.parked
       /\ LET claims == Claims(t)
              next   == Claimed(t, claims)
          IN  IF next.streams = NoStreams /\ AllDone(next)
              THEN /\ Stays([next EXCEPT !.state = "verifying"], mv, tm)
                   /\ completing' = [completing EXCEPT !["sent"] = @ + 1]
              ELSE /\ Stays(next, Spawned(mv, claims), tm)
                   /\ UNCHANGED completing

\* Mutant: streams are freed but the chunks stay in flight.
RevertedStreams(t) == [t EXCEPT !.streams = NoStreams]

\* revertInflight.
Reverted(t) ==
    [t EXCEPT !.streams = NoStreams,
              !.chunks = [c \in Chunks |-> IF t.chunks[c] = "INFLIGHT" THEN "PENDING"
                                           ELSE t.chunks[c]]]

Failed(t) == [Reverted(t) EXCEPT !.state = "error"]

-----------------------------------------------------------------------------
(***************************************************************************)
(* start and moveChunk.                                                    *)
(***************************************************************************)

\* createUpload answers; an error or an incoherent answer is final.
Create ==
    /\ creating /\ creating' = FALSE
    /\ \/ /\ Works /\ session' = "ACTIVE"
          /\ Pump([task EXCEPT !.uploadId = TRUE,
                               !.chunks = [c \in Chunks |-> "PENDING"]], mover, timers)
       \/ /\ Fails
          /\ Stays(Failed(task), mover, timers)
          /\ UNCHANGED <<session, completing>>
    /\ UNCHANGED <<get, deleting, landed, stored, published>>

Ended(m)      == [mover EXCEPT ![m] = mover[m] - 1]
FreedSlot(m)  == [task EXCEPT !.streams[m.slot] = None]
Advanced(m, pc) ==
    [Ended(m) EXCEPT ![[m EXCEPT !.pc = pc]] = mover[[m EXCEPT !.pc = pc]] + 1]

\* The chunk is read and hashed and its PUT leaves with the controller of that
\* moment.  Under an aborted one nothing is sent and the rejection is ignored.
SendChunk(m) ==
    /\ m.pc = "hash" /\ mover[m] > 0
    /\ mover' = IF task.disposed THEN Ended(m) ELSE Advanced(m, "put")
    /\ UNCHANGED <<task, creating, get, completing, timers, deleting, landed, server, bounds>>

\* The service records the chunk, or finds it DONE.
RecordChunk(m) ==
    /\ m.pc = "put" /\ mover[m] > 0 /\ session = "ACTIVE"
    /\ stored' = stored \cup {m.chunk}
    /\ mover' = Advanced(m, "recorded")
    /\ UNCHANGED <<task, creating, get, completing, timers, deleting, landed, session, published, bounds>>

\* 200.
PutStored(m) ==
    /\ m.pc = "recorded" /\ mover[m] > 0
    /\ Pump([FreedSlot(m) EXCEPT !.chunks[m.chunk] = "DONE"], Ended(m), timers)
    /\ UNCHANGED <<creating, get, deleting, landed, server, bounds>>

\* Mutant: the chunk is requeued and nobody pumps.
PutSaturatedForgotten(m) ==
    LET c == m.chunk IN
    /\ m.pc = "put" /\ mover[m] > 0 /\ session = "ACTIVE"
    /\ Fails
    /\ Stays([FreedSlot(m) EXCEPT !.chunks[c] = "PENDING", !.parked = TRUE], Ended(m), timers)
    /\ UNCHANGED <<creating, get, completing, deleting, landed, server>>

\* Mutant: the 429 is taken for an answer like any other.
PutSaturatedIsOk(m) ==
    LET c == m.chunk IN
    /\ m.pc = "put" /\ mover[m] > 0 /\ session = "ACTIVE"
    /\ Fails
    /\ Pump([FreedSlot(m) EXCEPT !.chunks[c] = "DONE"], Ended(m), timers)
    /\ UNCHANGED <<creating, get, deleting, landed, server>>

\* 429: the whole engine waits for the hinted delay.
PutSaturated(m) ==
    LET c == m.chunk IN
    /\ m.pc = "put" /\ mover[m] > 0 /\ session = "ACTIVE"
    /\ Fails
    /\ Pump([FreedSlot(m) EXCEPT !.chunks[c] = "PENDING", !.parked = TRUE], Ended(m), timers)
    /\ UNCHANGED <<creating, get, deleting, landed, server>>

\* The catch of moveChunk.  It asks the controller of now, not the one its PUT
\* was sent with.
Catch(m, transport) ==
    LET c == m.chunk
        n == IF task.attempts[c] < MaxAttempts THEN task.attempts[c] + 1 ELSE MaxAttempts
        t == [FreedSlot(m) EXCEPT !.attempts[c] = n]
    IN  \/ /\ task.disposed
           /\ Stays(task, Ended(m), timers) /\ UNCHANGED completing
        \/ /\ ~task.disposed /\ n < MaxAttempts
           /\ Pump([t EXCEPT !.chunks[c] = "RETRY"], Ended(m), timers)
        \/ /\ ~task.disposed /\ n = MaxAttempts
           /\ Stays(Failed(t), Ended(m),
                    [timers EXCEPT !.resume = IF transport THEN @ + 1 ELSE @])
           /\ UNCHANGED completing

\* The file cannot be read, or no answer comes back.
PutFails(m) ==
    /\ m.pc # "aborted" /\ mover[m] > 0
    /\ Fails /\ Catch(m, TRUE)
    /\ UNCHANGED <<creating, get, deleting, landed, server>>

\* An HTTP error; 409 when the session takes no more chunks, 502 when a DELETE
\* has aborted the multipart upload under it.
PutRefused(m) ==
    /\ m.pc = "put" /\ mover[m] > 0
    /\ IF session = "ACTIVE" THEN Fails ELSE Works
    /\ Catch(m, FALSE)
    /\ UNCHANGED <<creating, get, deleting, landed, server>>

\* The rejection of an aborted PUT, which the service may record all the same.
PutAborted(m) ==
    /\ m.pc = "aborted" /\ mover[m] > 0
    /\ \/ UNCHANGED stored
       \/ session = "ACTIVE" /\ stored' = stored \cup {m.chunk}
    /\ Works /\ Catch(m, TRUE)
    /\ UNCHANGED <<creating, get, deleting, landed, session, published>>

MoveChunk(m) ==
    SendChunk(m) \/ RecordChunk(m) \/ PutStored(m) \/ PutSaturated(m) \/ PutFails(m) \/ PutRefused(m) \/ PutAborted(m)

\* The hinted delay is over.
ParkEnds ==
    /\ task.parked
    /\ task' = [task EXCEPT !.parked = FALSE]
    /\ UNCHANGED <<calls, landed, server, bounds>>

PumpTimer ==
    /\ timers.pump
    /\ Pump(task, mover, [timers EXCEPT !.pump = FALSE])
    /\ UNCHANGED <<creating, get, deleting, landed, server, bounds>>

-----------------------------------------------------------------------------
(***************************************************************************)
(* resume and resyncFromServer.                                            *)
(***************************************************************************)
AskMap(who) ==
    LET g == [pc |-> IF task.disposed THEN "aborted" ELSE "asked", by |-> who, done |-> {}]
    IN  get' = [get EXCEPT ![g] = @ + 1]

Answered(g) == [get EXCEPT ![g] = get[g] - 1]

\* Without a session there is no map to ask for.
BeginResume(tm) ==
    \/ /\ task.uploadId
       /\ AskMap("resume")
       /\ timers' = tm /\ UNCHANGED <<task, mover, completing>>
    \/ /\ ~task.uploadId
       /\ Pump([task EXCEPT !.state = "uploading"], mover, tm)
       /\ UNCHANGED get

Resume ==
    /\ ~task.disposed /\ task.state \in {"paused", "error"}
    /\ Clicked
    /\ BeginResume(timers)
    /\ UNCHANGED <<creating, deleting, landed, server>>

ResumeTimer ==
    /\ timers.resume > 0
    /\ LET tm == [timers EXCEPT !.resume = @ - 1] IN
       \/ /\ task.state = "error" /\ ~task.disposed
          /\ BeginResume(tm)
       \/ /\ task.state # "error" \/ task.disposed
          /\ timers' = tm /\ UNCHANGED <<task, mover, get, completing>>
    /\ UNCHANGED <<creating, deleting, landed, server, bounds>>

\* The service reads the session; the answer travels.
GetAnswers(g) ==
    /\ g.pc = "asked" /\ get[g] > 0
    /\ LET h == [g EXCEPT !.pc = "read", !.done = stored]
       IN  get' = [Answered(g) EXCEPT ![h] = get[h] + 1]
    /\ UNCHANGED <<task, creating, mover, completing, timers, deleting, landed, server, bounds>>

\* Only the DONE cells of the map are taken over.
Adopted(done) == [c \in Chunks |-> IF c \in done THEN "DONE" ELSE "PENDING"]

GetApplies(g) ==
    /\ g.pc = "read" /\ get[g] > 0
    /\ get' = Answered(g)
    /\ Pump([task EXCEPT !.chunks = Adopted(g.done), !.streams = NoStreams,
                         !.state = "uploading"], mover, timers)
    /\ UNCHANGED <<creating, deleting, landed, server, bounds>>

\* resume catches the error; in finish nobody does.
GetFails(g) ==
    /\ get[g] > 0 /\ get' = Answered(g)
    /\ IF g.pc = "aborted" THEN Works ELSE Fails
    /\ task' = IF g.by = "resume" THEN Failed(task) ELSE task
    /\ UNCHANGED <<creating, mover, completing, timers, deleting, landed, server>>

Resync(g) == GetAnswers(g) \/ GetApplies(g) \/ GetFails(g)

-----------------------------------------------------------------------------
(***************************************************************************)
(* finish, and handleComplete at the service.                              *)
(***************************************************************************)
CompleteGoes(from, to) ==
    /\ completing[from] > 0
    /\ completing' = [completing EXCEPT ![from] = @ - 1, ![to] = @ + 1]
    /\ UNCHANGED <<task, creating, mover, get, timers, deleting, landed, stored, published, bounds>>

CompleteReturns(from) ==
    /\ completing[from] > 0
    /\ completing' = [completing EXCEPT ![from] = @ - 1]
    /\ UNCHANGED <<creating, mover, timers, deleting, stored>>

Lands == task' = [task EXCEPT !.state = "landed"] /\ landed' = TRUE /\ UNCHANGED <<get, bounds>>

\* The session and its chunk map are read, whole.
CompleteRead ==
    /\ stored = Chunks
    /\ \/ session = "ACTIVE" /\ CompleteGoes("sent", "assemble")
       \/ session = "ASSEMBLED" /\ CompleteGoes("sent", "finish")
    /\ UNCHANGED session

\* SetSessionAssembled, whatever the session has become since.
Assembles == CompleteGoes("assemble", "finish") /\ session' = "ASSEMBLED"

\* The landed event is published and the session set to COMPLETED, whatever it
\* has become since; or the session was read as COMPLETED.
CompleteLands ==
    \/ CompleteReturns("finish") /\ published' = TRUE /\ session' = "COMPLETED" /\ Lands
    \/ session = "COMPLETED" /\ CompleteReturns("sent") /\ UNCHANGED <<session, published>> /\ Lands

\* Mutant: a conflict counts as landed.
ConflictLands ==
    /\ session = "CANCELLED" \/ (session # "COMPLETED" /\ stored # Chunks)
    /\ CompleteReturns("sent") /\ UNCHANGED <<session, published>> /\ Lands

\* 409: ask for the map.
CompleteConflicts ==
    /\ session = "CANCELLED" \/ (session # "COMPLETED" /\ stored # Chunks)
    /\ CompleteReturns("sent")
    /\ AskMap("finish")
    /\ UNCHANGED <<task, landed, session, published, bounds>>

\* Any other error, wherever the service got to.
CompleteFails(s) ==
    /\ CompleteReturns(s)
    /\ \/ UNCHANGED <<session, published>>
       \/ s = "assemble" /\ session' = "ASSEMBLED" /\ UNCHANGED published
       \/ s = "finish" /\ published' = TRUE /\ session' \in {session, "COMPLETED"}
    /\ task' = Failed(task)
    /\ Fails
    /\ UNCHANGED <<get, landed>>

Finish ==
    \/ CompleteRead \/ Assembles \/ CompleteLands \/ CompleteConflicts
    \/ \E s \in Stages : CompleteFails(s)

-----------------------------------------------------------------------------
(***************************************************************************)
(* pause, cancel and dispose; the hook forgets a cancelled or disposed     *)
(* task.  abort() reaches the requests that are on the wire.               *)
(***************************************************************************)
Abort ==
    /\ mover' = [m \in Moves |->
                    CASE m.pc = "hash"    -> mover[m]
                      [] m.pc = "aborted" -> mover[m] + mover[[m EXCEPT !.pc = "put"]]
                                                      + mover[[m EXCEPT !.pc = "recorded"]]
                      [] OTHER            -> 0]
    /\ get' = [g \in Asks |->
                  IF g.pc # "aborted" THEN 0
                  ELSE MapThenSumSet(LAMBDA h : get[h], {h \in Asks : h.by = g.by})]

Pause ==
    /\ ~task.disposed /\ task.state = "uploading"
    /\ Clicked
    /\ Abort
    /\ task' = [Reverted(task) EXCEPT !.state = "paused"]
    /\ UNCHANGED <<creating, completing, timers, deleting, landed, server>>

Cancel ==
    /\ ~task.disposed
    /\ Abort
    /\ task' = [task EXCEPT !.state = "canceled", !.disposed = TRUE]
    /\ deleting' = [deleting EXCEPT !["console"] = IF task.uploadId THEN "sent" ELSE "no"]
    /\ UNCHANGED <<creating, completing, timers, landed, server, bounds>>

Dispose ==
    /\ ~task.disposed
    /\ Abort
    /\ task' = [task EXCEPT !.disposed = TRUE]
    /\ UNCHANGED <<creating, completing, timers, deleting, landed, server, bounds>>

\* handleCancel reads the session; a completed or cancelled one stays.
Cancellable == session \in {"ACTIVE", "ASSEMBLED"}

DeleteGoes(d, pc) ==
    /\ deleting' = [deleting EXCEPT ![d] = pc]
    /\ UNCHANGED <<task, creating, mover, get, completing, timers, landed, stored, published>>

DeleteRead ==
    /\ deleting["console"] = "sent"
    /\ DeleteGoes("console", IF Cancellable THEN "read" ELSE "no")
    /\ UNCHANGED <<session, bounds>>

\* SetSessionState, whatever the session has become since.
DeleteWrites(d) ==
    /\ deleting[d] = "read"
    /\ DeleteGoes(d, "no")
    /\ session' = "CANCELLED"
    /\ UNCHANGED bounds

\* An error on the way, which cancel ignores.
DeleteFails(d) ==
    /\ deleting[d] \in {"sent", "read"}
    /\ DeleteGoes(d, "no")
    /\ Fails
    /\ UNCHANGED session

Delete == DeleteRead \/ \E d \in DOMAIN deleting : DeleteWrites(d) \/ DeleteFails(d)

\* Another client of the workspace sends a DELETE, and the session is read.
DeleteElsewhere ==
    /\ Cancellable /\ deleting["other"] = "no"
    /\ DeleteGoes("other", "read")
    /\ Fails
    /\ UNCHANGED session

\* A request is answered or a timer fires.
Returns ==
    \/ Create
    \/ \E m \in Moves : MoveChunk(m)
    \/ ParkEnds \/ PumpTimer \/ ResumeTimer
    \/ \E g \in Asks : Resync(g)
    \/ Finish
    \/ Delete

Next ==
    \/ Returns
    \/ Resume \/ Pause \/ Cancel \/ Dispose
    \/ DeleteElsewhere

Spec == Init /\ [][Next]_vars

-----------------------------------------------------------------------------
(***************************************************************************)
(* Properties.                                                             *)
(***************************************************************************)

\* A chunk the console shows as DONE is recorded by the service, whatever
\* late answers, resyncs, pauses and double resumes did to the local map
\* (moveChunk, resyncFromServer).
DoneIsStored == \A c \in Chunks : task.chunks[c] = "DONE" => c \in stored

\* Nothing waits for an upload that is not under way: a chunk in flight and an
\* occupied stream slot each have an invocation of moveChunk that will free
\* them, although invocations of before a pause free slots that are no longer
\* theirs (pump, moveChunk, revertInflight).
InflightIsMoved ==
    ~task.disposed =>
        /\ \A c \in Chunks : task.chunks[c] = "INFLIGHT"
             => \E m \in Moves : mover[m] > 0 /\ m.chunk = c
        /\ \A s \in Streams : task.streams[s] # None
             => \E m \in Moves : mover[m] > 0 /\ m.slot = s /\ m.chunk = task.streams[s]

\* The console calls an upload landed only when the service has every chunk,
\* has published the landed event and takes no more chunks, whatever DELETEs
\* and other completes did to the session between handleComplete's read and
\* its writes (finish, handleComplete).
LandedIsPublished ==
    landed => /\ published /\ stored = Chunks
              /\ session \in {"ASSEMBLED", "COMPLETED", "CANCELLED"}

(***************************************************************************)
(* As long as a request or a timer is outstanding, one comes back.  Nobody *)
(* has to click.                                                           *)
(***************************************************************************)
FairSpec == Spec /\ WF_vars(Returns)

\* An upload that has its session does not hang while it shows as uploading:
\* it lands, or stops in a state the user sees and can leave (pump as the only
\* motor of the engine).
UploadingEnds ==
    (task.uploadId /\ task.state = "uploading")
      ~> (task.state \in {"landed", "error", "paused", "canceled"}
          \/ task.disposed \/ session = "CANCELLED")

=============================================================================
