--------------------------- MODULE LandedConsumer ---------------------------
(***************************************************************************)
(* internal/consumer of the orchestrator: the durable JetStream consumer   *)
(* of landed-object events and the jobs it creates by itself.              *)
(*                                                                         *)
(* The stream delivers a message until it is settled or MaxDeliver is      *)
(* reached, and delivers it again when it is refused or when AckWait runs  *)
(* out, even while handle still works on it.  One process consumes and     *)
(* calls handle for one delivery at a time.  The jobs otherwise live as    *)
(* JobLifecycle says: the scheduler and the users move them meanwhile.     *)
(* One workspace is modelled, with at most its default preset.             *)
(***************************************************************************)
EXTENDS Integers, FiniteSets

CONSTANTS
    Messages,       \* landed events on the stream
    Sources,        \* landed objects
    About,          \* About[m]: the object a message is about; the uploader may
                    \* publish an object more than once
    Rejected,       \* messages that do not parse or whose object ffprobe
                    \* refuses as an asset
    Jobs,           \* job ids
    UserJobs,       \* those used for jobs that users insert
    None,           \* no message
    AutoCreateJobs, \* ORCH_AUTOCREATE_JOBS
    MaxDeliver,     \* of the durable consumer
    MaxFaults,      \* bound: failed calls, lost answers, ack timeouts, crashes
    MaxJobFailures  \* bound: how often jobs fail; an insert needs a new id only
                    \* when all jobs of the object have failed

ASSUME LandedAssumption ==
    /\ IsFiniteSet(Messages)
    /\ About \in [Messages -> Sources]
    /\ Rejected \subseteq Messages
    /\ None \notin Messages \cup Sources \cup Jobs
    /\ UserJobs \subseteq Jobs
    /\ AutoCreateJobs \in BOOLEAN
    /\ MaxDeliver \in Nat \ {0}
    /\ MaxFaults \in Nat /\ MaxJobFailures \in Nat
    /\ IsFiniteSet(Jobs) /\ Cardinality(Jobs \ UserJobs) > MaxJobFailures

VARIABLES
    settled,    \* settled[m]: what the stream was told for good: "acked",
                \* "skipped" (acked without a preset), "termed", or "open"
    due,        \* due[m]: is the stream about to deliver it
    delivered,  \* delivered[m]: number of deliveries
    buffer,     \* buffer[m]: deliveries the process has not begun to handle
    handling,   \* the message in handle, or None
    pc,         \* where handle is
    made,       \* the job it has just created, or None
    probed,     \* sources persisted with their media info
    preset,     \* does the workspace have a default preset
    state,      \* state[j]: state of the job row
    source,     \* source[j]: its source, None when there is no row
    auto,       \* jobs made by autoCreateJob that no user has retried
    metered,    \* jobs whose job_queued was emitted by autoCreateJob
    faults,     \* failures so far
    failures    \* job failures so far

stream  == <<settled, due, delivered>>
process == <<buffer, handling, pc, made>>
jobs    == <<state, source, auto, failures>>
vars    == <<stream, process, probed, preset, jobs, metered, faults>>

Lifecycle == INSTANCE JobLifecycle

TypeOK ==
    /\ settled \in [Messages -> {"open", "acked", "skipped", "termed"}]
    /\ due \in [Messages -> BOOLEAN]
    /\ delivered \in [Messages -> 0..MaxDeliver]
    /\ buffer \in [Messages -> Nat]
    /\ handling \in Messages \cup {None}
    /\ pc \in {"idle", "fetch", "upsert", "preset", "guard", "create", "announce", "ack", "skip"}
    /\ (pc = "idle") = (handling = None)
    /\ made \in Jobs \cup {None} /\ (made = None) = (pc # "announce")
    /\ probed \subseteq Sources
    /\ preset \in BOOLEAN
    /\ state \in [Jobs -> Lifecycle!States \cup {"absent"}]
    /\ source \in [Jobs -> Sources \cup {None}]
    /\ \A j \in Jobs : (state[j] = "absent") = (source[j] = None)
    /\ auto \subseteq Jobs /\ metered \subseteq Jobs
    /\ faults \in Nat /\ failures \in Nat

Init ==
    /\ settled = [m \in Messages |-> "open"]
    /\ due = [m \in Messages |-> TRUE]
    /\ delivered = [m \in Messages |-> 0]
    /\ buffer = [m \in Messages |-> 0]
    /\ handling = None
    /\ pc = "idle"
    /\ made = None
    /\ probed = {}
    /\ preset \in BOOLEAN
    /\ state = [j \in Jobs |-> "absent"]
    /\ source = [j \in Jobs |-> None]
    /\ auto = {}
    /\ metered = {}
    /\ faults = 0
    /\ failures = 0

Works == UNCHANGED faults
Fails == faults < MaxFaults /\ faults' = faults + 1

-----------------------------------------------------------------------------
(***************************************************************************)
(* The stream, as far as the consumer sees it.                             *)
(***************************************************************************)
Deliver(m) ==
    /\ settled[m] = "open" /\ due[m] /\ delivered[m] < MaxDeliver
    /\ due' = [due EXCEPT ![m] = FALSE]
    /\ delivered' = [delivered EXCEPT ![m] = @ + 1]
    /\ buffer' = [buffer EXCEPT ![m] = @ + 1]
    /\ UNCHANGED <<settled, handling, pc, made, probed, preset, jobs, metered, faults>>

\* AckWait runs out.  It is a failure of its own while the process works on
\* the message, and what brings a message back that nobody holds any more.
AckTimeout(m) ==
    /\ settled[m] = "open" /\ ~due[m]
    /\ due' = [due EXCEPT ![m] = TRUE]
    /\ IF buffer[m] > 0 \/ handling = m THEN Fails ELSE Works
    /\ UNCHANGED <<settled, delivered, process, probed, preset, jobs, metered>>

-----------------------------------------------------------------------------
(***************************************************************************)
(* handle and autoCreateJob.                                               *)
(***************************************************************************)
Begin(m) ==
    /\ handling = None /\ buffer[m] > 0
    /\ handling' = m /\ pc' = "fetch"
    /\ buffer' = [buffer EXCEPT ![m] = @ - 1]
    /\ UNCHANGED <<stream, made, probed, preset, jobs, metered, faults>>

Goto(step) == pc' = step /\ UNCHANGED <<handling, stream>>
Return     == handling' = None /\ pc' = "idle"

\* What handle tells the stream counts while the message is open.
Settle(how) ==
    /\ Return
    /\ settled' = [settled EXCEPT ![handling] = IF @ = "open" THEN how ELSE @]
    /\ UNCHANGED <<due, delivered>>

\* NakWithDelay: deliver again, after a delay.
Nak ==
    /\ Return
    /\ due' = [due EXCEPT ![handling] = TRUE]
    /\ UNCHANGED <<settled, delivered>>

\* Mutant: every failure to get at the media is final.
FetchAndProbeGivesUp ==
    /\ pc = "fetch"
    /\ \/ handling \notin Rejected /\ Works /\ Goto("upsert")
       \/ handling \in Rejected /\ Works /\ Settle("termed")
       \/ Fails /\ Settle("termed")
    /\ UNCHANGED <<buffer, made, probed, preset, jobs, metered>>

\* Parse, Exists, the scratch directory, Download and Probe: nothing shared
\* changes.  An object that is not visible yet is a failure too.
FetchAndProbe ==
    /\ pc = "fetch"
    /\ \/ handling \notin Rejected /\ Works /\ Goto("upsert")
       \/ handling \in Rejected /\ Works /\ Settle("termed")
       \/ Fails /\ Nak
    /\ UNCHANGED <<buffer, made, probed, preset, jobs, metered>>

UpsertSource ==
    LET persisted == probed \cup {About[handling]} IN
    /\ pc = "upsert"
    /\ \/ Works /\ probed' = persisted /\ Goto(IF AutoCreateJobs THEN "preset" ELSE "ack")
       \/ Fails /\ probed' \in {probed, persisted} /\ Nak
    /\ UNCHANGED <<buffer, made, preset, jobs, metered>>

DefaultPreset ==
    /\ pc = "preset"
    /\ \/ Works /\ Goto(IF preset THEN "guard" ELSE "skip")
       \/ Fails /\ Nak
    /\ UNCHANGED <<buffer, made, probed, preset, jobs, metered>>

\* Mutant: a completed job does not count.
UnfinishedJobForSource(s) ==
    \E j \in Jobs : source[j] = s /\ state[j] \in {"queued", "running"}

HasActiveJobForSource(s) == \E j \in Jobs : source[j] = s /\ state[j] # "failed"

GuardDuplicate ==
    /\ pc = "guard"
    /\ \/ Works /\ Goto(IF HasActiveJobForSource(About[handling]) THEN "ack" ELSE "create")
       \/ Fails /\ Nak
    /\ UNCHANGED <<buffer, made, probed, preset, jobs, metered>>

InsertJob(j, s) ==
    /\ state[j] = "absent"
    /\ state' = [state EXCEPT ![j] = "queued"]
    /\ source' = [source EXCEPT ![j] = s]
    /\ UNCHANGED failures

\* Mutant: the answer is true whether or not the job could be created.
CreateJobBestEffort ==
    /\ pc = "create"
    /\ \/ \E j \in Jobs \ UserJobs :
            /\ InsertJob(j, About[handling])
            /\ auto' = auto \cup {j} /\ made' = j
            /\ Works /\ Goto("announce")
       \/ UNCHANGED <<jobs, made>> /\ Fails /\ Goto("ack")
    /\ UNCHANGED <<buffer, probed, preset, metered>>

\* An error may hide a committed INSERT.
CreateJob ==
    /\ pc = "create"
    /\ \/ \E j \in Jobs \ UserJobs :
            /\ InsertJob(j, About[handling])
            /\ auto' = auto \cup {j}
            /\ \/ Works /\ Goto("announce") /\ made' = j
               \/ Fails /\ Nak /\ UNCHANGED made
       \/ UNCHANGED <<jobs, made>> /\ Fails /\ Nak
    /\ UNCHANGED <<buffer, probed, preset, metered>>

\* The events and Wake; errors are only logged.
Announce ==
    /\ pc = "announce"
    /\ metered' \in {metered, metered \cup {made}}
    /\ made' = None
    /\ Goto("ack")
    /\ UNCHANGED <<buffer, probed, preset, jobs, faults>>

\* The ack is sent without an answer; a lost one leaves the message open.
Ack ==
    /\ pc \in {"ack", "skip"}
    /\ \/ Works /\ Settle(IF pc = "ack" THEN "acked" ELSE "skipped")
       \/ Fails /\ Return /\ UNCHANGED stream
    /\ UNCHANGED <<buffer, made, probed, preset, jobs, metered>>

HandleStep ==
    \/ \E m \in Messages : Begin(m)
    \/ FetchAndProbe \/ UpsertSource \/ DefaultPreset \/ GuardDuplicate
    \/ CreateJob \/ Announce \/ Ack

Crash ==
    /\ Fails
    /\ Return
    /\ made' = None
    /\ buffer' = [m \in Messages |-> 0]
    /\ UNCHANGED <<stream, probed, preset, jobs, metered>>

-----------------------------------------------------------------------------
(***************************************************************************)
(* The rest of the orchestrator.                                           *)
(***************************************************************************)
CreatePreset ==
    /\ ~preset /\ preset' = TRUE
    /\ UNCHANGED <<stream, process, probed, jobs, metered, faults>>

\* createJob of the API, which needs a probed source.
UserCreates(j, s) ==
    /\ s \in probed /\ preset
    /\ InsertJob(j, s)
    /\ UNCHANGED <<stream, process, probed, preset, auto, metered, faults>>

\* The scheduler runs a job, or a user cancels or retries it.
JobMoves(j) ==
    /\ \E to \in Lifecycle!States : Lifecycle!Transition(j, to)
    /\ \/ state'[j] # "failed" /\ UNCHANGED failures
       \/ state'[j] = "failed" /\ failures < MaxJobFailures /\ failures' = failures + 1
    /\ auto' = IF Lifecycle!CanRetry(state[j]) THEN auto \ {j} ELSE auto
    /\ UNCHANGED <<stream, process, probed, preset, source, metered, faults>>

Next ==
    \/ \E m \in Messages : Deliver(m) \/ AckTimeout(m)
    \/ HandleStep
    \/ Crash
    \/ CreatePreset
    \/ \E j \in Jobs : JobMoves(j)
    \/ \E j \in UserJobs, s \in Sources : UserCreates(j, s)

Spec == Init /\ [][Next]_vars

-----------------------------------------------------------------------------
(***************************************************************************)
(* Properties.                                                             *)
(***************************************************************************)

\* An object that is announced twice, delivered again or caught by a crash
\* between the INSERT and the ack gets one job by itself: two jobs that
\* autoCreateJob made for it are never both alive, unless a user retried one
\* (the guard of autoCreateJob).
NoDuplicateJobs ==
    \A j, k \in auto :
        /\ source[j] = source[k]
        /\ state[j] # "failed"
        /\ state[k] # "failed"
        => j = k

\* A message that was acked has done its work: the object is probed and, when
\* the workspace had a preset to run, there is a job for it (handle).
AckedIsDone ==
    \A m \in Messages :
        /\ settled[m] \in {"acked", "skipped"} => About[m] \in probed
        /\ settled[m] = "acked" /\ AutoCreateJobs
             => \E j \in Jobs : source[j] = About[m]

(***************************************************************************)
(* The stream delivers what is due, AckWait runs out, and the callback is  *)
(* scheduled; nobody has to crash, to create a preset or to touch a job.   *)
(***************************************************************************)
Fairness ==
    /\ \A m \in Messages : WF_vars(Deliver(m)) /\ WF_vars(AckTimeout(m))
    /\ WF_vars(HandleStep)

FairSpec == Spec /\ Fairness

\* A landed object that can be read is probed in the end and its message is
\* acked, as long as there are fewer failures than deliveries (the choice of
\* Nak, Term and Ack in handle; MaxDeliver).
LandedIsHandled ==
    \A m \in Messages \ Rejected : <>(settled[m] \in {"acked", "skipped"})

=============================================================================
