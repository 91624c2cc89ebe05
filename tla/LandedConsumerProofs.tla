------------------------ MODULE LandedConsumerProofs ------------------------
(***************************************************************************)
(* autoCreateJob makes one job per object and an ack follows the work, for *)
(* any messages, jobs, deliveries, failures and crashes.                   *)
(*                                                                         *)
(* Neither is inductive.  NoDuplicateJobs rests on what the guard saw      *)
(* still being true at the INSERT (GuardHolds): users and the scheduler    *)
(* move jobs in between, but only a retry revives one, and a retried job   *)
(* is the user's.  AckedIsDone rests on what handle did on the way to the  *)
(* ack (WorkDone).                                                         *)
(***************************************************************************)
EXTENDS LandedConsumer, TLAPS

\* Between the guard and the INSERT no job made for the object is alive.
GuardHolds ==
    pc = "create" => \A j \in auto : source[j] = About[handling] => state[j] = "failed"

\* Where handle is says what it has done for its message.
WorkDone ==
    /\ pc \in {"preset", "guard", "create", "announce", "ack", "skip"} => About[handling] \in probed
    /\ pc = "announce" \/ (pc = "ack" /\ AutoCreateJobs) => \E j \in Jobs : source[j] = About[handling]

\* The ids of users' jobs are not handed out twice.
AutoIsOwn == auto \subseteq Jobs \ UserJobs

Inv == TypeOK /\ AutoIsOwn /\ GuardHolds /\ WorkDone /\ NoDuplicateJobs /\ AckedIsDone

-----------------------------------------------------------------------------

\* A step of the stream or of handle that leaves the jobs alone, moves handle
\* to a place it may be in, and settles at most what is done.
LEMMA JobsAlone ==
    ASSUME LandedAssumption, Inv, TypeOK', UNCHANGED <<state, source, auto>>, probed \subseteq probed',
           GuardHolds', WorkDone',
           \A m \in Messages : settled'[m] # settled[m] =>
               /\ m = handling
               /\ settled'[m] \in {"acked", "skipped"} => About[m] \in probed
               /\ settled'[m] = "acked" /\ AutoCreateJobs => \E j \in Jobs : source[j] = About[m]
    PROVE  Inv'
<1>1. NoDuplicateJobs'
  BY DEF Inv, NoDuplicateJobs
<1>2. AckedIsDone'
  <2> SUFFICES ASSUME NEW m \in Messages
               PROVE  /\ settled'[m] \in {"acked", "skipped"} => About[m] \in probed'
                      /\ settled'[m] = "acked" /\ AutoCreateJobs => \E j \in Jobs : source[j] = About[m]
    BY DEF AckedIsDone
  <2> QED BY DEF Inv, AckedIsDone
<1> QED BY <1>1, <1>2 DEF Inv, AutoIsOwn

\* Updating a function within its type.
LEMMA Updated ==
    ASSUME NEW S, NEW T, NEW f \in [S -> T], NEW x \in S, NEW v \in T
    PROVE  [f EXCEPT ![x] = v] \in [S -> T]
OBVIOUS

\* due is a function to BOOLEAN, and stays one.
LEMMA DueTyped ==
    ASSUME Inv, NEW m \in Messages
    PROVE  /\ due' = [due EXCEPT ![m] = TRUE] => due' \in [Messages -> BOOLEAN]
           /\ due' = [due EXCEPT ![m] = FALSE] => due' \in [Messages -> BOOLEAN]
           /\ due' = due => due' \in [Messages -> BOOLEAN]
<1>1. due \in [Messages -> BOOLEAN] /\ TRUE \in BOOLEAN /\ FALSE \in BOOLEAN
  BY DEF Inv, TypeOK
<1>2. /\ [due EXCEPT ![m] = TRUE] \in [Messages -> BOOLEAN]
      /\ [due EXCEPT ![m] = FALSE] \in [Messages -> BOOLEAN]
  BY <1>1, Updated
<1> QED BY <1>1, <1>2, Zenon

-----------------------------------------------------------------------------
(* The stream, and handle up to the guard.                                 *)

LEMMA StreamSteps ==
    ASSUME LandedAssumption, Inv, NEW m \in Messages, Deliver(m) \/ AckTimeout(m)
    PROVE  Inv'
<1>1. TypeOK'
  <2>1. due' \in [Messages -> BOOLEAN]
    BY DueTyped DEF Deliver, AckTimeout
  <2> QED BY <2>1 DEF LandedAssumption, Inv, TypeOK, Deliver, AckTimeout, Fails, Works, process, jobs
<1>2. GuardHolds' /\ WorkDone'
  BY DEF Inv, GuardHolds, WorkDone, Deliver, AckTimeout, process, jobs
<1>3. UNCHANGED <<state, source, auto, probed, settled>>
  BY DEF Deliver, AckTimeout, jobs
<1> QED BY <1>1, <1>2, <1>3, JobsAlone

LEMMA BeginStep ==
    ASSUME LandedAssumption, Inv, NEW m \in Messages, Begin(m)
    PROVE  Inv'
<1>1. TypeOK'
  BY DEF LandedAssumption, Inv, TypeOK, Begin, stream, jobs
<1>2. GuardHolds' /\ WorkDone' /\ UNCHANGED <<state, source, auto, probed, settled>>
  BY DEF GuardHolds, WorkDone, Begin, stream, jobs
<1> QED BY <1>1, <1>2, JobsAlone

\* handle returns, or goes on to a step whose facts hold.
LEMMA FetchStep ==
    ASSUME LandedAssumption, Inv, FetchAndProbe
    PROVE  Inv'
<1>0. handling \in Messages /\ made = None
  BY DEF LandedAssumption, Inv, TypeOK, FetchAndProbe
<1>1. TypeOK'
  <2>1. due' \in [Messages -> BOOLEAN]
    BY <1>0, DueTyped DEF FetchAndProbe, Goto, Settle, Nak, stream
  <2> QED BY <1>0, <2>1 DEF LandedAssumption, Inv, TypeOK, FetchAndProbe, Works, Fails, Goto, Settle, Nak, Return, stream, jobs
<1>2. GuardHolds' /\ WorkDone' /\ UNCHANGED <<state, source, auto, probed>>
  BY DEF GuardHolds, WorkDone, FetchAndProbe, Goto, Settle, Nak, Return, jobs
<1>3. \A m \in Messages : settled'[m] # settled[m] => m = handling /\ settled'[m] = "termed"
  BY <1>0 DEF Inv, TypeOK, FetchAndProbe, Goto, Settle, Nak, stream
<1> QED BY <1>1, <1>2, <1>3, JobsAlone

LEMMA UpsertStep ==
    ASSUME LandedAssumption, Inv, UpsertSource
    PROVE  Inv'
<1>0. handling \in Messages /\ made = None /\ About[handling] \in Sources
  BY DEF LandedAssumption, Inv, TypeOK, UpsertSource
<1>1. TypeOK'
  <2>1. due' \in [Messages -> BOOLEAN]
    BY <1>0, DueTyped DEF UpsertSource, Goto, Nak, stream
  <2> QED BY <1>0, <2>1 DEF LandedAssumption, Inv, TypeOK, UpsertSource, Works, Fails, Goto, Nak, Return, stream, jobs
<1>2. GuardHolds' /\ WorkDone' /\ probed \subseteq probed' /\ UNCHANGED <<state, source, auto, settled>>
  BY <1>0 DEF LandedAssumption, GuardHolds, WorkDone, UpsertSource, Goto, Nak, Return, stream, jobs
<1> QED BY <1>1, <1>2, JobsAlone

LEMMA PresetStep ==
    ASSUME LandedAssumption, Inv, DefaultPreset
    PROVE  Inv'
<1>0. handling \in Messages /\ made = None
  BY DEF LandedAssumption, Inv, TypeOK, DefaultPreset
<1>1. TypeOK'
  <2>1. due' \in [Messages -> BOOLEAN]
    BY <1>0, DueTyped DEF DefaultPreset, Goto, Nak, stream
  <2> QED BY <1>0, <2>1 DEF LandedAssumption, Inv, TypeOK, DefaultPreset, Works, Fails, Goto, Nak, Return, stream, jobs
<1>2. GuardHolds' /\ WorkDone' /\ UNCHANGED <<state, source, auto, settled, probed>>
  BY <1>0 DEF Inv, GuardHolds, WorkDone, DefaultPreset, Goto, Nak, Return, stream, jobs
<1> QED BY <1>1, <1>2, JobsAlone

\* The guard establishes GuardHolds, or finds the job that WorkDone asks for.
LEMMA GuardStep ==
    ASSUME LandedAssumption, Inv, GuardDuplicate
    PROVE  Inv'
<1>0. handling \in Messages /\ made = None /\ auto \subseteq Jobs
  BY DEF LandedAssumption, Inv, TypeOK, GuardDuplicate
<1>1. TypeOK'
  <2>1. due' \in [Messages -> BOOLEAN]
    BY <1>0, DueTyped DEF GuardDuplicate, Goto, Nak, stream
  <2> QED BY <1>0, <2>1 DEF LandedAssumption, Inv, TypeOK, GuardDuplicate, Works, Fails, Goto, Nak, Return, stream, jobs
<1>2. UNCHANGED <<state, source, auto, settled, probed>>
  BY DEF GuardDuplicate, Goto, Nak, stream, jobs
<1>3. GuardHolds' /\ WorkDone'
  BY <1>0, <1>2 DEF Inv, GuardHolds, WorkDone, GuardDuplicate, HasActiveJobForSource, Goto, Nak, Return
<1> QED BY <1>1, <1>2, <1>3, JobsAlone

-----------------------------------------------------------------------------
(* The INSERT and what follows it.                                         *)

\* A row is added; its id is new.
LEMMA Inserted ==
    ASSUME LandedAssumption, Inv, NEW j \in Jobs, NEW s \in Sources, InsertJob(j, s)
    PROVE  /\ j \notin auto \/ source[j] = None
           /\ state' \in [Jobs -> Lifecycle!States \cup {"absent"}]
           /\ source' \in [Jobs -> Sources \cup {None}]
           /\ \A k \in Jobs : (state'[k] = "absent") = (source'[k] = None)
           /\ source[j] = None /\ source'[j] = s /\ state'[j] = "queued"
           /\ \A k \in Jobs \ {j} : source'[k] = source[k] /\ state'[k] = state[k]
           /\ \A t \in Sources : (\E k \in Jobs : source[k] = t) => \E k \in Jobs : source'[k] = t
BY DEF LandedAssumption, Inv, TypeOK, InsertJob, Lifecycle!States

LEMMA CreateStep ==
    ASSUME LandedAssumption, Inv, CreateJob
    PROVE  Inv'
<1>0. /\ handling \in Messages /\ made = None /\ About[handling] \in Sources
      /\ auto \subseteq Jobs /\ UserJobs \subseteq Jobs /\ None \notin Jobs \cup Sources
      /\ About \in [Messages -> Sources]
  BY DEF LandedAssumption, Inv, TypeOK, CreateJob
<1>1. CASE UNCHANGED <<jobs, made>> /\ Fails /\ Nak /\ UNCHANGED <<buffer, probed, preset, metered>>
  <2>1. TypeOK'
    BY <1>0, <1>1 DEF LandedAssumption, Inv, TypeOK, CreateJob, Fails, Nak, Return, jobs
  <2>2. GuardHolds' /\ WorkDone' /\ UNCHANGED <<state, source, auto, settled, probed>>
    BY <1>1 DEF GuardHolds, WorkDone, Nak, Return, jobs
  <2> QED BY <2>1, <2>2, JobsAlone
<1>2. ASSUME NEW j \in Jobs \ UserJobs, InsertJob(j, About[handling]), auto' = auto \cup {j},
             \/ Works /\ Goto("announce") /\ made' = j
             \/ Fails /\ Nak /\ UNCHANGED made,
             UNCHANGED <<buffer, probed, preset, metered>>, pc = "create"
      PROVE  Inv'
  <2>1. /\ state' \in [Jobs -> Lifecycle!States \cup {"absent"}]
        /\ source' \in [Jobs -> Sources \cup {None}]
        /\ \A k \in Jobs : (state'[k] = "absent") = (source'[k] = None)
        /\ source[j] = None /\ source'[j] = About[handling] /\ state'[j] = "queued"
        /\ \A k \in Jobs \ {j} : source'[k] = source[k] /\ state'[k] = state[k]
        /\ \A t \in Sources : (\E k \in Jobs : source[k] = t) => \E k \in Jobs : source'[k] = t
    BY <1>0, <1>2, Inserted
  <2>2. settled' = settled /\ failures' = failures
    BY <1>2 DEF Goto, Nak, InsertJob, stream
  <2>3. TypeOK'
    <3>1. settled' \in [Messages -> {"open", "acked", "skipped", "termed"}] /\ probed' \subseteq Sources
          /\ delivered' \in [Messages -> 0..MaxDeliver]
          /\ faults' \in Nat /\ failures' \in Nat
      BY <1>0, <1>2, <2>2 DEF LandedAssumption, Inv, TypeOK, Works, Fails, Goto, Nak, stream
    <3>2. /\ handling' \in Messages \cup {None} /\ pc' \in {"idle", "announce"}
          /\ (pc' = "idle") = (handling' = None)
          /\ made' \in Jobs \cup {None} /\ (made' = None) = (pc' # "announce")
      BY <1>0, <1>2 DEF LandedAssumption, Goto, Nak, Return
    <3>3. auto' \subseteq Jobs /\ UNCHANGED <<buffer, preset, metered>>
      BY <1>0, <1>2
    <3>4. due' \in [Messages -> BOOLEAN]
      BY <1>0, <1>2, DueTyped DEF Goto, Nak, stream
    <3> QED BY <2>1, <3>1, <3>2, <3>3, <3>4 DEF Inv, TypeOK
  <2>4. GuardHolds' /\ WorkDone'
    BY <1>0, <1>2, <2>1 DEF Inv, GuardHolds, WorkDone, Goto, Nak, Return
  <2>5. NoDuplicateJobs'
    BY <1>0, <1>2, <2>1 DEF Inv, GuardHolds, NoDuplicateJobs
  <2>6. AckedIsDone'
    BY <1>0, <1>2, <2>1, <2>2 DEF Inv, AckedIsDone
  <2>7. AutoIsOwn'
    BY <1>2 DEF Inv, AutoIsOwn
  <2> QED BY <2>3, <2>4, <2>5, <2>6, <2>7 DEF Inv
<1> QED BY <1>1, <1>2 DEF CreateJob

LEMMA AnnounceStep ==
    ASSUME LandedAssumption, Inv, Announce
    PROVE  Inv'
<1>0. handling \in Messages /\ made \in Jobs
  BY DEF LandedAssumption, Inv, TypeOK, Announce
<1>1. TypeOK'
  BY <1>0 DEF LandedAssumption, Inv, TypeOK, Announce, Goto, stream, jobs
<1>2. GuardHolds' /\ WorkDone' /\ UNCHANGED <<state, source, auto, settled, probed>>
  BY DEF Inv, GuardHolds, WorkDone, Announce, Goto, stream, jobs
<1> QED BY <1>1, <1>2, JobsAlone

LEMMA AckStep ==
    ASSUME LandedAssumption, Inv, Ack
    PROVE  Inv'
<1>0. handling \in Messages /\ made = None
  BY DEF LandedAssumption, Inv, TypeOK, Ack
<1>1. TypeOK'
  BY <1>0 DEF LandedAssumption, Inv, TypeOK, Ack, Works, Fails, Settle, Return, stream, jobs
<1>2. GuardHolds' /\ WorkDone' /\ UNCHANGED <<state, source, auto, probed>>
  BY DEF GuardHolds, WorkDone, Ack, Settle, Return, jobs
<1>3. \A m \in Messages : settled'[m] # settled[m] =>
          m = handling /\ settled'[m] = IF pc = "ack" THEN "acked" ELSE "skipped"
  BY <1>0 DEF Inv, TypeOK, Ack, Settle, stream
<1>4. About[handling] \in probed /\ (pc = "ack" /\ AutoCreateJobs => \E j \in Jobs : source[j] = About[handling])
  BY DEF Inv, WorkDone, Ack
<1> QED BY <1>1, <1>2, <1>3, <1>4, JobsAlone

LEMMA CrashStep ==
    ASSUME LandedAssumption, Inv, Crash
    PROVE  Inv'
<1>1. TypeOK'
  BY DEF LandedAssumption, Inv, TypeOK, Crash, Fails, Return, stream, jobs
<1>2. GuardHolds' /\ WorkDone' /\ UNCHANGED <<state, source, auto, settled, probed>>
  BY DEF GuardHolds, WorkDone, Crash, Return, stream, jobs
<1> QED BY <1>1, <1>2, JobsAlone

-----------------------------------------------------------------------------
(* The rest of the orchestrator.                                           *)

LEMMA PresetCreated ==
    ASSUME LandedAssumption, Inv, CreatePreset
    PROVE  Inv'
<1>1. TypeOK' /\ GuardHolds' /\ WorkDone' /\ UNCHANGED <<state, source, auto, settled, probed>>
  BY DEF Inv, TypeOK, GuardHolds, WorkDone, CreatePreset, stream, process, jobs
<1> QED BY <1>1, JobsAlone

\* A user's job is never one of auto: its id is new.
LEMMA UserStep ==
    ASSUME LandedAssumption, Inv, NEW j \in UserJobs, NEW s \in Sources, UserCreates(j, s)
    PROVE  Inv'
<1>0. j \in Jobs /\ auto \subseteq Jobs /\ About \in [Messages -> Sources] /\ None \notin Sources
  BY DEF LandedAssumption, Inv, TypeOK
<1>1. UNCHANGED <<stream, process, probed, preset, auto, metered, faults, failures>> /\ InsertJob(j, s)
  BY DEF UserCreates, InsertJob
<1>2. /\ state' \in [Jobs -> Lifecycle!States \cup {"absent"}]
      /\ source' \in [Jobs -> Sources \cup {None}]
      /\ \A k \in Jobs : (state'[k] = "absent") = (source'[k] = None)
      /\ source[j] = None /\ source'[j] = s /\ state'[j] = "queued"
      /\ \A k \in Jobs \ {j} : source'[k] = source[k] /\ state'[k] = state[k]
      /\ \A t \in Sources : (\E k \in Jobs : source[k] = t) => \E k \in Jobs : source'[k] = t
  BY <1>0, <1>1, Inserted
<1>3. TypeOK'
  BY <1>1, <1>2 DEF Inv, TypeOK, stream, process
<1>4. ASSUME NEW k \in auto
      PROVE  \/ source'[k] = source[k] /\ state'[k] = state[k]
             \/ k = j
  BY <1>0, <1>2
<1>5. j \notin auto
  BY DEF Inv, AutoIsOwn
<1>6. GuardHolds' /\ WorkDone'
  BY <1>0, <1>1, <1>2, <1>4, <1>5 DEF Inv, TypeOK, GuardHolds, WorkDone, process
<1>7. NoDuplicateJobs'
  BY <1>1, <1>4, <1>5 DEF Inv, NoDuplicateJobs
<1>8. AckedIsDone'
  BY <1>0, <1>1, <1>2 DEF Inv, AckedIsDone, stream
<1>9. AutoIsOwn'
  BY <1>1 DEF Inv, AutoIsOwn
<1> QED BY <1>3, <1>6, <1>7, <1>8, <1>9 DEF Inv

\* Only a retry brings a failed job back, and then it is the user's.
LEMMA MoveStep ==
    ASSUME LandedAssumption, Inv, NEW j \in Jobs, JobMoves(j)
    PROVE  Inv'
<1>1. PICK to \in Lifecycle!States : Lifecycle!Transition(j, to)
  BY DEF JobMoves
<1>2. /\ UNCHANGED <<stream, process, probed, preset, source, metered, faults>>
      /\ failures' \in Nat /\ auto' \subseteq auto /\ (state[j] = "failed" => j \notin auto')
  BY DEF Inv, TypeOK, JobMoves, Lifecycle!CanRetry
<1>3. /\ state' = [state EXCEPT ![j] = to] /\ state[j] # "absent" /\ to # "absent"
      /\ state \in [Jobs -> Lifecycle!States \cup {"absent"}]
  BY <1>1 DEF Inv, TypeOK, Lifecycle!Transition, Lifecycle!CanTransition, Lifecycle!States
<1>4. /\ state' \in [Jobs -> Lifecycle!States \cup {"absent"}]
      /\ \A k \in Jobs : (state'[k] = "absent") = (state[k] = "absent")
      /\ \A k \in Jobs \ {j} : state'[k] = state[k]
  BY <1>3
<1>5. TypeOK'
  BY <1>2, <1>4 DEF Inv, TypeOK, stream, process
<1>6. ASSUME NEW k \in auto'
      PROVE  k \in auto /\ (state[k] = "failed" => state'[k] = "failed")
  BY <1>2, <1>4 DEF Inv, TypeOK
<1>7. GuardHolds' /\ WorkDone'
  BY <1>2, <1>6 DEF Inv, GuardHolds, WorkDone, process
<1>8. NoDuplicateJobs' /\ AckedIsDone' /\ AutoIsOwn'
  BY <1>2, <1>6 DEF Inv, NoDuplicateJobs, AckedIsDone, AutoIsOwn, stream
<1> QED BY <1>5, <1>7, <1>8 DEF Inv

-----------------------------------------------------------------------------

LEMMA Initially == ASSUME LandedAssumption, Init PROVE Inv
BY DEF LandedAssumption, Init, Inv, TypeOK, AutoIsOwn, GuardHolds, WorkDone, NoDuplicateJobs,
       AckedIsDone, Lifecycle!States

LEMMA Step == ASSUME LandedAssumption, Inv, [Next]_vars PROVE Inv'
<1>1. CASE UNCHANGED vars
  BY <1>1 DEF Inv, TypeOK, AutoIsOwn, GuardHolds, WorkDone, NoDuplicateJobs, AckedIsDone,
              vars, stream, process, jobs
<1>2. CASE Next
  <2>1. CASE HandleStep
    BY <2>1, BeginStep, FetchStep, UpsertStep, PresetStep, GuardStep, CreateStep, AnnounceStep, AckStep
       DEF HandleStep
  <2> QED BY <1>2, <2>1, StreamSteps, CrashStep, PresetCreated, MoveStep, UserStep DEF Next
<1> QED BY <1>1, <1>2

LEMMA Invariance == Spec => []Inv
<1>1. Init => Inv
  BY Initially, LandedAssumption
<1>2. Inv /\ [Next]_vars => Inv'
  BY Step, LandedAssumption
<1> QED BY <1>1, <1>2, PTL DEF Spec

\* However often an object is announced and delivered, and wherever the
\* process dies, autoCreateJob has at most one job of it alive.
THEOREM OneJobPerObject == Spec => []NoDuplicateJobs
<1>1. Inv => NoDuplicateJobs
  BY DEF Inv
<1> QED BY <1>1, Invariance, PTL

\* handle acks after the source is persisted and, with a preset, a job exists.
THEOREM AckFollowsWork == Spec => []AckedIsDone
<1>1. Inv => AckedIsDone
  BY DEF Inv
<1> QED BY <1>1, Invariance, PTL

\* The consumer's state is well typed for every value of the constants.
THEOREM Typing == Spec => []TypeOK
<1>1. Inv => TypeOK
  BY DEF Inv
<1> QED BY <1>1, Invariance, PTL
=============================================================================
