------------------------------ MODULE Metering ------------------------------
(***************************************************************************)
(* services/tenancy: the metering consumer (metering.go), the transaction  *)
(* that counts an event (ApplyMetering in postgres.go) and the quota that  *)
(* reads the rollups (quota.go), for one workspace.                        *)
(*                                                                         *)
(* An upload or a job is admitted by the quota, asked over its internal    *)
(* HTTP API, runs for a while in another service and then publishes what   *)
(* it used.  The stream delivers a message until it is acked or            *)
(* terminated, without a limit, and again when it is refused or AckWait    *)
(* runs out.  Several processes may share the durable consumer (a restart  *)
(* that overlaps); each handles one delivery at a time.  Event kinds that  *)
(* only count are left out: they take the same path with nothing to add.   *)
(***************************************************************************)
EXTENDS Integers, FiniteSets, FiniteSetsExt

CONSTANTS
    Events,         \* event ids, in the order they are drawn
    Workers,        \* processes of the service
    LastMonth,      \* bound: UTC months 1..LastMonth
    Sizes,          \* sizes of uploads
    Seconds,        \* encode seconds of jobs
    Tier,           \* the limits of the workspace's plan tier; 0 is no limit
    None,           \* no event, no row
    MaxFaults       \* bound: failures, repeated messages, malformed events

ASSUME MeteringAssumption ==
    /\ Events \subseteq Nat /\ IsFiniteSet(Events)
    /\ LastMonth \in Nat \ {0}
    /\ Sizes \subseteq Nat /\ Seconds \subseteq Nat
    /\ Tier \in [allowUploads : BOOLEAN, allowJobs : BOOLEAN, maxUploadBytes : Nat,
                 storageBytes : Nat, encodeSeconds : Nat]
    /\ None \notin Nat
    /\ MaxFaults \in Nat

VARIABLES
    month,      \* the current month
    event,      \* event[e]: what the event says, and how far it got
    due,        \* due[e]: messages with this event that wait for delivery
    lost,       \* lost[e]: messages nobody handles, until AckWait runs out
    call,       \* call[w]: the invocation of handle in a process
    recorded,   \* rows of tenancy_metering_events
    rollup,     \* rollup[m]: the row of tenancy_usage_rollups
    slack,      \* bytes the last admission could not know of
    faults      \* failures so far

stream == <<due, lost>>
tables == <<recorded, rollup>>
vars   == <<month, event, stream, call, tables, slack, faults>>

Months == 1..LastMonth
Rows   == [bytes : Nat, seconds : Nat]
Idle   == [pc |-> "idle", event |-> None, row |-> None]
Unused == [stage |-> "free", kind |-> "none", amount |-> 0, month |-> 1]

Payloads == [stage : {"free", "admitted", "published"},
             kind : {"none", "upload_completed", "job_ended"}, amount : Int, month : Months]
Calls    == [pc : {"idle", "parse", "upsert", "commit", "ack", "nak"},
             event : Events \cup {None}, row : Rows \cup {None}]

TypeOK ==
    /\ month \in Months
    /\ event \in [Events -> Payloads]
    /\ due \in [Events -> Nat] /\ lost \in [Events -> Nat]
    /\ call \in [Workers -> Calls]
    /\ recorded \subseteq Events
    /\ rollup \in [Months -> Rows]
    /\ slack \in Nat /\ faults \in 0..MaxFaults

Init ==
    /\ month = 1
    /\ event = [e \in Events |-> Unused]
    /\ due = [e \in Events |-> 0]
    /\ lost = [e \in Events |-> 0]
    /\ call = [w \in Workers |-> Idle]
    /\ recorded = {}
    /\ rollup = [m \in Months |-> [bytes |-> 0, seconds |-> 0]]
    /\ slack = 0
    /\ faults = 0

Fails == faults < MaxFaults /\ faults' = faults + 1

-----------------------------------------------------------------------------
(***************************************************************************)
(* The quota.                                                              *)
(***************************************************************************)
SumStorageBytes == MapThenSumSet(LAMBDA m : rollup[m].bytes, Months)

\* Mutant: the size of the new upload is left out.
CheckUploadSessionNow(size) ==
    /\ Tier.allowUploads
    /\ Tier.maxUploadBytes > 0 => size <= Tier.maxUploadBytes
    /\ Tier.storageBytes > 0 => SumStorageBytes <= Tier.storageBytes

CheckUploadSession(size) ==
    /\ Tier.allowUploads
    /\ Tier.maxUploadBytes > 0 => size <= Tier.maxUploadBytes
    /\ Tier.storageBytes > 0 => SumStorageBytes + size <= Tier.storageBytes

CheckJobAdmission ==
    /\ Tier.allowJobs
    /\ Tier.encodeSeconds > 0 => rollup[month].seconds < Tier.encodeSeconds

\* Bytes of uploads that are admitted or announced and not counted yet.
UncountedBytes ==
    MapThenSumSet(LAMBDA e : event[e].amount,
                  {e \in Events \ recorded : event[e].kind = "upload_completed" /\ event[e].amount > 0})

\* The next event id.
Fresh(e) == event[e].stage = "free" /\ \A f \in Events : f < e => event[f].stage # "free"

-----------------------------------------------------------------------------
(***************************************************************************)
(* The services that ask the quota and publish what was used.              *)
(***************************************************************************)
AdmitUpload(e, size) ==
    /\ Fresh(e) /\ CheckUploadSession(size)
    /\ event' = [event EXCEPT ![e] = [Unused EXCEPT !.stage = "admitted", !.amount = size,
                                                    !.kind = "upload_completed"]]
    /\ slack' = UncountedBytes
    /\ UNCHANGED <<month, stream, call, tables, faults>>

AdmitJob(e) ==
    /\ Fresh(e) /\ CheckJobAdmission
    /\ event' = [event EXCEPT ![e] = [Unused EXCEPT !.stage = "admitted", !.kind = "job_ended"]]
    /\ UNCHANGED <<month, stream, call, tables, slack, faults>>

\* publishMetering or Emit; the event is dated now.  What was admitted may also
\* end without an event.
Publish(e) ==
    /\ event[e].stage = "admitted"
    /\ \E n \in IF event[e].kind = "job_ended" THEN Seconds ELSE {event[e].amount} :
         event' = [event EXCEPT ![e] = [event[e] EXCEPT !.stage = "published", !.amount = n,
                                                        !.month = month]]
    /\ due' = [due EXCEPT ![e] = @ + 1]
    /\ UNCHANGED <<month, lost, call, tables, slack, faults>>

\* publishJSON tries again although the stream has the message.
PublishAgain(e) ==
    /\ event[e].stage = "published" /\ Fails
    /\ due' = [due EXCEPT ![e] = @ + 1]
    /\ UNCHANGED <<month, event, lost, call, tables, slack>>

\* A second complete of the same upload announces it under a new id.
CompleteAgain(e, f) ==
    /\ event[e].stage = "published" /\ event[e].kind = "upload_completed" /\ event[e].amount > 0
    /\ Fresh(f) /\ Fails
    /\ event' = [event EXCEPT ![f] = [event[e] EXCEPT !.month = month]]
    /\ due' = [due EXCEPT ![f] = @ + 1]
    /\ slack' = slack + event[e].amount
    /\ UNCHANGED <<month, lost, call, tables>>

\* A publisher sends a payload that rollupDelta refuses.
PublishMalformed(e) ==
    /\ Fresh(e) /\ Fails
    /\ event' = [event EXCEPT ![e] = [stage |-> "published", kind |-> "upload_completed",
                                      amount |-> -1, month |-> month]]
    /\ due' = [due EXCEPT ![e] = @ + 1]
    /\ UNCHANGED <<month, lost, call, tables, slack>>

NextMonth ==
    /\ month < LastMonth /\ month' = month + 1
    /\ UNCHANGED <<event, stream, call, tables, slack, faults>>

-----------------------------------------------------------------------------
(***************************************************************************)
(* The consumer.                                                           *)
(***************************************************************************)
Deliver(w, e) ==
    /\ call[w] = Idle /\ due[e] > 0
    /\ due' = [due EXCEPT ![e] = @ - 1]
    /\ call' = [call EXCEPT ![w] = [Idle EXCEPT !.pc = "parse", !.event = e]]
    /\ UNCHANGED <<month, event, lost, tables, slack, faults>>

\* AckWait runs out for a message nobody handles any more.
AckWaitEnds(e) ==
    /\ lost[e] > 0
    /\ lost' = [lost EXCEPT ![e] = @ - 1]
    /\ due' = [due EXCEPT ![e] = @ + 1]
    /\ UNCHANGED <<month, event, call, tables, slack, faults>>

\* AckWait runs out while a process still has it: the client fetches ahead, and
\* the wait begins at the fetch.  The two deliveries then end separately.
AckWaitTooShort(w) ==
    /\ call[w] # Idle /\ Fails
    /\ due' = [due EXCEPT ![call[w].event] = @ + 1]
    /\ UNCHANGED <<month, event, lost, call, tables, slack>>

Goto(w, pc) == call' = [call EXCEPT ![w] = [call[w] EXCEPT !.pc = pc, !.row = None]]
Return(w)   == call' = [call EXCEPT ![w] = Idle]

\* rollupDelta accepts the payload.
WellFormed(v) == v.kind \in {"upload_completed", "job_ended"} /\ v.amount >= 0

\* Malformed: Term.
Terminate(w) ==
    /\ call[w].pc = "parse" /\ ~WellFormed(event[call[w].event])
    /\ Return(w)
    /\ UNCHANGED <<month, event, stream, tables, slack, faults>>

\* Mutant: the INSERT does not look for the event id.
InsertEventBlindly(w) ==
    /\ call[w].pc = "parse" /\ WellFormed(event[call[w].event])
    /\ Goto(w, "upsert")
    /\ UNCHANGED <<month, event, stream, tables, slack, faults>>

\* INSERT ... ON CONFLICT DO NOTHING waits for an open transaction that has
\* inserted the same id.
InsertEvent(w) ==
    /\ call[w].pc = "parse" /\ WellFormed(event[call[w].event])
    /\ \A v \in Workers : call[v].pc \in {"upsert", "commit"} => call[v].event # call[w].event
    /\ Goto(w, IF call[w].event \in recorded THEN "ack" ELSE "upsert")
    /\ UNCHANGED <<month, event, stream, tables, slack, faults>>

\* rollupDelta, added to a row.
Added(row, v) ==
    [row EXCEPT !.bytes   = IF v.kind = "upload_completed" THEN @ + v.amount ELSE @,
                !.seconds = IF v.kind = "job_ended" THEN @ + v.amount ELSE @]

\* The upsert waits for an open transaction on the same row, then adds to what
\* that one committed.
UpsertRollup(w) ==
    LET v == event[call[w].event] IN
    /\ call[w].pc = "upsert"
    /\ \A u \in Workers : call[u].pc = "commit" => event[call[u].event].month # v.month
    /\ call' = [call EXCEPT ![w] = [call[w] EXCEPT !.pc = "commit", !.row = Added(rollup[v.month], v)]]
    /\ UNCHANGED <<month, event, stream, tables, slack, faults>>

Commits(w) ==
    /\ recorded' = recorded \cup {call[w].event}
    /\ rollup' = [rollup EXCEPT ![event[call[w].event].month] = call[w].row]

Commit(w) ==
    /\ call[w].pc = "commit"
    /\ Commits(w) /\ Goto(w, "ack")
    /\ UNCHANGED <<month, event, stream, slack, faults>>

\* Mutant: an error is taken for a replay.
ApplyFailsSilently(w) ==
    /\ call[w].pc \in {"parse", "upsert", "commit"} /\ WellFormed(event[call[w].event])
    /\ Fails
    /\ Goto(w, "ack") /\ UNCHANGED tables
    /\ UNCHANGED <<month, event, stream, slack>>

\* A statement fails or the 15 seconds are over: the transaction is rolled
\* back, but a COMMIT may have worked.
ApplyFails(w) ==
    /\ call[w].pc \in {"parse", "upsert", "commit"} /\ WellFormed(event[call[w].event])
    /\ Fails
    /\ Goto(w, "nak")
    /\ UNCHANGED tables \/ (call[w].pc = "commit" /\ Commits(w))
    /\ UNCHANGED <<month, event, stream, slack>>

Ack(w) ==
    /\ call[w].pc = "ack" /\ Return(w)
    /\ UNCHANGED <<month, event, stream, tables, slack, faults>>

\* Mutant: a store error ends the message.
NakTerminates(w) ==
    /\ call[w].pc = "nak" /\ Return(w)
    /\ UNCHANGED <<month, event, stream, tables, slack, faults>>

Nak(w) ==
    /\ call[w].pc = "nak" /\ Return(w)
    /\ due' = [due EXCEPT ![call[w].event] = @ + 1]
    /\ UNCHANGED <<month, event, lost, tables, slack, faults>>

\* The process dies, or what it tells the stream is lost.
Crash(w) ==
    /\ call[w] # Idle /\ Fails
    /\ lost' = [lost EXCEPT ![call[w].event] = @ + 1]
    /\ Return(w)
    /\ UNCHANGED <<month, event, due, tables, slack>>

Handle(w) == Terminate(w) \/ InsertEvent(w) \/ UpsertRollup(w) \/ Commit(w) \/ Ack(w) \/ Nak(w)

Next ==
    \/ \E e \in Events : \/ \E size \in Sizes : AdmitUpload(e, size)
                         \/ AdmitJob(e) \/ Publish(e) \/ PublishAgain(e) \/ PublishMalformed(e)
                         \/ \E f \in Events : CompleteAgain(e, f)
                         \/ AckWaitEnds(e)
    \/ NextMonth
    \/ \E w \in Workers : \/ \E e \in Events : Deliver(w, e)
                          \/ Handle(w) \/ ApplyFails(w) \/ AckWaitTooShort(w) \/ Crash(w)

Spec == Init /\ [][Next]_vars

-----------------------------------------------------------------------------
(***************************************************************************)
(* Properties.                                                             *)
(***************************************************************************)

\* The events the stream would still bring.
OnTheWay(e) == due[e] > 0 \/ lost[e] > 0 \/ \E w \in Workers : call[w].event = e

\* Usage is exact: the rollup of every month is the sum of the recorded events
\* dated in it, each counted once, whatever was delivered twice, in parallel,
\* after a lost COMMIT answer or after the month had ended (ApplyMetering).
UsageIsExact ==
    \A m \in Months :
        LET of(k) == {e \in recorded : event[e].kind = k /\ event[e].month = m} IN
        /\ rollup[m].bytes = MapThenSumSet(LAMBDA e : event[e].amount, of("upload_completed"))
        /\ rollup[m].seconds = MapThenSumSet(LAMBDA e : event[e].amount, of("job_ended"))

\* No event is dropped: a published event that can be counted is recorded or
\* still on its way (handle acks only after ApplyMetering).
NothingDropped ==
    \A e \in Events : event[e].stage = "published" /\ WellFormed(event[e])
        => e \in recorded \/ OnTheWay(e)

\* How soft the storage quota is: counted and uncounted bytes together exceed
\* the tier by no more than what was uncounted when the last upload was
\* admitted, and what was announced twice since (CheckUploadSession reads the
\* rollups, which lag behind).
StorageOvershootBound ==
    Tier.storageBytes > 0 =>
        SumStorageBytes + UncountedBytes <= Tier.storageBytes + slack

(***************************************************************************)
(* The stream delivers what is due, AckWait runs out, and handle goes on.  *)
(***************************************************************************)
FairSpec ==
    /\ Spec
    /\ WF_vars(\E w \in Workers, e \in Events : Deliver(w, e))
    /\ WF_vars(\E e \in Events : AckWaitEnds(e))
    /\ \A w \in Workers : WF_vars(Handle(w))

\* Every event that can be counted is counted in the end: redelivery has no
\* limit and only malformed payloads are terminated (handle).
EventsAreCounted ==
    \A e \in Events :
        (event[e].stage = "published" /\ WellFormed(event[e])) ~> (e \in recorded)

=============================================================================
