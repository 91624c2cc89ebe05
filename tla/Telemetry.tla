----------------------------- MODULE Telemetry -----------------------------
(***************************************************************************)
(* services/telemetry: what is published to the hubs (jobs/aggregator.go,  *)
(* logstream.go, pipeline/hardware.go), as main.go wires it.  The three    *)
(* hubs share nothing, so a behaviour is that of one of them.              *)
(*                                                                         *)
(* Every subject has a subscription and so a goroutine of its own: state   *)
(* and progress messages are each handled in order, but not relative to    *)
(* one another.  Core NATS delivers at most once.  The producer of the job *)
(* subjects is modelled from docs/contracts (amendment 1, part C).         *)
(* Rates are left out; messages that fail validation change nothing.       *)
(***************************************************************************)
EXTENDS Hub, FiniteSets

CONSTANTS
    Jobs,         \* job ids
    Readings,     \* the GPU states a sample can report on this host
    MaxMessages   \* bound: messages and samples

ASSUME TelemetryAssumption ==
    /\ IsFiniteSet(Jobs) /\ MaxMessages \in Nat
    /\ {"state", "progress", "log", "hardware"} \subseteq Publishers

VARIABLES
    stream,       \* which of the three hubs
    phase,        \* phase[j]: the state of the job in the farm (external)
    queue,        \* queue[s]: messages of a subject that wait for its goroutine
    active,       \* a.active: "queued" or "running", None if the job is not in it
    counts,       \* a.queued, a.inFlight, a.completed, a.failed
    lastStatus,   \* of RunHardware
    told,         \* history: told[c]: the GPU status the client was last sent
    excused,      \* history: jobs a message was lost of, or overtaken by their end
    overlapped,   \* history: the last report was computed before the other handler's was out
    sent          \* messages and samples so far

farmVars == <<stream, phase, queue, active, counts, lastStatus, told, excused, overlapped, sent>>
vars     == <<hubVars, farmVars>>

Streams  == {"jobs", "logs", "hardware"}
Subjects == {"state", "progress"}
States   == {"queued", "running", "completed", "failed"}
Message  == [job : Jobs, state : States]
Sample   == [gpu : Readings, cpuValid : BOOLEAN]     \* what System.Sample may return

Event(name, data)   == [name |-> name, data |-> data, tag |-> None]
JobEvent(j, s)      == Event("job", <<j, s>>)
AggregateEvent(n)   == Event("aggregate", <<n.queued, n.inFlight, n.completed, n.failed>>)
LogEvent(t)         == [name |-> "log", data |-> << >>, tag |-> t]
StatusEvent(g)      == Event("status", <<g>>)
SampleEvent(gpu)    == Event("sample", <<gpu>>)

\* Everything the services can publish within the bound.
JobEvents  == {JobEvent(j, s) : j \in Jobs, s \in States}
Aggregates == {AggregateEvent(n) : n \in [{"queued", "inFlight", "completed", "failed"} -> 0..MaxMessages]}
LogEvents  == {LogEvent(t) : t \in Tags}
Statuses   == {StatusEvent(g) : g \in Readings}
Samples    == {SampleEvent(b) : b \in {"gpu", "no gpu"}}
AllEvents  == JobEvents \cup Aggregates \cup LogEvents \cup Statuses \cup Samples

ASSUME EventsAssumption ==
    /\ Events = AllEvents
    /\ None \notin Readings \cup States

\* Every variable holds values of its kind.
TypeOK ==
    /\ HubTypeOK
    /\ stream \in Streams
    /\ phase \in [Jobs -> States \cup {None}]
    /\ queue \in [Subjects -> Seq(Message)]
    /\ active \in [Jobs -> {"queued", "running", None}]
    /\ counts \in [queued : Nat, inFlight : Nat, completed : Nat, failed : Nat]
    /\ lastStatus \in Readings \cup {None}
    /\ told \in [Conns -> Readings \cup {None}]
    /\ excused \subseteq Jobs
    /\ overlapped \in BOOLEAN
    /\ sent \in 0..MaxMessages

Init ==
    /\ HubInit
    /\ stream \in Streams
    /\ phase = [j \in Jobs |-> None]
    /\ queue = [s \in Subjects |-> << >>]
    /\ active = [j \in Jobs |-> None]
    /\ counts = [queued |-> 0, inFlight |-> 0, completed |-> 0, failed |-> 0]
    /\ lastStatus = None
    /\ told = [c \in Conns |-> None]
    /\ excused = {}
    /\ overlapped = FALSE
    /\ sent = 0

Send == sent < MaxMessages /\ sent' = sent + 1

-----------------------------------------------------------------------------
(* The farm and the subjects (external).                                   *)

CanFollow(s) == CASE s = None       -> {"queued"}
                  [] s = "queued"   -> {"running", "failed"}
                  [] s = "running"  -> {"completed", "failed"}
                  [] s = "failed"   -> {"queued"}              \* retry
                  [] s = "completed" -> {}

PublishState(j, s) ==
    /\ stream = "jobs" /\ Send
    /\ s \in CanFollow(phase[j])
    /\ phase' = [phase EXCEPT ![j] = s]
    /\ queue' = [queue EXCEPT !["state"] = Append(queue["state"], [job |-> j, state |-> s])]
    /\ UNCHANGED <<hubVars, stream, active, counts, lastStatus, told, excused, overlapped>>

PublishProgress(j) ==
    /\ stream = "jobs" /\ Send
    /\ phase[j] = "running"
    /\ queue' = [queue EXCEPT !["progress"] = Append(queue["progress"],
                                                     [job |-> j, state |-> "running"])]
    /\ UNCHANGED <<hubVars, stream, phase, active, counts, lastStatus, told, excused, overlapped>>

Lose(s) ==
    /\ queue[s] # << >>
    /\ queue' = [queue EXCEPT ![s] = Tail(queue[s])]
    /\ excused' = excused \cup {Head(queue[s]).job}
    /\ UNCHANGED <<hubVars, stream, phase, active, counts, lastStatus, told, overlapped, sent>>

-----------------------------------------------------------------------------
(* Aggregator.                                                             *)

Without(n, s) == IF s = "queued" THEN [n EXCEPT !.queued = n.queued - 1]
                 ELSE IF s = "running" THEN [n EXCEPT !.inFlight = n.inFlight - 1]
                 ELSE n
With(n, s)    == IF s = "queued" THEN [n EXCEPT !.queued = n.queued + 1]
                 ELSE IF s = "running" THEN [n EXCEPT !.inFlight = n.inFlight + 1]
                 ELSE IF s = "completed" THEN [n EXCEPT !.completed = n.completed + 1]
                 ELSE [n EXCEPT !.failed = n.failed + 1]

\* What a state message makes of an entry of a.active: the end removes it, and
\* nothing turns a running job back into a queued one.
StateAfter(old, s) == IF s \in {"completed", "failed"} THEN None
                      ELSE IF s = "queued" /\ old # None THEN old ELSE s

\* The job event and then the aggregate, both computed under a.mu and both
\* published after it is released.
Report(h, j, s) ==
    /\ Compute(h, <<[ev |-> JobEvent(j, s), keep |-> FALSE],
                    [ev |-> AggregateEvent(counts'), keep |-> TRUE]>>)
    /\ overlapped' = \E other \in Subjects \ {h} : ~Idle(other)

Pending(s, j) == \E i \in 1..Len(queue[s]) : queue[s][i].job = j

HandleState ==
    /\ queue["state"] # << >>
    /\ LET m   == Head(queue["state"])
           old == active[m.job]
           new == StateAfter(old, m.state)
       IN
       /\ active' = [active EXCEPT ![m.job] = new]
       /\ counts' = IF new = old /\ new # None THEN counts
                    ELSE With(Without(counts, old), m.state)
       /\ excused' = IF new = None /\ Pending("progress", m.job)
                     THEN excused \cup {m.job} ELSE excused
       /\ Report("state", m.job, m.state)
    /\ queue' = [queue EXCEPT !["state"] = Tail(queue["state"])]
    /\ UNCHANGED <<stream, phase, lastStatus, told, sent>>

\* Mutant: a queued job is not counted over to the running ones.
HandleProgressOfUnknown ==
    /\ queue["progress"] # << >>
    /\ LET j == Head(queue["progress"]).job IN
       /\ active' = [active EXCEPT ![j] = "running"]
       /\ counts' = IF active[j] = None THEN With(counts, "running") ELSE counts
       /\ Report("progress", j, "running")
    /\ queue' = [queue EXCEPT !["progress"] = Tail(queue["progress"])]
    /\ UNCHANGED <<stream, phase, lastStatus, told, excused, sent>>

\* Progress of an unknown job implies that it is running.
HandleProgress ==
    /\ queue["progress"] # << >>
    /\ LET j == Head(queue["progress"]).job IN
       /\ active' = [active EXCEPT ![j] = "running"]
       /\ counts' = With(Without(counts, active[j]), "running")
       /\ Report("progress", j, "running")
    /\ queue' = [queue EXCEPT !["progress"] = Tail(queue["progress"])]
    /\ UNCHANGED <<stream, phase, lastStatus, told, excused, sent>>

-----------------------------------------------------------------------------
(* The log consumer and the hardware loop.                                 *)

Handle(t) ==
    /\ stream = "logs" /\ Send
    /\ Compute("log", <<[ev |-> LogEvent(t), keep |-> FALSE]>>)
    /\ UNCHANGED <<stream, phase, queue, active, counts, lastStatus, told, excused, overlapped>>

\* publishStatus: only when the status differs from the last one.
publishStatus(g) == IF g = lastStatus THEN << >>
                    ELSE <<[ev |-> StatusEvent(g), keep |-> TRUE]>>

\* A frame without any reading is suppressed.
publishSample(smp) ==
    IF smp.gpu # "ok" /\ ~smp.cpuValid THEN << >>
    ELSE <<[ev |-> SampleEvent(IF smp.gpu = "ok" THEN "gpu" ELSE "no gpu"), keep |-> FALSE]>>

\* Mutant: the sample is published first.
SampleFirst(smp) ==
    /\ stream = "hardware" /\ Send
    /\ lastStatus' = smp.gpu
    /\ Compute("hardware", publishSample(smp) \o publishStatus(smp.gpu))
    /\ UNCHANGED <<stream, phase, queue, active, counts, told, excused, overlapped>>

RunHardware(smp) ==
    /\ stream = "hardware" /\ Send
    /\ lastStatus' = smp.gpu
    /\ Compute("hardware", publishStatus(smp.gpu) \o publishSample(smp))
    /\ UNCHANGED <<stream, phase, queue, active, counts, told, excused, overlapped>>

-----------------------------------------------------------------------------

\* streamHandler refuses a filter; logsHandler takes one.
ServeSSE(c, f) ==
    /\ f = None \/ stream = "logs"
    /\ Subscribe(c, f)
    /\ UNCHANGED farmVars

\* The last status in a sequence of packets, old if there is none.
LastStatus(old, evs) ==
    LET at == {i \in 1..Len(evs) : evs[i].ev.name = "status"} IN
    IF at = {} THEN old ELSE evs[CHOOSE i \in at : \A k \in at : k <= i].ev.data[1]

WriteEvents(c) ==
    /\ Flush(c)
    /\ told' = [told EXCEPT ![c] = LastStatus(told[c], conn[c].evs)]
    /\ UNCHANGED <<stream, phase, queue, active, counts, lastStatus, excused, overlapped, sent>>

EndStream(c) ==
    /\ Unsubscribe(c)
    /\ told' = [told EXCEPT ![c] = None]
    /\ UNCHANGED <<stream, phase, queue, active, counts, lastStatus, excused, overlapped, sent>>

Next ==
    \/ \E j \in Jobs : PublishProgress(j) \/ \E s \in States : PublishState(j, s)
    \/ \E s \in Subjects : Lose(s)
    \/ HandleState \/ HandleProgress
    \/ \E t \in Tags : Handle(t)
    \/ \E smp \in Sample : RunHardware(smp)
    \/ Publishing /\ UNCHANGED farmVars
    \/ \E c \in Conns : \/ \E f \in Tags \cup {None} : ServeSSE(c, f)
                        \/ (Select(c) \/ Drain(c) \/ Leave(c)) /\ UNCHANGED farmVars
                        \/ WriteEvents(c) \/ EndStream(c)

Spec == Init /\ [][Next]_vars

-----------------------------------------------------------------------------
(* Properties.                                                             *)

\* The counters agree with a.active, and a.active agrees with the farm once
\* a job's messages are handled, in whatever order the two subscriptions
\* took them; excepted are jobs that a message was lost of, and jobs whose
\* end was handled while progress of theirs still waited.  The aggregate that
\* subscribers are left with is the current one, unless the two handlers
\* overlapped: then the older of their reports may have been published last.
FarmIsCounted ==
    /\ counts.queued = Cardinality({j \in Jobs : active[j] = "queued"})
    /\ counts.inFlight = Cardinality({j \in Jobs : active[j] = "running"})
    /\ \A j \in Jobs \ excused :
          (\A s \in Subjects : ~Pending(s, j)) =>
              active[j] = IF phase[j] \in {"queued", "running"} THEN phase[j] ELSE None
    /\ (\A h \in Subjects : Idle(h)) /\ ~overlapped /\ stream = "jobs" /\ sticky # None =>
          sticky = AggregateEvent(counts)

\* A client that was told of no drop reads GPU numbers exactly while the
\* status it has been sent says ok: the console draws its placeholders from
\* the status event alone.
SampleAgreesWithStatus ==
    \A c \in Conns :
        LET x   == conn[c]
            seq == x.evs \o x.buf
        IN  x.announced + x.lost + x.dropped = 0 =>
                \A i \in 1..Len(seq) :
                    seq[i].ev.name = "sample" =>
                        (seq[i].ev.data[1] = "gpu" <=> LastStatus(told[c], SubSeq(seq, 1, i - 1)) = "ok")
=============================================================================
