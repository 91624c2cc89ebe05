--------------------------- MODULE MeteringProofs ---------------------------
(***************************************************************************)
(* Metering, for any number of events, processes, months and failures: no  *)
(* event is dropped, usage is exact, and the storage quota is overshot by  *)
(* no more than what it could not know of.                                 *)
(*                                                                         *)
(* NothingDropped is not inductive: that an ack is safe rests on what      *)
(* ApplyMetering found or wrote before it (AckedIsRecorded), that a        *)
(* message keeps its meaning on published events being final, which every  *)
(* message in the stream or in a process is (CarriedIsPublished), and that *)
(* a transaction adds no negative amount on CountedIsWellFormed.  The two  *)
(* other results rest on how open transactions exclude one another         *)
(* (Books), and on facts about sums over finite sets.                      *)
(***************************************************************************)
EXTENDS Metering, FiniteSetTheorems, WellFoundedInduction, TLAPS

\* The types of what the arguments use.
Typed ==
    /\ month \in Months
    /\ event \in [Events -> Payloads]
    /\ due \in [Events -> Nat] /\ lost \in [Events -> Nat]
    /\ call \in [Workers -> Calls]
    /\ rollup \in [Months -> Rows]

\* What the stream or a process carries was published.
CarriedIsPublished ==
    /\ \A e \in Events : due[e] > 0 \/ lost[e] > 0 => event[e].stage = "published"
    /\ \A w \in Workers : call[w].event = None => call[w] = Idle
    /\ \A w \in Workers : call[w].event # None => event[call[w].event].stage = "published"

\* A transaction is open only for an event that rollupDelta accepted.
CountedIsWellFormed ==
    \A w \in Workers : /\ call[w].pc \in {"upsert", "commit"} => WellFormed(event[call[w].event])
                       /\ call[w].pc = "commit" => call[w].row \in Rows

\* handle is about to ack only what is recorded.
AckedIsRecorded == \A w \in Workers : call[w].pc = "ack" => call[w].event \in recorded

Inv == Typed /\ CarriedIsPublished /\ CountedIsWellFormed /\ AckedIsRecorded /\ NothingDropped

-----------------------------------------------------------------------------

\* Facts that several steps use.
LEMMA Carried ==
    ASSUME MeteringAssumption, Inv, NEW w \in Workers
    PROVE  /\ None \notin Events /\ Idle \in Calls /\ Idle.event = None /\ Idle.pc = "idle"
           /\ call[w] \in Calls
           /\ call[w] # Idle => /\ call[w].event \in Events
                                /\ event[call[w].event] \in Payloads
                                /\ event[call[w].event].stage = "published"
BY DEF MeteringAssumption, Inv, Typed, CarriedIsPublished, Calls, Idle

\* Publishers and the stream leave the processes alone, change no event that
\* was published, and lose no message.
LEMMA MessagesKept ==
    ASSUME MeteringAssumption, Inv, UNCHANGED <<call, recorded, rollup>>, month' \in Months,
           event' \in [Events -> Payloads], due' \in [Events -> Nat], lost' \in [Events -> Nat],
           \A f \in Events : event[f].stage = "published" => event'[f] = event[f],
           \A f \in Events : due'[f] > 0 \/ lost'[f] > 0 => event'[f].stage = "published",
           \A f \in Events : due[f] > 0 \/ lost[f] > 0 => due'[f] > 0 \/ lost'[f] > 0,
           \A f \in Events : event[f].stage # "published" /\ event'[f].stage = "published"
                             => due'[f] > 0
    PROVE  Inv'
<1>1. Typed'
  BY DEF Inv, Typed
<1>2. ASSUME NEW w \in Workers, call[w].event # None
      PROVE  event[call[w].event].stage = "published" /\ event'[call[w].event] = event[call[w].event]
  BY <1>2, Carried DEF Inv, CarriedIsPublished, Idle
<1>3. CarriedIsPublished'
  BY <1>2 DEF Inv, CarriedIsPublished, Idle
<1>4. CountedIsWellFormed'
  <2> SUFFICES ASSUME NEW w \in Workers
               PROVE  /\ call[w].pc \in {"upsert", "commit"} => WellFormed(event'[call[w].event])
                      /\ call[w].pc = "commit" => call[w].row \in Rows
    BY DEF CountedIsWellFormed, Rows, WellFormed
  <2>1. CASE call[w].event = None
    BY <2>1 DEF Inv, CarriedIsPublished, Idle
  <2>2. CASE call[w].event # None
    BY <1>2, <2>2 DEF Inv, CountedIsWellFormed
  <2> QED BY <2>1, <2>2
<1>5. AckedIsRecorded'
  BY DEF Inv, AckedIsRecorded
<1>6. NothingDropped'
  <2> SUFFICES ASSUME NEW e \in Events, event'[e].stage = "published", WellFormed(event'[e])
               PROVE  e \in recorded \/ due'[e] > 0 \/ lost'[e] > 0 \/ \E w \in Workers : call[w].event = e
    BY DEF NothingDropped, OnTheWay, WellFormed
  <2>1. CASE event[e].stage = "published"
    <3>1. e \in recorded \/ due[e] > 0 \/ lost[e] > 0 \/ \E w \in Workers : call[w].event = e
      BY <2>1 DEF Inv, NothingDropped, OnTheWay
    <3> QED BY <3>1
  <2> QED BY <2>1
<1> QED BY <1>1, <1>3, <1>4, <1>5, <1>6 DEF Inv

\* A step of one process, which leaves it at c: what it lets go of is back in
\* the stream, recorded or malformed.
LEMMA ProcessKeeps ==
    ASSUME MeteringAssumption, Inv, UNCHANGED <<month, event>>, recorded \subseteq recorded',
           rollup' \in [Months -> Rows], due' \in [Events -> Nat], lost' \in [Events -> Nat],
           NEW w \in Workers, NEW c \in Calls, call' = [call EXCEPT ![w] = c],
           c = Idle \/ (c.event \in Events /\ event[c.event].stage = "published"),
           c.pc \in {"upsert", "commit"} => WellFormed(event[c.event]),
           c.pc = "commit" => c.row \in Rows,
           c.pc = "ack" => c.event \in recorded',
           \A f \in Events : due'[f] > 0 \/ lost'[f] > 0 => event[f].stage = "published",
           \A f \in Events : due[f] > 0 \/ lost[f] > 0
                             => due'[f] > 0 \/ lost'[f] > 0 \/ c.event = f,
           \A f \in Events : call[w].event = f /\ c.event # f
                             => due'[f] > 0 \/ lost'[f] > 0 \/ f \in recorded' \/ ~WellFormed(event[f])
    PROVE  Inv'
<1>0. None \notin Events /\ Idle.event = None /\ Idle.pc = "idle"
  BY Carried
<1>1. Typed' /\ call'[w] = c /\ \A v \in Workers \ {w} : call'[v] = call[v]
  BY DEF Inv, Typed
<1>2. CarriedIsPublished'
  <2>1. ASSUME NEW v \in Workers
        PROVE  /\ call'[v].event = None => call'[v] = Idle
               /\ call'[v].event # None => event[call'[v].event].stage = "published"
    BY <1>0, <1>1 DEF Inv, CarriedIsPublished
  <2> QED BY <2>1 DEF CarriedIsPublished, Idle
<1>3. CountedIsWellFormed'
  <2>1. ASSUME NEW v \in Workers
        PROVE  /\ call'[v].pc \in {"upsert", "commit"} => WellFormed(event[call'[v].event])
               /\ call'[v].pc = "commit" => call'[v].row \in Rows
    BY <1>1 DEF Inv, CountedIsWellFormed
  <2> QED BY <2>1 DEF CountedIsWellFormed, Rows, WellFormed
<1>4. AckedIsRecorded'
  BY <1>1 DEF Inv, AckedIsRecorded
<1>5. NothingDropped'
  <2> SUFFICES ASSUME NEW e \in Events, event[e].stage = "published", WellFormed(event[e])
               PROVE  e \in recorded' \/ due'[e] > 0 \/ lost'[e] > 0 \/ \E v \in Workers : call'[v].event = e
    BY DEF NothingDropped, OnTheWay, WellFormed
  <2>1. e \in recorded \/ due[e] > 0 \/ lost[e] > 0 \/ \E v \in Workers : call[v].event = e
    BY DEF Inv, NothingDropped, OnTheWay
  <2>2. CASE \E v \in Workers : call[v].event = e
    BY <1>1, <2>2
  <2>3. CASE ~ \E v \in Workers : call[v].event = e
    BY <1>1, <2>1, <2>3
  <2> QED BY <2>2, <2>3
<1> QED BY <1>1, <1>2, <1>3, <1>4, <1>5 DEF Inv

-----------------------------------------------------------------------------

\* Admissions and publications.
LEMMA PublisherSteps ==
    ASSUME MeteringAssumption, Inv, NEW e \in Events,
           \/ \E size \in Sizes : AdmitUpload(e, size)
           \/ AdmitJob(e) \/ Publish(e) \/ PublishAgain(e) \/ PublishMalformed(e)
           \/ \E f \in Events : CompleteAgain(e, f)
    PROVE  Inv'
<1>0. /\ month \in Months /\ event \in [Events -> Payloads] /\ Unused \in Payloads
      /\ due \in [Events -> Nat] /\ lost \in [Events -> Nat]
      /\ \A f \in Events : due[f] > 0 \/ lost[f] > 0 => event[f].stage = "published"
  BY DEF MeteringAssumption, Inv, Typed, CarriedIsPublished, Payloads, Unused, Months
<1>1. ASSUME NEW v \in Payloads, NEW f \in Events, event' = [event EXCEPT ![f] = v],
             event[f].stage # "published", v.stage # "published",
             UNCHANGED <<month, due, lost, call, recorded, rollup>>
      PROVE  Inv'
  BY <1>0, <1>1, MessagesKept
<1>2. ASSUME NEW v \in Payloads, NEW f \in Events, event' = [event EXCEPT ![f] = v],
             event[f].stage # "published", v.stage = "published", due' = [due EXCEPT ![f] = @ + 1],
             UNCHANGED <<month, lost, call, recorded, rollup>>
      PROVE  Inv'
  BY <1>0, <1>2, MessagesKept
<1>3. ASSUME NEW size \in Sizes, AdmitUpload(e, size) PROVE Inv'
  <2> DEFINE v == [Unused EXCEPT !.stage = "admitted", !.amount = size, !.kind = "upload_completed"]
  <2>1. v \in Payloads /\ v.stage = "admitted"
    <3>1. size \in Int
      BY DEF MeteringAssumption
    <3> QED BY <1>0, <3>1 DEF Payloads
  <2>2. /\ event' = [event EXCEPT ![e] = v] /\ event[e].stage # "published"
        /\ UNCHANGED <<month, due, lost, call, recorded, rollup>>
    BY <1>3 DEF AdmitUpload, Fresh, stream, tables
  <2> HIDE DEF v
  <2> QED BY <1>1, <2>1, <2>2
<1>4. CASE AdmitJob(e)
  <2> DEFINE v == [Unused EXCEPT !.stage = "admitted", !.kind = "job_ended"]
  <2>1. v \in Payloads /\ v.stage = "admitted"
    BY <1>0 DEF Payloads
  <2>2. /\ event' = [event EXCEPT ![e] = v] /\ event[e].stage # "published"
        /\ UNCHANGED <<month, due, lost, call, recorded, rollup>>
    BY <1>4 DEF AdmitJob, Fresh, stream, tables
  <2> HIDE DEF v
  <2> QED BY <1>1, <2>1, <2>2
<1>5. CASE Publish(e)
  <2>1. PICK n \in IF event[e].kind = "job_ended" THEN Seconds ELSE {event[e].amount} :
             event' = [event EXCEPT ![e] = [event[e] EXCEPT !.stage = "published", !.amount = n,
                                                            !.month = month]]
    BY <1>5 DEF Publish
  <2> DEFINE v == [event[e] EXCEPT !.stage = "published", !.amount = n, !.month = month]
  <2>2. n \in Int
    BY <1>0, <2>1 DEF MeteringAssumption, Payloads
  <2>3. v \in Payloads /\ v.stage = "published"
    BY <1>0, <2>2 DEF Payloads
  <2>4. /\ event' = [event EXCEPT ![e] = v] /\ event[e].stage # "published"
        /\ due' = [due EXCEPT ![e] = @ + 1]
        /\ UNCHANGED <<month, lost, call, recorded, rollup>>
    BY <1>5, <2>1 DEF Publish, tables
  <2> HIDE DEF v
  <2> QED BY <1>2, <2>3, <2>4
<1>6. CASE PublishAgain(e)
  <2>1. /\ event[e].stage = "published" /\ due' = [due EXCEPT ![e] = @ + 1]
        /\ UNCHANGED <<month, event, lost, call, recorded, rollup>>
    BY <1>6 DEF PublishAgain, tables
  <2> QED BY <1>0, <2>1, MessagesKept
<1>7. CASE PublishMalformed(e)
  <2> DEFINE v == [stage |-> "published", kind |-> "upload_completed", amount |-> -1, month |-> month]
  <2>1. v \in Payloads /\ v.stage = "published"
    BY <1>0 DEF Payloads
  <2>2. /\ event' = [event EXCEPT ![e] = v] /\ event[e].stage # "published"
        /\ due' = [due EXCEPT ![e] = @ + 1]
        /\ UNCHANGED <<month, lost, call, recorded, rollup>>
    BY <1>7 DEF PublishMalformed, Fresh, tables
  <2> HIDE DEF v
  <2> QED BY <1>2, <2>1, <2>2
<1>8. ASSUME NEW f \in Events, CompleteAgain(e, f) PROVE Inv'
  <2> DEFINE v == [event[e] EXCEPT !.month = month]
  <2>1. v \in Payloads /\ v.stage = "published"
    BY <1>0, <1>8 DEF Payloads, CompleteAgain
  <2>2. /\ event' = [event EXCEPT ![f] = v] /\ event[f].stage # "published"
        /\ due' = [due EXCEPT ![f] = @ + 1]
        /\ UNCHANGED <<month, lost, call, recorded, rollup>>
    BY <1>8 DEF CompleteAgain, Fresh, tables
  <2> HIDE DEF v
  <2> QED BY <1>2, <2>1, <2>2
<1> QED BY <1>3, <1>4, <1>5, <1>6, <1>7, <1>8

\* AckWait runs out.
LEMMA AckWaitSteps ==
    ASSUME MeteringAssumption, Inv,
           (\E e \in Events : AckWaitEnds(e)) \/ (\E w \in Workers : AckWaitTooShort(w))
    PROVE  Inv'
<1>0. /\ month \in Months /\ event \in [Events -> Payloads]
      /\ due \in [Events -> Nat] /\ lost \in [Events -> Nat]
      /\ \A f \in Events : due[f] > 0 \/ lost[f] > 0 => event[f].stage = "published"
  BY DEF Inv, Typed, CarriedIsPublished
<1>1. ASSUME NEW e \in Events, AckWaitEnds(e) PROVE Inv'
  <2>1. /\ lost[e] > 0 /\ lost' = [lost EXCEPT ![e] = @ - 1] /\ due' = [due EXCEPT ![e] = @ + 1]
        /\ UNCHANGED <<month, event, call, recorded, rollup>>
    BY <1>1 DEF AckWaitEnds, tables
  <2> QED BY <1>0, <2>1, MessagesKept
<1>2. ASSUME NEW w \in Workers, AckWaitTooShort(w) PROVE Inv'
  <2>1. PICK e \in Events : e = call[w].event /\ event[e].stage = "published"
    BY <1>2, Carried DEF AckWaitTooShort
  <2>2. due' = [due EXCEPT ![e] = @ + 1] /\ UNCHANGED <<month, event, lost, call, recorded, rollup>>
    BY <1>2, <2>1 DEF AckWaitTooShort, tables
  <2> QED BY <1>0, <2>1, <2>2, MessagesKept
<1> QED BY <1>1, <1>2

\* A delivery, and what a process then does.
LEMMA ProcessSteps ==
    ASSUME MeteringAssumption, Inv, NEW w \in Workers,
           (\E e \in Events : Deliver(w, e)) \/ Handle(w) \/ ApplyFails(w) \/ Crash(w)
    PROVE  Inv'
<1>0. /\ due \in [Events -> Nat] /\ lost \in [Events -> Nat] /\ rollup \in [Months -> Rows]
      /\ \A f \in Events : due[f] > 0 \/ lost[f] > 0 => event[f].stage = "published"
  BY DEF Inv, Typed, CarriedIsPublished
<1>1. ASSUME NEW e \in Events, Deliver(w, e) PROVE Inv'
  <2> DEFINE c == [Idle EXCEPT !.pc = "parse", !.event = e]
  <2>1. c \in Calls /\ c.event = e /\ c.pc = "parse"
    BY Carried DEF Calls
  <2>2. /\ call' = [call EXCEPT ![w] = c] /\ due' = [due EXCEPT ![e] = @ - 1]
        /\ due[e] > 0 /\ call[w].event = None /\ UNCHANGED <<month, event, lost, recorded, rollup>>
    BY <1>1, Carried DEF Deliver, tables
  <2>3. \A f \in Events : due[f] > 0 \/ lost[f] > 0 => due'[f] > 0 \/ lost'[f] > 0 \/ c.event = f
    BY <1>0, <2>1, <2>2
  <2>4. /\ due' \in [Events -> Nat] /\ lost' \in [Events -> Nat] /\ event[e].stage = "published"
        /\ \A f \in Events : due'[f] > 0 \/ lost'[f] > 0 => event[f].stage = "published"
    BY <1>0, <2>2
  <2>5. \A f \in Events : call[w].event # f
    BY <2>2, Carried
  <2>6. c.event \in Events /\ event[c.event].stage = "published" /\ rollup' \in [Months -> Rows]
    BY <1>0, <2>1, <2>2, <2>4
  <2>7. /\ call' = [call EXCEPT ![w] = c] /\ UNCHANGED <<month, event>>
        /\ recorded \subseteq recorded'
    BY <2>2
  <2>8. \A f \in Events : call[w].event = f /\ c.event # f
                          => due'[f] > 0 \/ lost'[f] > 0 \/ f \in recorded' \/ ~WellFormed(event[f])
    BY <2>5
  <2>9. c \in Calls /\ c.pc \notin {"upsert", "commit", "ack"}
    BY <2>1
  <2> HIDE DEF c
  <2> QED BY <2>3, <2>4, <2>6, <2>7, <2>8, <2>9, ProcessKeeps
<1> SUFFICES ASSUME Handle(w) \/ ApplyFails(w) \/ Crash(w) PROVE Inv'
  BY <1>1
<1>2. PICK e \in Events : /\ e = call[w].event /\ event[e] \in Payloads
                          /\ event[e].stage = "published"
  <2>1. call[w] # Idle
    BY DEF Handle, Terminate, InsertEvent, UpsertRollup, Commit, Ack, Nak, ApplyFails, Crash, Idle
  <2> QED BY <2>1, Carried
<1>3. ASSUME NEW c \in Calls, call' = [call EXCEPT ![w] = c], c.event = e,
             c.pc \in {"upsert", "commit"} => WellFormed(event[e]), c.pc = "commit" => c.row \in Rows,
             c.pc = "ack" => e \in recorded', recorded \subseteq recorded',
             rollup' \in [Months -> Rows], UNCHANGED <<month, event, due, lost>>
      PROVE  Inv'
  BY <1>0, <1>2, <1>3, ProcessKeeps
<1>4. ASSUME Return(w), UNCHANGED <<month, event, recorded, rollup>>,
             due' \in [Events -> Nat], lost' \in [Events -> Nat],
             \A f \in Events \ {e} : due'[f] = due[f] /\ lost'[f] = lost[f],
             due[e] > 0 \/ lost[e] > 0 => due'[e] > 0 \/ lost'[e] > 0,
             due'[e] > 0 \/ lost'[e] > 0 \/ e \in recorded \/ ~WellFormed(event[e])
      PROVE  Inv'
  <2> DEFINE c == Idle
  <2>1. c \in Calls /\ c.event = None /\ c.pc = "idle" /\ c = Idle /\ None \notin Events
    BY Carried
  <2>2. call' = [call EXCEPT ![w] = c]
    BY <1>4 DEF Return
  <2>3. /\ \A f \in Events : due'[f] > 0 \/ lost'[f] > 0 => event[f].stage = "published"
        /\ \A f \in Events : due[f] > 0 \/ lost[f] > 0 => due'[f] > 0 \/ lost'[f] > 0
    BY <1>0, <1>2, <1>4
  <2>4. \A f \in Events : call[w].event = f
                          => due'[f] > 0 \/ lost'[f] > 0 \/ f \in recorded \/ ~WellFormed(event[f])
    BY <1>2, <1>4
  <2> HIDE DEF c
  <2>5. rollup' \in [Months -> Rows] /\ recorded' = recorded
    BY <1>0, <1>4
  <2> QED BY <1>4, <2>1, <2>2, <2>3, <2>4, <2>5, ProcessKeeps
<1>5. ASSUME NEW pc \in {"upsert", "ack", "nak"}, Goto(w, pc)
      PROVE  \E c \in Calls : call' = [call EXCEPT ![w] = c] /\ c.event = e /\ c.pc = pc
  <2> DEFINE c == [call[w] EXCEPT !.pc = pc, !.row = None]
  <2>1. c \in Calls /\ c.event = e /\ c.pc = pc
    BY <1>2, <1>5, Carried DEF Calls
  <2> QED BY <1>5, <2>1 DEF Goto
<1>6. CASE Terminate(w)
  BY <1>0, <1>2, <1>4, <1>6 DEF Terminate, stream, tables
<1>7. CASE InsertEvent(w)
  <2> DEFINE pc == IF e \in recorded THEN "ack" ELSE "upsert"
  <2>1. /\ Goto(w, pc) /\ pc \in {"upsert", "ack", "nak"} /\ WellFormed(event[e])
        /\ pc # "commit" /\ pc = "ack" => e \in recorded
    BY <1>2, <1>7 DEF InsertEvent
  <2>2. UNCHANGED <<month, event, due, lost, recorded, rollup>>
    BY <1>7 DEF InsertEvent, stream, tables
  <2> HIDE DEF pc
  <2>3. PICK c \in Calls : call' = [call EXCEPT ![w] = c] /\ c.event = e /\ c.pc = pc
    BY <1>5, <2>1
  <2> QED BY <1>0, <1>3, <2>1, <2>2, <2>3
<1>8. CASE UpsertRollup(w)
  <2> DEFINE v == event[e]
             row == Added(rollup[v.month], v)
             c == [call[w] EXCEPT !.pc = "commit", !.row = row]
  <2>1. WellFormed(v)
    BY <1>2, <1>8 DEF UpsertRollup, Inv, CountedIsWellFormed
  <2>2. rollup[v.month] \in Rows /\ v.amount \in Nat
    BY <1>0, <1>2, <2>1 DEF Payloads, WellFormed
  <2>3. row \in Rows
    <3> DEFINE r == rollup[v.month]
    <3>1. r.bytes + v.amount \in Nat /\ r.seconds + v.amount \in Nat
      BY <2>2 DEF Rows
    <3>2. CASE v.kind = "upload_completed"
      BY <2>2, <3>1, <3>2 DEF Added, Rows
    <3>3. CASE v.kind = "job_ended"
      BY <2>2, <3>1, <3>3 DEF Added, Rows
    <3> QED BY <2>1, <3>2, <3>3 DEF WellFormed
  <2>4. call' = [call EXCEPT ![w] = c] /\ UNCHANGED <<month, event, due, lost, recorded, rollup>>
    BY <1>2, <1>8 DEF UpsertRollup, stream, tables
  <2> HIDE DEF row
  <2>5. c \in Calls /\ c.event = e /\ c.pc = "commit" /\ c.row = row
    BY <1>2, <2>3, Carried DEF Calls
  <2> HIDE DEF c
  <2> QED BY <1>0, <1>3, <2>1, <2>3, <2>4, <2>5
<1>9. ASSUME Commits(w), call[w].pc = "commit"
      PROVE  recorded' = recorded \cup {e} /\ rollup' \in [Months -> Rows]
  <2>1. call[w].row \in Rows
    BY <1>9 DEF Inv, CountedIsWellFormed
  <2> QED BY <1>0, <1>2, <1>9, <2>1 DEF Commits
<1>10. CASE Commit(w)
  <2>1. PICK c \in Calls : call' = [call EXCEPT ![w] = c] /\ c.event = e /\ c.pc = "ack"
    BY <1>5, <1>10 DEF Commit
  <2>2. UNCHANGED <<month, event, due, lost>>
    BY <1>10 DEF Commit, stream
  <2> QED BY <1>3, <1>9, <1>10, <2>1, <2>2 DEF Commit
<1>11. CASE ApplyFails(w)
  <2>1. PICK c \in Calls : call' = [call EXCEPT ![w] = c] /\ c.event = e /\ c.pc = "nak"
    BY <1>5, <1>11 DEF ApplyFails
  <2>2. UNCHANGED <<month, event, due, lost>>
    BY <1>11 DEF ApplyFails, stream
  <2>3. recorded \subseteq recorded' /\ rollup' \in [Months -> Rows]
    BY <1>0, <1>9, <1>11 DEF ApplyFails, tables
  <2> QED BY <1>3, <2>1, <2>2, <2>3
<1>12. CASE Ack(w)
  <2>1. e \in recorded
    BY <1>2, <1>12 DEF Ack, Inv, AckedIsRecorded
  <2> QED BY <1>0, <1>4, <1>12, <2>1 DEF Ack, stream, tables
<1>13. CASE Nak(w)
  <2>1. /\ Return(w) /\ due' = [due EXCEPT ![e] = @ + 1]
        /\ UNCHANGED <<month, event, lost, recorded, rollup>>
    BY <1>2, <1>13 DEF Nak, tables
  <2> QED BY <1>0, <1>4, <2>1
<1>14. CASE Crash(w)
  <2>1. /\ Return(w) /\ lost' = [lost EXCEPT ![e] = @ + 1]
        /\ UNCHANGED <<month, event, due, recorded, rollup>>
    BY <1>2, <1>14 DEF Crash, tables
  <2> QED BY <1>0, <1>4, <2>1
<1> QED BY <1>6, <1>7, <1>8, <1>10, <1>11, <1>12, <1>13, <1>14 DEF Handle

\* The invariant holds.
LEMMA InvHolds == Spec => []Inv
<1>1. Init => Inv
  <2> SUFFICES ASSUME Init PROVE Inv
    OBVIOUS
  <2>1. Typed
    BY MeteringAssumption DEF Init, Typed, Months, Rows, Payloads, Calls, Idle, Unused
  <2>2. CarriedIsPublished /\ CountedIsWellFormed /\ AckedIsRecorded
    BY DEF Init, CarriedIsPublished, CountedIsWellFormed, AckedIsRecorded, Idle
  <2>3. NothingDropped
    BY DEF Init, NothingDropped, Unused
  <2> QED BY <2>1, <2>2, <2>3 DEF Inv
<1>2. Inv /\ [Next]_vars => Inv'
  <2> SUFFICES ASSUME Inv, [Next]_vars PROVE Inv'
    OBVIOUS
  <2>1. CASE NextMonth
    <3>1. month' \in Months /\ UNCHANGED <<event, due, lost, call, recorded, rollup>>
      BY <2>1, MeteringAssumption DEF NextMonth, stream, tables, Inv, Typed, Months
    <3> QED BY <3>1, MeteringAssumption, MessagesKept DEF Inv, Typed, CarriedIsPublished
  <2>2. CASE UNCHANGED vars
    <3>1. UNCHANGED <<month, event, due, lost, call, recorded, rollup>>
      BY <2>2 DEF vars, stream, tables
    <3> QED BY <3>1, MeteringAssumption, MessagesKept DEF Inv, Typed, CarriedIsPublished
  <2>3. CASE Next /\ ~NextMonth
    BY <2>3, MeteringAssumption, PublisherSteps, AckWaitSteps, ProcessSteps DEF Next
  <2> QED BY <2>1, <2>2, <2>3
<1> QED BY <1>1, <1>2, PTL DEF Spec

\* A published event that can be counted is never dropped, for any number of
\* events, processes and failures: handle acks only what ApplyMetering recorded
\* or found recorded, and terminates only what rollupDelta refuses.
THEOREM NoEventDropped == Spec => []NothingDropped
<1>1. Inv => NothingDropped
  BY DEF Inv
<1> QED BY <1>1, InvHolds, PTL

-----------------------------------------------------------------------------
(***************************************************************************)
(* Sums over finite sets.  The community modules define them by recursion  *)
(* over the subsets; the facts below are proved by taking a smallest       *)
(* counterexample.                                                         *)
(***************************************************************************)

\* What the induction is on: a set of numbers has a least element.
LEMMA LeastNumber == ASSUME NEW T \in SUBSET Nat, T # {} PROVE \E n \in T : \A m \in T : n <= m
<1> DEFINE R == OpToRel(<, Nat)
<1>1. IsWellFoundedOn(R, Nat)
  BY NatLessThanWellFounded
<1>2. ASSUME NEW x \in Nat, NEW y \in Nat, x < y PROVE <<x, y>> \in R
  BY <1>2 DEF OpToRel
<1> HIDE DEF R
<1>3. PICK n \in T : \A y \in T : ~ (<<y, n>> \in R)
  BY <1>1, WFMin
<1>4. ASSUME NEW m \in T PROVE n <= m
  <2>1. n \in Nat /\ m \in Nat
    OBVIOUS
  <2>2. CASE m < n
    BY <1>2, <1>3, <2>1, <2>2
  <2> QED BY <2>1, <2>2
<1> QED BY <1>4

\* The element that MapThenSumSet takes out of a set, and its recursion.
Pick(s) == CHOOSE x \in s : TRUE
Folded(f, g, s) == IF s = {} THEN 0 ELSE f[Pick(s)] + g[s \ {Pick(s)}]
IsSum(f, S, g) == g = [s \in SUBSET S |-> Folded(f, g, s)]
Iter(f, S) == CHOOSE g : IsSum(f, S, g)

\* The sum of f over S, as the community modules define it.
Total(f, S) == MapThenSumSet(LAMBDA e : f[e], S)

LEMMA TotalIsIter == ASSUME NEW f, NEW S PROVE Total(f, S) = Iter(f, S)[S]
BY DEF Total, MapThenSumSet, MapThenFoldSet, Iter, IsSum, Folded, Pick

LEMMA Applies == ASSUME NEW A, NEW B, NEW i \in [A -> B], NEW a \in A PROVE i[a] \in B
OBVIOUS

LEMMA PickIn == ASSUME NEW s, s # {} PROVE Pick(s) \in s
BY DEF Pick

\* The recursion has a solution.
LEMMA IterExists ==
    ASSUME NEW S, IsFiniteSet(S), NEW f \in [S -> Int]
    PROVE  \E g \in [SUBSET S -> Int] : IsSum(f, S, g)
<1> DEFINE Upto(n, g) == \A s \in SUBSET S : Cardinality(s) <= n => g[s] = Folded(f, g, s)
           Bad == {n \in Nat : ~ \E g \in [SUBSET S -> Int] : Upto(n, g)}
<1>1. \A s \in SUBSET S : IsFiniteSet(s) /\ Cardinality(s) \in Nat /\ Cardinality(s) <= Cardinality(S)
  BY FS_Subset, FS_CardinalityType
<1>2. ASSUME NEW s \in SUBSET S, s # {}
      PROVE  /\ Pick(s) \in S /\ s \ {Pick(s)} \in SUBSET S
             /\ Cardinality(s \ {Pick(s)}) = Cardinality(s) - 1
  BY <1>1, <1>2, PickIn, FS_RemoveElement
<1>3. Bad = {}
  <2> SUFFICES ASSUME Bad # {} PROVE FALSE
    OBVIOUS
  <2>1. PICK n \in Bad : \A m \in Bad : n <= m
    <3>1. Bad \in SUBSET Nat
      OBVIOUS
    <3> HIDE DEF Bad
    <3> QED BY <3>1, LeastNumber
  <2>2. CASE n = 0
    <3> DEFINE g == [s \in SUBSET S |-> 0]
    <3>1. ASSUME NEW s \in SUBSET S, Cardinality(s) <= 0 PROVE g[s] = Folded(f, g, s)
      <4>1. s = {}
        BY <1>1, <3>1, FS_EmptySet
      <4> QED BY <4>1 DEF Folded
    <3>2. g \in [SUBSET S -> Int] /\ Upto(n, g)
      BY <2>2, <3>1
    <3> QED BY <2>1, <3>2
  <2>3. CASE n # 0
    <3>0. n \in Nat /\ n - 1 \in Nat
      BY <2>3
    <3>1. n - 1 \notin Bad
      <4> HIDE DEF Bad
      <4> QED BY <2>1, <3>0
    <3>2. PICK g \in [SUBSET S -> Int] : Upto(n - 1, g)
      BY <3>0, <3>1
    <3> DEFINE h == [s \in SUBSET S |-> IF Cardinality(s) <= n - 1 THEN g[s] ELSE Folded(f, g, s)]
    <3>3. ASSUME NEW s \in SUBSET S PROVE Folded(f, g, s) \in Int
      <4>1. CASE s = {}
        BY <4>1 DEF Folded
      <4>2. CASE s # {}
        <5>1. f[Pick(s)] \in Int /\ g[s \ {Pick(s)}] \in Int
          BY <1>2, <4>2, Applies
        <5> QED BY <4>2, <5>1 DEF Folded
      <4> QED BY <4>1, <4>2
    <3>4. h \in [SUBSET S -> Int]
      BY <3>3
    <3>5. ASSUME NEW s \in SUBSET S, Cardinality(s) <= n PROVE h[s] = Folded(f, h, s)
      <4>1. h[s] = Folded(f, g, s)
        <5>1. CASE Cardinality(s) <= n - 1
          BY <3>2, <5>1
        <5>2. CASE ~ (Cardinality(s) <= n - 1)
          BY <5>2
        <5> QED BY <5>1, <5>2
      <4>2. CASE s = {}
        BY <4>1, <4>2 DEF Folded
      <4>3. CASE s # {}
        <5>1. /\ s \ {Pick(s)} \in SUBSET S /\ Cardinality(s \ {Pick(s)}) <= n - 1
          <6> HIDE DEF Bad, h
          <6>1. Cardinality(s) \in Nat /\ s \ {Pick(s)} \in SUBSET S
                /\ Cardinality(s \ {Pick(s)}) = Cardinality(s) - 1
            BY <1>1, <1>2, <4>3
          <6> QED BY <3>0, <3>5, <6>1
        <5>2. h[s \ {Pick(s)}] = g[s \ {Pick(s)}]
          BY <5>1
        <5> HIDE DEF h
        <5> QED BY <4>1, <4>3, <5>2 DEF Folded
      <4> QED BY <4>2, <4>3
    <3> HIDE DEF h
    <3>6. Upto(n, h)
      BY <3>5
    <3> QED BY <2>1, <3>4, <3>6
  <2> QED BY <2>2, <2>3
<1>4. Cardinality(S) \in Nat
  BY FS_CardinalityType
<1>5. PICK g \in [SUBSET S -> Int] : Upto(Cardinality(S), g)
  BY <1>3, <1>4
<1>6. \A s \in SUBSET S : g[s] = Folded(f, g, s)
  BY <1>1, <1>5
<1> QED BY <1>6 DEF IsSum

\* Solutions over two sets agree where both are defined.
LEMMA IterUnique ==
    ASSUME NEW S, IsFiniteSet(S), NEW T, IsFiniteSet(T), NEW f, NEW g, NEW F, NEW G,
           IsSum(f, S, F), IsSum(g, T, G), NEW U \in SUBSET (S \cap T), \A x \in U : f[x] = g[x]
    PROVE  F[U] = G[U]
<1> DEFINE Bad == {n \in Nat : \E s \in SUBSET U : Cardinality(s) = n /\ F[s] # G[s]}
<1>0. IsFiniteSet(U)
  BY FS_Subset
<1>1. \A s \in SUBSET U : IsFiniteSet(s) /\ Cardinality(s) \in Nat
  BY <1>0, FS_Subset, FS_CardinalityType
<1>2. Bad = {}
  <2> SUFFICES ASSUME Bad # {} PROVE FALSE
    OBVIOUS
  <2>1. PICK n \in Bad : \A m \in Bad : n <= m
    <3>1. Bad \in SUBSET Nat
      OBVIOUS
    <3> HIDE DEF Bad
    <3> QED BY <3>1, LeastNumber
  <2>2. PICK s \in SUBSET U : Cardinality(s) = n /\ F[s] # G[s]
    BY <2>1
  <2>3. s \in SUBSET S /\ s \in SUBSET T
    OBVIOUS
  <2>4. F[s] = Folded(f, F, s) /\ G[s] = Folded(g, G, s)
    BY <2>3 DEF IsSum
  <2>5. s # {}
    BY <2>2, <2>4 DEF Folded
  <2>6. Pick(s) \in U /\ s \ {Pick(s)} \in SUBSET U /\ Cardinality(s \ {Pick(s)}) = Cardinality(s) - 1
    BY <1>1, <2>5, PickIn, FS_RemoveElement
  <2>7. F[s \ {Pick(s)}] # G[s \ {Pick(s)}]
    BY <2>2, <2>4, <2>5, <2>6 DEF Folded
  <2>8. Cardinality(s \ {Pick(s)}) \in Nat
    BY <1>1, <2>6
  <2>9. Cardinality(s \ {Pick(s)}) \in Bad
    BY <2>6, <2>7, <2>8
  <2>10. n \in Nat
    OBVIOUS
  <2> HIDE DEF Bad
  <2> QED BY <2>1, <2>2, <2>6, <2>8, <2>9, <2>10
<1> QED BY <1>1, <1>2

\* Any element may be taken out first.
AnyOrder(f, S, g) == \A x \in S : g[S] = f[x] + g[S \ {x}]

LEMMA IterRemoves ==
    ASSUME NEW S, IsFiniteSet(S), NEW f \in [S -> Int], NEW g \in [SUBSET S -> Int], IsSum(f, S, g)
    PROVE  AnyOrder(f, S, g)
<1> DEFINE Bad == {n \in Nat : \E s \in SUBSET S, y \in S :
                                   y \in s /\ Cardinality(s) = n /\ g[s] # f[y] + g[s \ {y}]}
<1>1. \A s \in SUBSET S : IsFiniteSet(s) /\ Cardinality(s) \in Nat
  BY FS_Subset, FS_CardinalityType
<1>2. Bad = {}
  <2> SUFFICES ASSUME Bad # {} PROVE FALSE
    OBVIOUS
  <2>1. PICK n \in Bad : \A m \in Bad : n <= m
    <3>1. Bad \in SUBSET Nat
      OBVIOUS
    <3> HIDE DEF Bad
    <3> QED BY <3>1, LeastNumber
  <2>2. PICK s \in SUBSET S, y \in S : y \in s /\ Cardinality(s) = n /\ g[s] # f[y] + g[s \ {y}]
    BY <2>1
  <2>3. PICK p \in s : p = Pick(s)
    BY <2>2, PickIn
  <2>4. g[s] = f[p] + g[s \ {p}]
    BY <2>2, <2>3 DEF IsSum, Folded
  <2>5. p # y
    BY <2>2, <2>4
  <2>6. /\ s \ {p} \in SUBSET S /\ Cardinality(s \ {p}) = n - 1
        /\ s \ {y} \in SUBSET S /\ Cardinality(s \ {y}) = n - 1 /\ n - 1 \in Nat
    <3> HIDE DEF Bad
    <3>1. IsFiniteSet(s) /\ Cardinality(s) \in Nat /\ y \in s /\ Cardinality(s) = n
      BY <1>1, <2>2
    <3>2. Cardinality(s \ {p}) = Cardinality(s) - 1 /\ Cardinality(s \ {y}) = Cardinality(s) - 1
      BY <3>1, FS_RemoveElement
    <3>3. s \ {p} \in SUBSET S /\ s \ {y} \in SUBSET S
      OBVIOUS
    <3>4. IsFiniteSet(s \ {p}) /\ Cardinality(s \ {p}) \in Nat
      BY <1>1, <3>3
    <3> QED BY <3>1, <3>2, <3>3, <3>4
  <2>7. n - 1 \notin Bad
    <3>1. n \in Nat
      OBVIOUS
    <3> HIDE DEF Bad
    <3> QED BY <2>1, <2>6, <3>1
  <2>8. ASSUME NEW t \in SUBSET S, NEW z \in S, z \in t, Cardinality(t) = n - 1
        PROVE  g[t] = f[z] + g[t \ {z}]
    BY <2>6, <2>7, <2>8
  <2>9. y \in S /\ y \in s \ {p} /\ p \in S /\ p \in s \ {y}
    BY <2>2, <2>5
  <2>12. g[s \ {p}] = f[y] + g[(s \ {p}) \ {y}] /\ g[s \ {y}] = f[p] + g[(s \ {y}) \ {p}]
    BY <2>6, <2>8, <2>9
  <2>10. (s \ {p}) \ {y} = (s \ {y}) \ {p} /\ (s \ {p}) \ {y} \in SUBSET S
    OBVIOUS
  <2>11. f[p] \in Int /\ f[y] \in Int /\ g[(s \ {p}) \ {y}] \in Int
    BY <2>10, <2>2, Applies
  <2> HIDE DEF Bad
  <2>13. PICK a \in Int, b \in Int, c \in Int : a = f[p] /\ b = f[y] /\ c = g[(s \ {p}) \ {y}]
    BY <2>11
  <2>14. g[s] = a + (b + c) /\ g[s] # b + (a + c)
    BY <2>2, <2>4, <2>10, <2>12, <2>13
  <2> QED BY <2>14
<1>3. Cardinality(S) \in Nat /\ S \in SUBSET S
  BY FS_CardinalityType
<1>4. Cardinality(S) \notin Bad
  BY <1>2
<1> QED BY <1>3, <1>4 DEF AnyOrder

\* Iter is such a solution.
LEMMA IterSums ==
    ASSUME NEW S, IsFiniteSet(S), NEW f \in [S -> Int]
    PROVE  IsSum(f, S, Iter(f, S)) /\ Iter(f, S) \in [SUBSET S -> Int]
<1>1. PICK g \in [SUBSET S -> Int] : IsSum(f, S, g)
  BY IterExists
<1>2. IsSum(f, S, Iter(f, S))
  BY <1>1 DEF Iter
<1>3. ASSUME NEW s \in SUBSET S PROVE Iter(f, S)[s] = g[s]
  <2>1. s \in SUBSET (S \cap S) /\ \A x \in s : f[x] = f[x]
    OBVIOUS
  <2> QED BY <1>1, <1>2, <2>1, IterUnique
<1>4. Iter(f, S) = [s \in SUBSET S |-> Folded(f, Iter(f, S), s)]
  BY <1>2 DEF IsSum
<1> QED BY <1>2, <1>3, <1>4

(* What the proofs use. *)
LEMMA TotalOfNone == ASSUME NEW f PROVE Total(f, {}) = 0
<1>1. PICK h \in [{} -> Int] : TRUE
  <2>1. [x \in {} |-> 0] \in [{} -> Int]
    OBVIOUS
  <2> QED BY <2>1
<1>2. \E g : IsSum(f, {}, g)
  <2> DEFINE g == [s \in SUBSET {} |-> 0]
  <2>1. g = [s \in SUBSET {} |-> Folded(f, g, s)]
    BY DEF Folded
  <2> QED BY <2>1 DEF IsSum
<1>3. IsSum(f, {}, Iter(f, {}))
  BY <1>2 DEF Iter
<1>4. Iter(f, {})[{}] = 0
  BY <1>3 DEF IsSum, Folded
<1> QED BY <1>4, TotalIsIter

LEMMA TotalSame ==
    ASSUME NEW S, IsFiniteSet(S), NEW f, NEW g, \A x \in S : f[x] = g[x] /\ f[x] \in Int
    PROVE  Total(f, S) = Total(g, S) /\ Total(f, S) \in Int
<1> DEFINE h == [x \in S |-> f[x]]
<1>1. h \in [S -> Int]
  OBVIOUS
<1>2. Iter(f, S) = Iter(h, S) /\ Iter(g, S) = Iter(h, S)
  <2>1. ASSUME NEW k, \A x \in S : k[x] = h[x], NEW i PROVE IsSum(k, S, i) <=> IsSum(h, S, i)
    <3>1. ASSUME NEW s \in SUBSET S PROVE Folded(k, i, s) = Folded(h, i, s)
      BY <2>1, PickIn DEF Folded
    <3> HIDE DEF h
    <3>2. [s \in SUBSET S |-> Folded(k, i, s)] = [s \in SUBSET S |-> Folded(h, i, s)]
      BY <3>1
    <3> QED BY <3>2 DEF IsSum
  <2> HIDE DEF h
  <2>2. ASSUME NEW k, \A x \in S : k[x] = h[x] PROVE Iter(k, S) = Iter(h, S)
    BY <2>1, <2>2 DEF Iter
  <2>3. (\A x \in S : f[x] = h[x]) /\ (\A x \in S : g[x] = h[x])
    BY DEF h
  <2> QED BY <2>2, <2>3
<1> HIDE DEF h
<1>3. Iter(h, S)[S] \in Int
  <2>1. S \in SUBSET S
    OBVIOUS
  <2>2. Iter(h, S) \in [SUBSET S -> Int]
    BY <1>1, IterSums
  <2> QED BY <2>1, <2>2, Applies
<1> QED BY <1>2, <1>3, TotalIsIter

LEMMA TotalAdds ==
    ASSUME NEW S, IsFiniteSet(S), NEW x, x \notin S, NEW f \in [S \cup {x} -> Int]
    PROVE  Total(f, S \cup {x}) = Total(f, S) + f[x]
<1> DEFINE T == S \cup {x}
           h == [y \in S |-> f[y]]
<1>1. IsFiniteSet(T)
  BY FS_AddElement
<1>2. h \in [S -> Int] /\ f \in [T -> Int]
  OBVIOUS
<1>3. T \ {x} = S /\ x \in T /\ S \in SUBSET (T \cap S) /\ \A y \in S : f[y] = h[y] /\ f[y] \in Int
  OBVIOUS
<1> HIDE DEF T, h
<1>4. IsSum(f, T, Iter(f, T)) /\ Iter(f, T) \in [SUBSET T -> Int]
  BY <1>1, <1>2, IterSums
<1>5. Iter(f, T)[T] = f[x] + Iter(f, T)[S]
  <2>1. Iter(f, T)[T] = f[x] + Iter(f, T)[T \ {x}]
    <3>1. AnyOrder(f, T, Iter(f, T))
      BY <1>1, <1>2, <1>4, IterRemoves
    <3> QED BY <1>3, <3>1 DEF AnyOrder
  <2> QED BY <1>3, <2>1
<1>6. IsSum(h, S, Iter(h, S)) /\ Iter(h, S) \in [SUBSET S -> Int]
  BY <1>2, IterSums
<1>7. Iter(f, T)[S] = Iter(h, S)[S]
  BY <1>1, <1>3, <1>4, <1>6, IterUnique
<1>8. Total(f, S) = Total(h, S)
  BY <1>3, TotalSame
<1>9. f[x] \in Int /\ Iter(h, S)[S] \in Int
  BY <1>2, <1>3, <1>6
<1> QED BY <1>5, <1>7, <1>8, <1>9, TotalIsIter DEF T

\* The same for a function with a larger domain.
LEMMA TotalGrows ==
    ASSUME NEW S, IsFiniteSet(S), NEW x, x \notin S, NEW f, \A y \in S \cup {x} : f[y] \in Int
    PROVE  Total(f, S \cup {x}) = Total(f, S) + f[x] /\ Total(f, S) \in Int
<1> DEFINE T == S \cup {x}
           h == [y \in T |-> f[y]]
<1>1. h \in [S \cup {x} -> Int] /\ \A y \in T : f[y] = h[y] /\ f[y] \in Int
  OBVIOUS
<1>2. IsFiniteSet(T) /\ x \in T /\ \A y \in S : y \in T
  BY FS_AddElement
<1> HIDE DEF h
<1>3. Total(h, S \cup {x}) = Total(h, S) + h[x]
  BY <1>1, TotalAdds
<1> HIDE DEF T
<1>4. Total(f, T) = Total(h, T)
  BY <1>1, <1>2, TotalSame
<1>5. Total(f, S) = Total(h, S) /\ Total(f, S) \in Int
  BY <1>1, <1>2, TotalSame
<1> QED BY <1>1, <1>2, <1>3, <1>4, <1>5 DEF T

\* One value grows by d.
Grows(f, g, S, x, d) ==
    /\ \A y \in S : f[y] \in Int /\ g[y] \in Int
    /\ \A y \in S \ {x} : f[y] = g[y]
    /\ x \in S /\ d \in Int /\ g[x] = f[x] + d

LEMMA TotalUpdated ==
    ASSUME NEW S, IsFiniteSet(S), NEW x, NEW f, NEW g, NEW d, Grows(f, g, S, x, d)
    PROVE  Total(g, S) = Total(f, S) + d
<1> USE DEF Grows
<1> DEFINE R == S \ {x}
<1>1. IsFiniteSet(R) /\ x \notin R /\ R \cup {x} = S /\ \A y \in R : y \in S
  BY FS_RemoveElement
<1>2. \A y \in R : f[y] = g[y]
  OBVIOUS
<1> HIDE DEF R
<1>3. Total(f, R \cup {x}) = Total(f, R) + f[x] /\ Total(f, R) \in Int
  BY <1>1, TotalGrows
<1>4. Total(g, R \cup {x}) = Total(g, R) + g[x]
  BY <1>1, TotalGrows
<1>5. Total(f, R) = Total(g, R)
  BY <1>1, <1>2, TotalSame
<1>6. /\ Total(f, S) = Total(f, R) + f[x] /\ Total(g, S) = Total(f, R) + (f[x] + d)
      /\ f[x] \in Int /\ Total(f, R) \in Int
  <2>1. Total(f, S) = Total(f, R) + f[x] /\ Total(g, S) = Total(g, R) + g[x]
    BY <1>1, <1>3, <1>4
  <2> QED BY <1>3, <1>5, <2>1
<1> QED BY <1>6

\* The sums of the model.
LEMMA TotalOfAmounts ==
    ASSUME NEW v, NEW D, NEW S \in SUBSET D
    PROVE  MapThenSumSet(LAMBDA e : v[e].amount, S) = Total([e \in D |-> v[e].amount], S)
<1> DEFINE h == [e \in D |-> v[e].amount]
           F(i, s) == IF s = {} THEN 0 ELSE v[Pick(s)].amount + i[s \ {Pick(s)}]
           IsIt(i) == i = [s \in SUBSET S |-> F(i, s)]
<1>1. MapThenSumSet(LAMBDA e : v[e].amount, S) = (CHOOSE i : IsIt(i))[S]
  BY DEF MapThenSumSet, MapThenFoldSet, Pick
<1>2. ASSUME NEW i, NEW s \in SUBSET S PROVE F(i, s) = Folded(h, i, s)
  BY PickIn DEF Folded
<1> HIDE DEF F, h
<1>3. ASSUME NEW i PROVE IsIt(i) <=> IsSum(h, S, i)
  BY <1>2 DEF IsSum
<1> HIDE DEF IsIt
<1>4. (CHOOSE i : IsIt(i)) = Iter(h, S)
  BY <1>3 DEF Iter
<1> QED BY <1>1, <1>4, TotalIsIter DEF h

LEMMA TotalOfBytes ==
    ASSUME NEW v, NEW S
    PROVE  MapThenSumSet(LAMBDA m : v[m].bytes, S) = Total([m \in S |-> v[m].bytes], S)
<1> DEFINE h == [m \in S |-> v[m].bytes]
           F(i, s) == IF s = {} THEN 0 ELSE v[Pick(s)].bytes + i[s \ {Pick(s)}]
           IsIt(i) == i = [s \in SUBSET S |-> F(i, s)]
<1>1. MapThenSumSet(LAMBDA m : v[m].bytes, S) = (CHOOSE i : IsIt(i))[S]
  BY DEF MapThenSumSet, MapThenFoldSet, Pick
<1>2. ASSUME NEW i, NEW s \in SUBSET S PROVE F(i, s) = Folded(h, i, s)
  BY PickIn DEF Folded
<1> HIDE DEF F, h
<1>3. ASSUME NEW i PROVE IsIt(i) <=> IsSum(h, S, i)
  BY <1>2 DEF IsSum
<1> HIDE DEF IsIt
<1>4. (CHOOSE i : IsIt(i)) = Iter(h, S)
  BY <1>3 DEF Iter
<1> QED BY <1>1, <1>4, TotalIsIter DEF h

-----------------------------------------------------------------------------
(***************************************************************************)
(* Usage is exact.  What makes it so is in the transactions: two that are  *)
(* open insert different events that nobody recorded, and of two that have *)
(* upserted each has a row of its own, so the row it will write is still   *)
(* the committed one with its event added.  What was recorded is final.    *)
(***************************************************************************)
Open(w) == call[w].pc \in {"upsert", "commit"}

Transactions ==
    /\ \A w \in Workers : Open(w) => call[w].event \notin recorded
    /\ \A v, w \in Workers : Open(v) /\ Open(w) /\ v # w => call[v].event # call[w].event
    /\ \A v, w \in Workers : call[v].pc = "commit" /\ call[w].pc = "commit" /\ v # w
                             => event[call[v].event].month # event[call[w].event].month
    /\ \A w \in Workers : call[w].pc = "commit"
           => call[w].row = Added(rollup[event[call[w].event].month], event[call[w].event])

RecordedIsFinal ==
    recorded \subseteq {e \in Events : event[e].stage = "published" /\ WellFormed(event[e])}

\* What was drawn and not used says nothing.
FreeIsUnused == \A e \in Events : event[e].stage = "free" => event[e] = Unused

Books == Transactions /\ RecordedIsFinal /\ FreeIsUnused

\* What a step does to the books.
Publishing ==
    /\ UNCHANGED <<call, recorded, rollup>>
    /\ \A e \in Events : event[e].stage = "published" => event'[e] = event[e]
    /\ \A e \in Events : event'[e].stage = "free" => event[e].stage = "free" /\ event'[e] = event[e]

\* One process goes on, and adds nothing.
Handling(w) ==
    /\ UNCHANGED <<event, recorded, rollup>>
    /\ \E c \in Calls :
         /\ call' = [call EXCEPT ![w] = c]
         /\ \/ c.pc \notin {"upsert", "commit"}
            \/ /\ c.pc = "upsert" /\ c.event \in Events \ recorded
               /\ \A v \in Workers : Open(v) => call[v].event # c.event
            \/ /\ c.pc = "commit" /\ call[w].pc = "upsert" /\ c.event = call[w].event
               /\ \A v \in Workers : call[v].pc = "commit"
                                     => event[call[v].event].month # event[c.event].month
               /\ c.row = Added(rollup[event[c.event].month], event[c.event])

\* One process commits.
Counting(w) ==
    /\ UNCHANGED event /\ call[w].pc = "commit"
    /\ \E c \in Calls : call' = [call EXCEPT ![w] = c] /\ c.pc \notin {"upsert", "commit"}
    /\ Commits(w)

LEMMA StepsOfBooks ==
    ASSUME MeteringAssumption, Inv, [Next]_vars
    PROVE  Publishing \/ \E w \in Workers : Handling(w) \/ Counting(w)
<1>0. event \in [Events -> Payloads] /\ call \in [Workers -> Calls] /\ Idle \in Calls /\ Idle.pc = "idle"
  BY DEF Inv, Typed, Idle, Calls
<1>1. ASSUME NEW e \in Events, NEW v, v.stage # "free", event[e].stage # "published",
             event' = [event EXCEPT ![e] = v], UNCHANGED <<call, recorded, rollup>>
      PROVE  Publishing
  BY <1>0, <1>1 DEF Publishing
<1>2. ASSUME UNCHANGED <<event, call, recorded, rollup>> PROVE Publishing
  BY <1>2 DEF Publishing
<1>3. ASSUME NEW e \in Events,
             \/ \E size \in Sizes : AdmitUpload(e, size)
             \/ AdmitJob(e) \/ Publish(e) \/ PublishMalformed(e)
             \/ \E f \in Events : CompleteAgain(e, f)
      PROVE  Publishing
  <2>1. ASSUME NEW size \in Sizes, AdmitUpload(e, size) PROVE Publishing
    <3> DEFINE v == [Unused EXCEPT !.stage = "admitted", !.amount = size, !.kind = "upload_completed"]
    <3>1. v.stage # "free"
      BY DEF Unused
    <3>2. /\ event' = [event EXCEPT ![e] = v] /\ event[e].stage # "published"
          /\ UNCHANGED <<call, recorded, rollup>>
      BY <2>1 DEF AdmitUpload, Fresh, tables
    <3> HIDE DEF v
    <3> QED BY <1>1, <3>1, <3>2
  <2>2. CASE AdmitJob(e)
    <3> DEFINE v == [Unused EXCEPT !.stage = "admitted", !.kind = "job_ended"]
    <3>1. v.stage # "free"
      BY DEF Unused
    <3>2. /\ event' = [event EXCEPT ![e] = v] /\ event[e].stage # "published"
          /\ UNCHANGED <<call, recorded, rollup>>
      BY <2>2 DEF AdmitJob, Fresh, tables
    <3> HIDE DEF v
    <3> QED BY <1>1, <3>1, <3>2
  <2>3. CASE Publish(e)
    <3>1. PICK n : event' = [event EXCEPT ![e] = [event[e] EXCEPT !.stage = "published", !.amount = n,
                                                                  !.month = month]]
      BY <2>3 DEF Publish
    <3> DEFINE v == [event[e] EXCEPT !.stage = "published", !.amount = n, !.month = month]
    <3>2. v.stage # "free"
      BY <1>0 DEF Payloads
    <3>3. event[e].stage # "published" /\ UNCHANGED <<call, recorded, rollup>>
      BY <2>3 DEF Publish, tables
    <3>4. event' = [event EXCEPT ![e] = v]
      BY <3>1
    <3> HIDE DEF v
    <3> QED BY <1>1, <3>2, <3>3, <3>4
  <2>4. CASE PublishMalformed(e)
    <3> DEFINE v == [stage |-> "published", kind |-> "upload_completed", amount |-> -1, month |-> month]
    <3>1. v.stage # "free"
      OBVIOUS
    <3>2. /\ event' = [event EXCEPT ![e] = v] /\ event[e].stage # "published"
          /\ UNCHANGED <<call, recorded, rollup>>
      BY <2>4 DEF PublishMalformed, Fresh, tables
    <3> HIDE DEF v
    <3> QED BY <1>1, <3>1, <3>2
  <2>5. ASSUME NEW f \in Events, CompleteAgain(e, f) PROVE Publishing
    <3> DEFINE v == [event[e] EXCEPT !.month = month]
    <3>1. v.stage # "free"
      BY <1>0, <2>5 DEF Payloads, CompleteAgain
    <3>2. /\ event' = [event EXCEPT ![f] = v] /\ event[f].stage # "published"
          /\ UNCHANGED <<call, recorded, rollup>>
      BY <2>5 DEF CompleteAgain, Fresh, tables
    <3> HIDE DEF v
    <3> QED BY <1>1, <3>1, <3>2
  <2> QED BY <1>3, <2>1, <2>2, <2>3, <2>4, <2>5
<1>4. ASSUME NEW e \in Events, PublishAgain(e) \/ AckWaitEnds(e) PROVE Publishing
  BY <1>2, <1>4 DEF PublishAgain, AckWaitEnds, tables
<1>5. CASE NextMonth \/ UNCHANGED vars
  BY <1>2, <1>5 DEF NextMonth, vars, tables
<1>6. ASSUME NEW w \in Workers, AckWaitTooShort(w) PROVE Publishing
  BY <1>2, <1>6 DEF AckWaitTooShort, tables
<1>7. ASSUME NEW w \in Workers, NEW c \in Calls, call' = [call EXCEPT ![w] = c],
             c.pc \notin {"upsert", "commit"}, UNCHANGED <<event, recorded, rollup>>
      PROVE  Handling(w)
  BY <1>7 DEF Handling
<1>8. ASSUME NEW w \in Workers, NEW e \in Events, Deliver(w, e) PROVE Handling(w)
  <2> DEFINE c == [Idle EXCEPT !.pc = "parse", !.event = e]
  <2>1. c \in Calls /\ c.pc = "parse"
    BY <1>0 DEF Calls
  <2>2. call' = [call EXCEPT ![w] = c] /\ UNCHANGED <<event, recorded, rollup>>
    BY <1>8 DEF Deliver, tables
  <2> HIDE DEF c
  <2> QED BY <1>7, <2>1, <2>2
<1>9. ASSUME NEW w \in Workers, Terminate(w) \/ Ack(w) \/ Nak(w) \/ Crash(w) PROVE Handling(w)
  <2>1. Return(w) /\ UNCHANGED <<event, recorded, rollup>>
    BY <1>9 DEF Terminate, Ack, Nak, Crash, tables
  <2> QED BY <1>0, <1>7, <2>1 DEF Return
<1>10. ASSUME NEW w \in Workers, NEW pc \in {"upsert", "ack", "nak"}, Goto(w, pc), call[w].pc # "idle"
       PROVE  \E c \in Calls : /\ call' = [call EXCEPT ![w] = c] /\ c.event = call[w].event /\ c.pc = pc
                               /\ c.event \in Events
  <2> DEFINE c == [call[w] EXCEPT !.pc = pc, !.row = None]
  <2>1. call[w].event \in Events
    BY <1>0, <1>10, Carried
  <2>2. c \in Calls /\ c.event = call[w].event /\ c.pc = pc /\ c.event \in Events
    BY <1>0, <1>10, <2>1 DEF Calls
  <2> QED BY <1>10, <2>2 DEF Goto
<1>11. ASSUME NEW w \in Workers, InsertEvent(w) PROVE Handling(w)
  <2> DEFINE pc == IF call[w].event \in recorded THEN "ack" ELSE "upsert"
  <2>1. /\ Goto(w, pc) /\ pc \in {"upsert", "ack", "nak"} /\ call[w].pc # "idle"
        /\ pc = "upsert" => call[w].event \notin recorded
        /\ pc # "commit"
        /\ \A v \in Workers : Open(v) => call[v].event # call[w].event
        /\ UNCHANGED <<event, recorded, rollup>>
    BY <1>11 DEF InsertEvent, tables, Open
  <2> HIDE DEF pc
  <2>2. PICK c \in Calls : /\ call' = [call EXCEPT ![w] = c] /\ c.event = call[w].event /\ c.pc = pc
                           /\ c.event \in Events
    BY <1>10, <2>1
  <2> QED BY <2>1, <2>2 DEF Handling
<1>12. ASSUME NEW w \in Workers, UpsertRollup(w) PROVE Handling(w)
  <2> DEFINE v == event[call[w].event]
             row == Added(rollup[v.month], v)
             c == [call[w] EXCEPT !.pc = "commit", !.row = row]
  <2>1. /\ call[w].pc = "upsert" /\ call' = [call EXCEPT ![w] = c] /\ UNCHANGED <<event, recorded, rollup>>
        /\ \A u \in Workers : call[u].pc = "commit" => event[call[u].event].month # v.month
    BY <1>12 DEF UpsertRollup, tables
  <2>2. c.pc = "commit" /\ c.event = call[w].event /\ c.row = row
    BY <1>0 DEF Calls
  <2>3. row \in Rows
    <3>1. rollup[v.month] \in Rows /\ v.amount \in Nat /\ WellFormed(v)
      BY <1>0, <2>1, Carried DEF Inv, Typed, CountedIsWellFormed, WellFormed, Payloads, Idle
    <3> DEFINE r == rollup[v.month]
    <3>2. r.bytes + v.amount \in Nat /\ r.seconds + v.amount \in Nat
      BY <3>1 DEF Rows
    <3>3. CASE v.kind = "upload_completed"
      BY <3>1, <3>2, <3>3 DEF Added, Rows
    <3>4. CASE v.kind = "job_ended"
      BY <3>1, <3>2, <3>4 DEF Added, Rows
    <3> QED BY <3>1, <3>3, <3>4 DEF WellFormed
  <2> HIDE DEF row
  <2>4. c \in Calls
    BY <1>0, <2>3 DEF Calls
  <2> HIDE DEF c
  <2>5. /\ call' = [call EXCEPT ![w] = c] /\ c.pc = "commit" /\ call[w].pc = "upsert"
        /\ c.event = call[w].event
        /\ \A u \in Workers : call[u].pc = "commit" => event[call[u].event].month # event[c.event].month
        /\ c.row = Added(rollup[event[c.event].month], event[c.event])
    BY <2>1, <2>2 DEF row
  <2> QED BY <2>1, <2>4, <2>5 DEF Handling
<1>13. ASSUME NEW w \in Workers, Commit(w) PROVE Counting(w)
  <2>1. Goto(w, "ack") /\ call[w].pc = "commit" /\ UNCHANGED event /\ Commits(w)
    BY <1>13 DEF Commit
  <2> QED BY <1>10, <2>1 DEF Counting
<1>14. ASSUME NEW w \in Workers, ApplyFails(w) PROVE Handling(w) \/ Counting(w)
  <2>1. /\ Goto(w, "nak") /\ UNCHANGED event /\ call[w].pc # "idle"
        /\ UNCHANGED <<recorded, rollup>> \/ (call[w].pc = "commit" /\ Commits(w))
    BY <1>14 DEF ApplyFails, tables
  <2>2. PICK c \in Calls : call' = [call EXCEPT ![w] = c] /\ c.pc = "nak"
    BY <1>10, <2>1
  <2> QED BY <1>7, <2>1, <2>2 DEF Counting
<1> QED BY <1>3, <1>4, <1>5, <1>6, <1>8, <1>9, <1>11, <1>12, <1>13, <1>14 DEF Next, Handle

\* The books stay in order.
LEMMA BooksKept ==
    ASSUME MeteringAssumption, Inv, Inv', Books, [Next]_vars
    PROVE  Books'
<1>0. /\ event \in [Events -> Payloads] /\ call \in [Workers -> Calls]
      /\ recorded \subseteq Events
      /\ \A w \in Workers : call[w].pc # "idle" => /\ call[w].event \in Events
                                                   /\ event[call[w].event].stage = "published"
  BY Carried DEF Inv, Typed, Books, RecordedIsFinal, Idle
<1>1. CASE Publishing
  <2>1. ASSUME NEW w \in Workers, call[w].pc # "idle"
        PROVE  event'[call[w].event] = event[call[w].event]
    BY <1>0, <1>1, <2>1 DEF Publishing
  <2>2. Transactions'
    <3>1. /\ \A w \in Workers : Open(w)' => call'[w].event \notin recorded'
          /\ \A v, w \in Workers : Open(v)' /\ Open(w)' /\ v # w => call'[v].event # call'[w].event
      BY <1>1 DEF Publishing, Books, Transactions, Open
    <3>2. ASSUME NEW v \in Workers, NEW w \in Workers, call[v].pc = "commit", call[w].pc = "commit", v # w
          PROVE  event'[call[v].event].month # event'[call[w].event].month
      <4>1. event'[call[v].event] = event[call[v].event] /\ event'[call[w].event] = event[call[w].event]
        BY <2>1, <3>2
      <4> QED BY <3>2, <4>1 DEF Books, Transactions
    <3>3. ASSUME NEW w \in Workers, call[w].pc = "commit"
          PROVE  call[w].row = Added(rollup[event'[call[w].event].month], event'[call[w].event])
      <4>1. event'[call[w].event] = event[call[w].event]
        BY <2>1, <3>3
      <4> QED BY <3>3, <4>1 DEF Books, Transactions
    <3>4. call' = call /\ rollup' = rollup
      BY <1>1 DEF Publishing
    <3> QED BY <3>1, <3>2, <3>3, <3>4 DEF Transactions, Open, Added
  <2>3. RecordedIsFinal'
    BY <1>1 DEF Publishing, Books, RecordedIsFinal, WellFormed
  <2>4. FreeIsUnused'
    BY <1>1 DEF Publishing, Books, FreeIsUnused, Unused
  <2> QED BY <2>2, <2>3, <2>4 DEF Books
<1>2. ASSUME NEW w \in Workers, Handling(w) PROVE Books'
  <2>1. PICK c \in Calls :
           /\ call' = [call EXCEPT ![w] = c]
           /\ \/ c.pc \notin {"upsert", "commit"}
              \/ /\ c.pc = "upsert" /\ c.event \in Events \ recorded
                 /\ \A v \in Workers : Open(v) => call[v].event # c.event
              \/ /\ c.pc = "commit" /\ call[w].pc = "upsert" /\ c.event = call[w].event
                 /\ \A v \in Workers : call[v].pc = "commit"
                                       => event[call[v].event].month # event[c.event].month
                 /\ c.row = Added(rollup[event[c.event].month], event[c.event])
    BY <1>2 DEF Handling
  <2>2. event' = event /\ recorded' = recorded /\ rollup' = rollup
    BY <1>2 DEF Handling
  <2>3. call'[w] = c /\ \A v \in Workers \ {w} : call'[v] = call[v]
    BY <1>0, <2>1
  <2>4. ASSUME NEW v \in Workers, call'[v].pc \in {"upsert", "commit"} PROVE call'[v].event \notin recorded
    BY <2>1, <2>3, <2>4 DEF Books, Transactions, Open
  <2>5. ASSUME NEW v \in Workers \ {w}, Open(v), c.pc \in {"upsert", "commit"}
        PROVE  call[v].event # c.event
    BY <2>1, <2>5 DEF Books, Transactions, Open
  <2>6. ASSUME NEW u \in Workers, NEW v \in Workers, u # v,
               call'[u].pc \in {"upsert", "commit"}, call'[v].pc \in {"upsert", "commit"}
        PROVE  call'[u].event # call'[v].event
    <3>1. CASE u # w /\ v # w
      BY <2>3, <2>6, <3>1 DEF Books, Transactions, Open
    <3>2. CASE u = w
      BY <2>3, <2>5, <2>6, <3>2 DEF Open
    <3>3. CASE v = w
      BY <2>3, <2>5, <2>6, <3>3 DEF Open
    <3> QED BY <3>1, <3>2, <3>3
  <2>7. ASSUME NEW v \in Workers \ {w}, call[v].pc = "commit", c.pc = "commit"
        PROVE  event[call[v].event].month # event[c.event].month
    BY <2>1, <2>7
  <2>8. ASSUME NEW u \in Workers, NEW v \in Workers, u # v, call'[u].pc = "commit", call'[v].pc = "commit"
        PROVE  event[call'[u].event].month # event[call'[v].event].month
    <3>1. CASE u # w /\ v # w
      BY <2>3, <2>8, <3>1 DEF Books, Transactions
    <3>2. CASE u = w
      BY <2>3, <2>7, <2>8, <3>2
    <3>3. CASE v = w
      BY <2>3, <2>7, <2>8, <3>3
    <3> QED BY <3>1, <3>2, <3>3
  <2>9. ASSUME NEW v \in Workers, call'[v].pc = "commit"
        PROVE  call'[v].row = Added(rollup[event[call'[v].event].month], event[call'[v].event])
    <3>1. CASE v = w
      BY <2>1, <2>3, <2>9, <3>1
    <3>2. CASE v # w
      BY <2>3, <2>9, <3>2 DEF Books, Transactions
    <3> QED BY <3>1, <3>2
  <2>10. Transactions'
    BY <2>2, <2>4, <2>6, <2>8, <2>9 DEF Transactions, Open, Added
  <2> QED BY <2>2, <2>10 DEF Books, RecordedIsFinal, FreeIsUnused, WellFormed, Unused
<1>3. ASSUME NEW w \in Workers, Counting(w) PROVE Books'
  <2>1. PICK c \in Calls : call' = [call EXCEPT ![w] = c] /\ c.pc \notin {"upsert", "commit"}
    BY <1>3 DEF Counting
  <2>2. PICK e \in Events : e = call[w].event
    BY <1>0, <1>3 DEF Counting
  <2>3. /\ event' = event /\ recorded' = recorded \cup {e} /\ call[w].pc = "commit"
        /\ rollup' = [rollup EXCEPT ![event[e].month] = call[w].row]
    BY <1>3, <2>2 DEF Counting, Commits
  <2>4. call'[w] = c /\ \A v \in Workers \ {w} : call'[v] = call[v]
    BY <1>0, <2>1
  <2>5. ASSUME NEW v \in Workers, call'[v].pc \in {"upsert", "commit"}
        PROVE  v # w /\ call'[v] = call[v] /\ call[v].event \notin recorded' /\ call[v].event \in Events
    BY <1>0, <2>1, <2>2, <2>3, <2>4, <2>5 DEF Books, Transactions, Open
  <2>6. ASSUME NEW v \in Workers, call'[v].pc = "commit"
        PROVE  /\ call'[v] = call[v]
               /\ rollup'[event[call[v].event].month] = rollup[event[call[v].event].month]
    <3>1. v # w /\ call'[v] = call[v] /\ call[v].event \in Events
      BY <2>5, <2>6
    <3>2. event[call[v].event].month # event[e].month
      BY <2>2, <2>3, <2>6, <3>1 DEF Books, Transactions
    <3>3. event[call[v].event].month \in Months /\ rollup \in [Months -> Rows]
      BY <1>0, <3>1 DEF Payloads, Inv, Typed
    <3> QED BY <2>3, <3>1, <3>2, <3>3
  <2>7. ASSUME NEW v \in Workers, call'[v].pc = "commit"
        PROVE  call'[v].row = Added(rollup'[event[call'[v].event].month], event[call'[v].event])
    BY <2>6, <2>7 DEF Books, Transactions
  <2>8. Transactions'
    <3>1. ASSUME NEW u \in Workers, NEW v \in Workers, u # v,
                 call'[u].pc \in {"upsert", "commit"}, call'[v].pc \in {"upsert", "commit"}
          PROVE  call'[u].event # call'[v].event
      <4>1. call'[u] = call[u] /\ call'[v] = call[v]
        BY <2>5, <3>1
      <4> QED BY <3>1, <4>1 DEF Books, Transactions, Open
    <3>2. ASSUME NEW u \in Workers, NEW v \in Workers, u # v, call'[u].pc = "commit", call'[v].pc = "commit"
          PROVE  event[call'[u].event].month # event[call'[v].event].month
      BY <2>6, <3>2 DEF Books, Transactions
    <3>3. ASSUME NEW v \in Workers, call'[v].pc \in {"upsert", "commit"} PROVE call'[v].event \notin recorded'
      BY <2>5, <3>3
    <3>4. event' = event
      BY <2>3
    <3> QED BY <2>7, <3>1, <3>2, <3>3, <3>4 DEF Transactions, Open, Added
  <2>9. event[e].stage = "published" /\ WellFormed(event[e])
    BY <1>0, <2>2, <2>3 DEF Inv, CountedIsWellFormed
  <2>10. RecordedIsFinal'
    BY <2>3, <2>9 DEF Books, RecordedIsFinal, WellFormed
  <2> QED BY <2>3, <2>8, <2>10 DEF Books, FreeIsUnused, Unused
<1> QED BY <1>1, <1>2, <1>3, StepsOfBooks

LEMMA BooksInOrder == Spec => []Books
<1>1. Init => Books
  <2> SUFFICES ASSUME Init PROVE Books
    OBVIOUS
  <2>1. \A w \in Workers : call[w].pc = "idle"
    BY DEF Init, Idle
  <2> QED BY <2>1 DEF Init, Books, Transactions, Open, RecordedIsFinal, FreeIsUnused
<1>2. Inv /\ Inv' /\ Books /\ [Next]_vars => Books'
  BY MeteringAssumption, BooksKept
<1> QED BY <1>1, <1>2, InvHolds, PTL DEF Spec

\* What the books say a month used.
Amounts(v) == [e \in Events |-> v[e].amount]
Of(v, R, k, m) == {e \in R : v[e].kind = k /\ v[e].month = m}
Exact(v, R, m, row) ==
    /\ row.bytes = Total(Amounts(v), Of(v, R, "upload_completed", m))
    /\ row.seconds = Total(Amounts(v), Of(v, R, "job_ended", m))

LEMMA ExactForm ==
    ASSUME recorded \subseteq Events
    PROVE  UsageIsExact <=> \A m \in Months : Exact(event, recorded, m, rollup[m])
<1>1. ASSUME NEW m \in Months, NEW k
      PROVE  MapThenSumSet(LAMBDA e : event[e].amount, {e \in recorded : event[e].kind = k /\ event[e].month = m})
               = Total(Amounts(event), Of(event, recorded, k, m))
  <2> DEFINE S == {e \in recorded : event[e].kind = k /\ event[e].month = m}
  <2>1. S \in SUBSET Events
    OBVIOUS
  <2> HIDE DEF S
  <2>2. MapThenSumSet(LAMBDA e : event[e].amount, S) = Total(Amounts(event), S)
    BY <2>1, TotalOfAmounts DEF Amounts
  <2> QED BY <2>2 DEF S, Of
<1> QED BY <1>1 DEF UsageIsExact, Exact

\* Events that are recorded again say the same, and change no sum.
LEMMA ExactSame ==
    ASSUME MeteringAssumption, NEW v \in [Events -> Payloads], NEW u \in [Events -> Payloads],
           NEW R \in SUBSET Events, \A e \in R : u[e] = v[e], NEW m, NEW row, Exact(v, R, m, row)
    PROVE  Exact(u, R, m, row)
<1>1. ASSUME NEW k PROVE Total(Amounts(u), Of(u, R, k, m)) = Total(Amounts(v), Of(v, R, k, m))
  <2> DEFINE S == Of(v, R, k, m)
  <2>1. Of(u, R, k, m) = S /\ S \in SUBSET Events /\ \A e \in S : e \in R
    BY DEF Of
  <2>2. IsFiniteSet(S)
    <3> HIDE DEF S
    <3> QED BY <2>1, FS_Subset DEF MeteringAssumption
  <2>3. \A e \in S : Amounts(v)[e] = Amounts(u)[e] /\ Amounts(v)[e] \in Int
    <3> HIDE DEF S
    <3> QED BY <2>1 DEF Amounts, Payloads
  <2> HIDE DEF S
  <2>4. Total(Amounts(v), S) = Total(Amounts(u), S)
    BY <2>2, <2>3, TotalSame
  <2> QED BY <2>1, <2>4 DEF S
<1> QED BY <1>1 DEF Exact

\* An event that was not recorded is added to the sums of its month only.
LEMMA ExactAdds ==
    ASSUME MeteringAssumption, NEW v \in [Events -> Payloads], NEW R \in SUBSET Events,
           NEW e \in Events \ R, WellFormed(v[e]), NEW m, NEW row \in Rows, Exact(v, R, m, row)
    PROVE  /\ v[e].month = m => Exact(v, R \cup {e}, m, Added(row, v[e]))
           /\ v[e].month # m => Exact(v, R \cup {e}, m, row)
<1>1. ASSUME NEW k
      PROVE  /\ v[e].month = m /\ v[e].kind = k
                => Total(Amounts(v), Of(v, R \cup {e}, k, m))
                     = Total(Amounts(v), Of(v, R, k, m)) + v[e].amount
             /\ v[e].month # m \/ v[e].kind # k => Of(v, R \cup {e}, k, m) = Of(v, R, k, m)
  <2> DEFINE S == Of(v, R, k, m)
  <2>1. CASE v[e].month = m /\ v[e].kind = k
    <3>1. Of(v, R \cup {e}, k, m) = S \cup {e} /\ S \in SUBSET Events /\ e \notin S
      BY <2>1 DEF Of
    <3> HIDE DEF S
    <3>2. IsFiniteSet(S)
      BY <3>1, FS_Subset DEF MeteringAssumption
    <3>3. \A f \in S \cup {e} : Amounts(v)[f] \in Int
      BY <3>1 DEF Amounts, Payloads
    <3>4. Total(Amounts(v), S \cup {e}) = Total(Amounts(v), S) + Amounts(v)[e]
      BY <3>1, <3>2, <3>3, TotalGrows
    <3> QED BY <2>1, <3>1, <3>4 DEF S, Amounts
  <2>2. CASE v[e].month # m \/ v[e].kind # k
    BY <2>2 DEF Of
  <2> QED BY <2>1, <2>2
<1>2. v[e].kind \in {"upload_completed", "job_ended"}
  BY DEF WellFormed
<1>3. /\ Added(row, v[e]).bytes = IF v[e].kind = "upload_completed" THEN row.bytes + v[e].amount ELSE row.bytes
      /\ Added(row, v[e]).seconds = IF v[e].kind = "job_ended" THEN row.seconds + v[e].amount ELSE row.seconds
  BY DEF Added, Rows
<1> QED BY <1>1, <1>2, <1>3 DEF Exact

\* The rollup of every month is the sum of the recorded events dated in it, for
\* any number of events, processes, months and failures: redelivery, parallel
\* deliveries, a COMMIT whose answer is lost and a late event each add what they
\* should, once (ApplyMetering).
THEOREM UsageHolds == Spec => []UsageIsExact
<1>1. Init => UsageIsExact
  <2> SUFFICES ASSUME Init PROVE UsageIsExact
    OBVIOUS
  <2>1. recorded = {} /\ \A m \in Months : rollup[m].bytes = 0 /\ rollup[m].seconds = 0
    BY DEF Init
  <2>2. ASSUME NEW k, NEW m PROVE Of(event, recorded, k, m) = {}
    BY <2>1 DEF Of
  <2>3. ASSUME NEW m \in Months PROVE Exact(event, recorded, m, rollup[m])
    BY <2>1, <2>2, TotalOfNone DEF Exact
  <2> QED BY <2>1, <2>3, ExactForm
<1>2. Inv /\ Inv' /\ Books /\ Books' /\ UsageIsExact /\ [Next]_vars => UsageIsExact'
  <2> SUFFICES ASSUME Inv, Inv', Books, Books', UsageIsExact, [Next]_vars PROVE UsageIsExact'
    OBVIOUS
  <2>0. /\ event \in [Events -> Payloads] /\ event' \in [Events -> Payloads]
        /\ recorded \in SUBSET Events /\ recorded' \in SUBSET Events /\ rollup \in [Months -> Rows]
    BY DEF Inv, Typed, Books, RecordedIsFinal
  <2>1. ASSUME NEW m \in Months PROVE Exact(event, recorded, m, rollup[m])
    BY <2>0, <2>1, ExactForm
  <2> SUFFICES ASSUME NEW m \in Months PROVE Exact(event', recorded', m, rollup'[m])
    <3>1. (recorded \subseteq Events)'
      BY <2>0
    <3>2. ASSUME (recorded \subseteq Events)'
          PROVE  (UsageIsExact <=> \A m \in Months : Exact(event, recorded, m, rollup[m]))'
      BY <3>2, ExactForm, PTL
    <3> QED BY <3>1, <3>2 DEF Months
  <2>2. CASE UNCHANGED <<recorded, rollup>> /\ \A e \in recorded : event'[e] = event[e]
    <3>1. Exact(event, recorded, m, rollup[m])
      BY <2>1
    <3>2. \A e \in recorded : event'[e] = event[e]
      BY <2>2
    <3>3. Exact(event', recorded, m, rollup[m])
      BY <2>0, <3>1, <3>2, MeteringAssumption, ExactSame
    <3> QED BY <2>2, <3>3
  <2>3. ASSUME NEW w \in Workers, Counting(w) PROVE Exact(event', recorded', m, rollup'[m])
    <3>1. PICK e \in Events : e = call[w].event
      BY <2>3, Carried, MeteringAssumption DEF Counting, Idle
    <3>2. e \notin recorded /\ WellFormed(event[e]) /\ call[w].row = Added(rollup[event[e].month], event[e])
      BY <2>3, <3>1 DEF Counting, Books, Transactions, Open, Inv, CountedIsWellFormed
    <3>3. /\ event' = event /\ recorded' = recorded \cup {e}
          /\ rollup' = [rollup EXCEPT ![event[e].month] = Added(rollup[event[e].month], event[e])]
      BY <2>3, <3>1, <3>2 DEF Counting, Commits
    <3>4. rollup[m] \in Rows /\ Exact(event, recorded, m, rollup[m])
      BY <2>0, <2>1
    <3>5. /\ event[e].month = m => Exact(event, recorded \cup {e}, m, Added(rollup[m], event[e]))
          /\ event[e].month # m => Exact(event, recorded \cup {e}, m, rollup[m])
      BY <2>0, <3>2, <3>4, MeteringAssumption, ExactAdds
    <3>6. /\ event[e].month = m => rollup'[m] = Added(rollup[m], event[e])
          /\ event[e].month # m => rollup'[m] = rollup[m]
      BY <2>0, <3>3
    <3> QED BY <3>3, <3>5, <3>6
  <2>4. CASE Publishing
    BY <2>2, <2>4 DEF Publishing, Books, RecordedIsFinal
  <2>5. ASSUME NEW w \in Workers, Handling(w) PROVE Exact(event', recorded', m, rollup'[m])
    BY <2>2, <2>5 DEF Handling
  <2> QED BY <2>3, <2>4, <2>5, MeteringAssumption, StepsOfBooks
<1> QED BY <1>1, <1>2, InvHolds, BooksInOrder, PTL DEF Spec

-----------------------------------------------------------------------------
(***************************************************************************)
(* How soft the storage quota is.  Both sums are brought to a form in      *)
(* which a step changes one term: the bytes of a month, or what one event  *)
(* has still to contribute.                                                *)
(***************************************************************************)

\* Terms that are zero do not count.
LEMMA TotalOfRest ==
    ASSUME NEW S, IsFiniteSet(S), NEW T \in SUBSET S, NEW f, \A x \in S : f[x] \in Int,
           \A x \in S \ T : f[x] = 0
    PROVE  Total(f, S) = Total(f, T)
<1> DEFINE Bad == {n \in Nat : \E U \in SUBSET S : /\ T \subseteq U /\ Cardinality(U) = n
                                                   /\ Total(f, U) # Total(f, T)}
<1>1. \A U \in SUBSET S : IsFiniteSet(U) /\ Cardinality(U) \in Nat
  BY FS_Subset, FS_CardinalityType
<1>2. Bad = {}
  <2> SUFFICES ASSUME Bad # {} PROVE FALSE
    OBVIOUS
  <2>1. PICK n \in Bad : \A m \in Bad : n <= m
    <3>1. Bad \in SUBSET Nat
      OBVIOUS
    <3> HIDE DEF Bad
    <3> QED BY <3>1, LeastNumber
  <2>2. n \in Nat
    OBVIOUS
  <2>3. PICK U \in SUBSET S : T \subseteq U /\ Cardinality(U) = n /\ Total(f, U) # Total(f, T)
    BY <2>1
  <2>4. PICK x \in U : x \notin T
    BY <2>3
  <2> DEFINE V == U \ {x}
  <2>5. V \in SUBSET S /\ T \subseteq V /\ V \cup {x} = U /\ x \notin V /\ x \in S
    BY <2>3, <2>4
  <2>6. IsFiniteSet(V) /\ Cardinality(V) \in Nat /\ Cardinality(V) = n - 1
    <3> HIDE DEF Bad
    <3>1. IsFiniteSet(U)
      BY <1>1
    <3> QED BY <1>1, <2>3, <2>5, <3>1, FS_RemoveElement
  <2> HIDE DEF V
  <2>7. Total(f, V) = Total(f, T)
    <3>1. Cardinality(V) \notin Bad
      <4> HIDE DEF Bad
      <4> QED BY <2>1, <2>2, <2>6
    <3> QED BY <2>5, <2>6, <3>1
  <2> HIDE DEF Bad
  <2>8. \A y \in V \cup {x} : f[y] \in Int
    BY <2>5
  <2>9. Total(f, V \cup {x}) = Total(f, V) + f[x] /\ Total(f, V) \in Int
    BY <2>5, <2>6, <2>8, TotalGrows
  <2>10. f[x] = 0
    BY <2>4, <2>5
  <2>11. Total(f, U) = Total(f, V)
    <3>1. Total(f, U) = Total(f, V \cup {x})
      BY <2>5
    <3> QED BY <2>9, <2>10, <3>1
  <2> QED BY <2>3, <2>7, <2>11
<1>3. Cardinality(S) \in Nat /\ S \in SUBSET S /\ T \subseteq S
  BY FS_CardinalityType
<1>4. Cardinality(S) \notin Bad
  BY <1>2
<1> QED BY <1>3, <1>4

LEMMA MonthsFinite == ASSUME MeteringAssumption PROVE IsFiniteSet(Months)
BY FS_Interval DEF MeteringAssumption, Months

\* The bytes of a payload that is not counted yet.
Bytes(p) == IF p.kind = "upload_completed" /\ p.amount > 0 THEN p.amount ELSE 0
Waiting(v, R) == [e \in Events |-> IF e \in R THEN 0 ELSE Bytes(v[e])]
Uncounted(v, R) == Total(Waiting(v, R), Events)
Stored(r) == Total([m \in Months |-> r[m].bytes], Months)

LEMMA SumsForm ==
    ASSUME MeteringAssumption, Inv
    PROVE  /\ SumStorageBytes = Stored(rollup) /\ Stored(rollup) \in Int
           /\ UncountedBytes = Uncounted(event, recorded) /\ Uncounted(event, recorded) \in Int
<1>0. event \in [Events -> Payloads] /\ rollup \in [Months -> Rows] /\ IsFiniteSet(Events) /\ IsFiniteSet(Months)
  BY MonthsFinite DEF Inv, Typed, MeteringAssumption
<1>1. SumStorageBytes = Stored(rollup)
  BY TotalOfBytes DEF SumStorageBytes, Stored
<1>2. Stored(rollup) \in Int
  <2> DEFINE f == [m \in Months |-> rollup[m].bytes]
  <2>1. \A m \in Months : f[m] \in Int /\ f[m] = f[m]
    BY <1>0 DEF Rows
  <2> HIDE DEF f
  <2>2. Total(f, Months) \in Int
    BY <1>0, <2>1, TotalSame
  <2> QED BY <2>2 DEF Stored, f
<1> DEFINE W == {e \in Events \ recorded : event[e].kind = "upload_completed" /\ event[e].amount > 0}
           C == Waiting(event, recorded)
<1>3. /\ W \in SUBSET Events
      /\ \A e \in Events : C[e] \in Int
      /\ \A e \in Events \ W : C[e] = 0
      /\ \A e \in W : C[e] = Amounts(event)[e] /\ C[e] \in Int
  BY <1>0 DEF Waiting, Bytes, Amounts, Payloads
<1>4. UncountedBytes = MapThenSumSet(LAMBDA e : event[e].amount, W)
  BY DEF UncountedBytes
<1> HIDE DEF W, C
<1>5. MapThenSumSet(LAMBDA e : event[e].amount, W) = Total(Amounts(event), W)
  <2>1. W \in SUBSET Events
    BY <1>3
  <2> QED BY <2>1, TotalOfAmounts DEF Amounts
<1>6. IsFiniteSet(W)
  BY <1>0, <1>3, FS_Subset
<1>7. Total(C, W) = Total(Amounts(event), W) /\ Total(C, W) \in Int
  BY <1>3, <1>6, TotalSame
<1>8. Total(C, Events) = Total(C, W)
  BY <1>0, <1>3, TotalOfRest
<1> QED BY <1>1, <1>2, <1>4, <1>5, <1>7, <1>8 DEF Uncounted, C

\* One event changes.
LEMMA UncountedChanges ==
    ASSUME MeteringAssumption, NEW v \in [Events -> Payloads], NEW u \in [Events -> Payloads],
           NEW R \in SUBSET Events, NEW Q \in SUBSET Events, NEW e \in Events,
           \A f \in Events \ {e} : u[f] = v[f] /\ (f \in Q <=> f \in R), NEW d \in Int,
           Waiting(u, Q)[e] = Waiting(v, R)[e] + d
    PROVE  Uncounted(u, Q) = Uncounted(v, R) + d
<1> DEFINE f == Waiting(v, R)
           g == Waiting(u, Q)
<1>1. /\ \A y \in Events : f[y] \in Int /\ g[y] \in Int
      /\ \A y \in Events \ {e} : f[y] = g[y]
      /\ g[e] = f[e] + d
  BY DEF Waiting, Bytes, Payloads
<1>2. IsFiniteSet(Events)
  BY DEF MeteringAssumption
<1> HIDE DEF f, g
<1>3. Grows(f, g, Events, e, d)
  BY <1>1 DEF Grows
<1>4. Total(g, Events) = Total(f, Events) + d
  BY <1>2, <1>3, TotalUpdated
<1> QED BY <1>4 DEF Uncounted, f, g

LEMMA StoredGrows ==
    ASSUME MeteringAssumption, NEW r \in [Months -> Rows], NEW s \in [Months -> Rows],
           NEW m \in Months, NEW d \in Int, s[m].bytes = r[m].bytes + d, \A k \in Months \ {m} : s[k] = r[k]
    PROVE  Stored(s) = Stored(r) + d
<1> DEFINE f == [k \in Months |-> r[k].bytes]
           g == [k \in Months |-> s[k].bytes]
<1>1. IsFiniteSet(Months)
  BY MonthsFinite
<1>2. Grows(f, g, Months, m, d)
  <2>1. \A k \in Months : f[k] \in Int /\ g[k] \in Int
    BY DEF Rows
  <2>2. \A k \in Months \ {m} : f[k] = g[k]
    OBVIOUS
  <2>3. g[m] = f[m] + d
    OBVIOUS
  <2> HIDE DEF f, g
  <2> QED BY <2>1, <2>2, <2>3 DEF Grows
<1> HIDE DEF f, g
<1>3. Total(g, Months) = Total(f, Months) + d
  BY <1>1, <1>2, TotalUpdated
<1> QED BY <1>3 DEF Stored, f, g

LEMMA NextSumsForm ==
    ASSUME MeteringAssumption, Inv'
    PROVE  /\ SumStorageBytes' = Stored(rollup') /\ Stored(rollup') \in Int
           /\ UncountedBytes' = Uncounted(event', recorded') /\ Uncounted(event', recorded') \in Int
<1>1. ASSUME MeteringAssumption', Inv'
      PROVE  (/\ SumStorageBytes = Stored(rollup) /\ Stored(rollup) \in Int
              /\ UncountedBytes = Uncounted(event, recorded) /\ Uncounted(event, recorded) \in Int)'
  BY <1>1, SumsForm, PTL
<1>2. MeteringAssumption'
  BY DEF MeteringAssumption
<1> QED BY <1>1, <1>2 DEF Stored, Uncounted, Waiting

Overshoot == slack \in Int /\ StorageOvershootBound

\* What a step may do to the two sums and the slack.
LEMMA OvershootKept ==
    ASSUME MeteringAssumption, Inv, Inv', Overshoot, slack' \in Int,
           Stored(rollup') + Uncounted(event', recorded') - slack'
             <= Stored(rollup) + Uncounted(event, recorded) - slack
    PROVE  Overshoot'
<1>1. /\ SumStorageBytes = Stored(rollup) /\ Stored(rollup) \in Int
      /\ UncountedBytes = Uncounted(event, recorded) /\ Uncounted(event, recorded) \in Int
  BY SumsForm
<1>2. /\ SumStorageBytes' = Stored(rollup') /\ Stored(rollup') \in Int
      /\ UncountedBytes' = Uncounted(event', recorded') /\ Uncounted(event', recorded') \in Int
  BY NextSumsForm
<1>3. Tier.storageBytes \in Nat
  BY DEF MeteringAssumption
<1>4. PICK s \in Int, u \in Int : s = Stored(rollup) /\ u = Uncounted(event, recorded)
  BY <1>1
<1>5. PICK t \in Int, v \in Int : t = Stored(rollup') /\ v = Uncounted(event', recorded')
  BY <1>2
<1>6. /\ slack \in Int /\ slack' \in Int /\ t + v - slack' <= s + u - slack
      /\ Tier.storageBytes > 0 => s + u <= Tier.storageBytes + slack
  BY <1>1, <1>4, <1>5 DEF Overshoot, StorageOvershootBound
<1>7. Tier.storageBytes > 0 => t + v <= Tier.storageBytes + slack'
  <2>1. PICK k \in Int, l \in Int, b \in Int : k = slack /\ l = slack' /\ b = Tier.storageBytes
    BY <1>3, <1>6
  <2>2. t + v - l <= s + u - k /\ (b > 0 => s + u <= b + k)
    BY <1>6, <2>1
  <2>3. b > 0 => t + v <= b + l
    BY <2>2
  <2> QED BY <2>1, <2>3
<1> QED BY <1>2, <1>5, <1>7 DEF Overshoot, StorageOvershootBound

\* One event is admitted or published: what it contributes may change.
LEMMA OneEventChanges ==
    ASSUME MeteringAssumption, Inv, Inv', Books, NEW e \in Events, NEW v \in Payloads,
           event[e].stage # "published", event' = [event EXCEPT ![e] = v], UNCHANGED <<recorded, rollup>>
    PROVE  /\ Uncounted(event', recorded') = Uncounted(event, recorded) + (Bytes(v) - Bytes(event[e]))
           /\ Stored(rollup') = Stored(rollup)
           /\ Bytes(v) \in Int /\ Bytes(event[e]) \in Int
<1>0. event \in [Events -> Payloads] /\ event' \in [Events -> Payloads] /\ recorded \in SUBSET Events
  BY DEF Inv, Typed, Books, RecordedIsFinal
<1>1. e \notin recorded /\ \A p \in Payloads : Bytes(p) \in Int
  BY DEF Books, RecordedIsFinal, Bytes, Payloads
<1>2. Bytes(v) \in Int /\ Bytes(event[e]) \in Int
  BY <1>0, <1>1
<1>3. event'[e] = v /\ \A f \in Events \ {e} : event'[f] = event[f]
  BY <1>0
<1>4. Waiting(event', recorded)[e] = Bytes(v) /\ Waiting(event, recorded)[e] = Bytes(event[e])
  BY <1>1, <1>3 DEF Waiting
<1> DEFINE d == Bytes(v) - Bytes(event[e])
<1>5. d \in Int /\ Waiting(event', recorded)[e] = Waiting(event, recorded)[e] + d
  BY <1>2, <1>4
<1> HIDE DEF d
<1>6. Uncounted(event', recorded) = Uncounted(event, recorded) + d
  <2>1. \A f \in Events \ {e} : event'[f] = event[f] /\ (f \in recorded <=> f \in recorded)
    BY <1>3
  <2>2. PICK u \in [Events -> Payloads] : u = event'
    BY <1>0
  <2>3. /\ \A f \in Events \ {e} : u[f] = event[f] /\ (f \in recorded <=> f \in recorded)
        /\ Waiting(u, recorded)[e] = Waiting(event, recorded)[e] + d
    BY <1>5, <2>1, <2>2
  <2>4. Uncounted(u, recorded) = Uncounted(event, recorded) + d
    BY <1>0, <1>5, <2>3, UncountedChanges
  <2> QED BY <2>2, <2>4
<1> QED BY <1>2, <1>6 DEF d

LEMMA OvershootSteps ==
    ASSUME MeteringAssumption, Inv, Inv', Books, Overshoot, [Next]_vars
    PROVE  Overshoot'
<1>0. /\ event \in [Events -> Payloads] /\ recorded \in SUBSET Events /\ rollup \in [Months -> Rows]
      /\ month \in Months /\ slack \in Int
  BY DEF Inv, Typed, Books, RecordedIsFinal, Overshoot
<1>1. ASSUME NEW e \in Events, event[e].stage = "free" PROVE event[e] \in Payloads /\ Bytes(event[e]) = 0
  BY <1>0, <1>1 DEF Books, FreeIsUnused, Unused, Bytes
<1>2. ASSUME NEW e \in Events, NEW v \in Payloads, event[e].stage # "published",
             event' = [event EXCEPT ![e] = v], UNCHANGED <<recorded, rollup>>,
             slack' \in Int, Bytes(v) - Bytes(event[e]) <= slack' - slack
      PROVE  Overshoot'
  <2>1. /\ Uncounted(event', recorded') = Uncounted(event, recorded) + (Bytes(v) - Bytes(event[e]))
        /\ Stored(rollup') = Stored(rollup)
        /\ Bytes(v) \in Int /\ Bytes(event[e]) \in Int
    BY <1>2, OneEventChanges
  <2>2. PICK s \in Int, u \in Int : s = Stored(rollup) /\ u = Uncounted(event, recorded)
    BY SumsForm
  <2>3. PICK b \in Int : b = Bytes(v) - Bytes(event[e]) /\ b <= slack' - slack
    BY <1>2, <2>1
  <2>4. s + (u + b) - slack' <= s + u - slack
    BY <1>0, <1>2, <2>3
  <2> QED BY <1>2, <2>1, <2>2, <2>3, <2>4, OvershootKept
<1>3. ASSUME NEW e \in Events, NEW size \in Sizes, AdmitUpload(e, size) PROVE Overshoot'
  <2> DEFINE v == [Unused EXCEPT !.stage = "admitted", !.amount = size, !.kind = "upload_completed"]
  <2>1. size \in Nat /\ Unused \in Payloads
    BY DEF MeteringAssumption, Unused, Payloads, Months
  <2>2. v \in Payloads /\ v.kind = "upload_completed" /\ v.amount = size
    <3>1. size \in Int
      BY <2>1
    <3> QED BY <2>1, <3>1 DEF Payloads
  <2>3. /\ event' = [event EXCEPT ![e] = v] /\ event[e].stage = "free" /\ UNCHANGED <<recorded, rollup>>
        /\ slack' = UncountedBytes
        /\ Tier.storageBytes > 0 => SumStorageBytes + size <= Tier.storageBytes
    BY <1>3 DEF AdmitUpload, Fresh, tables, CheckUploadSession
  <2> HIDE DEF v
  <2>4. Bytes(v) = size
    BY <2>1, <2>2 DEF Bytes
  <2>5. /\ Uncounted(event', recorded') = Uncounted(event, recorded) + (size - 0)
        /\ Stored(rollup') = Stored(rollup)
    BY <1>1, <2>2, <2>3, <2>4, OneEventChanges
  <2>6. /\ SumStorageBytes = Stored(rollup) /\ Stored(rollup) \in Int
        /\ UncountedBytes = Uncounted(event, recorded) /\ Uncounted(event, recorded) \in Int
    BY SumsForm
  <2>7. SumStorageBytes' = Stored(rollup') /\ UncountedBytes' = Uncounted(event', recorded')
    BY NextSumsForm
  <2>8. Tier.storageBytes \in Nat
    BY DEF MeteringAssumption
  <2>9. Tier.storageBytes > 0 => SumStorageBytes' + UncountedBytes' <= Tier.storageBytes + slack'
    <3>1. PICK s \in Int, u \in Int : s = Stored(rollup) /\ u = Uncounted(event, recorded)
      BY <2>6
    <3>2. SumStorageBytes' = s /\ UncountedBytes' = u + (size - 0) /\ slack' = u
      BY <2>3, <2>5, <2>6, <2>7, <3>1
    <3>3. Tier.storageBytes > 0 => s + size <= Tier.storageBytes
      BY <2>3, <2>6, <3>1
    <3>4. Tier.storageBytes > 0 => s + (u + (size - 0)) <= Tier.storageBytes + u
      BY <2>1, <2>8, <3>3
    <3> QED BY <3>2, <3>4
  <2> QED BY <2>3, <2>6, <2>9 DEF Overshoot, StorageOvershootBound
<1>4. ASSUME NEW e \in Events, AdmitJob(e) PROVE Overshoot'
  <2> DEFINE v == [Unused EXCEPT !.stage = "admitted", !.kind = "job_ended"]
  <2>1. v \in Payloads /\ v.kind = "job_ended"
    <3>1. Unused \in Payloads
      BY DEF MeteringAssumption, Unused, Payloads, Months
    <3> QED BY <3>1 DEF Payloads
  <2>2. /\ event' = [event EXCEPT ![e] = v] /\ event[e].stage = "free" /\ UNCHANGED <<recorded, rollup>>
        /\ slack' = slack
    BY <1>4 DEF AdmitJob, Fresh, tables
  <2> HIDE DEF v
  <2>3. Bytes(v) - Bytes(event[e]) <= slack' - slack /\ slack' \in Int /\ event[e].stage # "published"
    BY <1>0, <1>1, <2>1, <2>2 DEF Bytes
  <2> QED BY <1>2, <2>1, <2>2, <2>3
<1>5. ASSUME NEW e \in Events, Publish(e) PROVE Overshoot'
  <2>1. PICK n \in IF event[e].kind = "job_ended" THEN Seconds ELSE {event[e].amount} :
             event' = [event EXCEPT ![e] = [event[e] EXCEPT !.stage = "published", !.amount = n,
                                                            !.month = month]]
    BY <1>5 DEF Publish
  <2> DEFINE v == [event[e] EXCEPT !.stage = "published", !.amount = n, !.month = month]
  <2>2. event[e] \in Payloads /\ n \in Int
    BY <1>0, <2>1 DEF MeteringAssumption, Payloads
  <2>3. v \in Payloads /\ v.kind = event[e].kind /\ v.amount = n
    BY <1>0, <2>2 DEF Payloads
  <2>4. /\ event' = [event EXCEPT ![e] = v] /\ event[e].stage # "published"
        /\ UNCHANGED <<recorded, rollup>> /\ slack' = slack
    BY <1>5, <2>1 DEF Publish, tables
  <2> HIDE DEF v
  <2>5. Bytes(v) = Bytes(event[e]) /\ Bytes(v) \in Int
    BY <2>1, <2>2, <2>3 DEF Bytes
  <2>6. Bytes(v) - Bytes(event[e]) <= slack' - slack /\ slack' \in Int
    BY <1>0, <2>4, <2>5
  <2> QED BY <1>2, <2>3, <2>4, <2>6
<1>6. ASSUME NEW e \in Events, PublishMalformed(e) PROVE Overshoot'
  <2> DEFINE v == [stage |-> "published", kind |-> "upload_completed", amount |-> -1, month |-> month]
  <2>1. v \in Payloads /\ v.amount = -1
    BY <1>0 DEF Payloads
  <2>2. /\ event' = [event EXCEPT ![e] = v] /\ event[e].stage = "free" /\ UNCHANGED <<recorded, rollup>>
        /\ slack' = slack
    BY <1>6 DEF PublishMalformed, Fresh, tables
  <2> HIDE DEF v
  <2>3. Bytes(v) - Bytes(event[e]) <= slack' - slack /\ slack' \in Int /\ event[e].stage # "published"
    BY <1>0, <1>1, <2>1, <2>2 DEF Bytes
  <2> QED BY <1>2, <2>1, <2>2, <2>3
<1>7. ASSUME NEW e \in Events, NEW f \in Events, CompleteAgain(e, f) PROVE Overshoot'
  <2> DEFINE v == [event[e] EXCEPT !.month = month]
  <2>1. event[e] \in Payloads /\ event[e].amount \in Int /\ event[e].amount > 0
        /\ event[e].kind = "upload_completed"
    BY <1>0, <1>7 DEF Payloads, CompleteAgain
  <2>2. v \in Payloads /\ v.amount = event[e].amount /\ v.kind = "upload_completed"
    BY <1>0, <2>1 DEF Payloads
  <2>3. /\ event' = [event EXCEPT ![f] = v] /\ event[f].stage = "free"
        /\ slack' = slack + event[e].amount /\ UNCHANGED <<recorded, rollup>>
    BY <1>7 DEF CompleteAgain, Fresh, tables
  <2> HIDE DEF v
  <2>4. Bytes(v) - Bytes(event[f]) <= slack' - slack /\ slack' \in Int /\ event[f].stage # "published"
    BY <1>0, <1>1, <2>1, <2>2, <2>3 DEF Bytes
  <2> QED BY <1>2, <2>1, <2>2, <2>3, <2>4
<1>8. ASSUME UNCHANGED <<event, recorded, rollup, slack>> PROVE Overshoot'
  <2>1. PICK s \in Int, u \in Int : s = Stored(rollup) /\ u = Uncounted(event, recorded)
    BY SumsForm
  <2>2. s + u - slack <= s + u - slack
    BY <1>0
  <2> QED BY <1>0, <1>8, <2>1, <2>2, OvershootKept
<1>9. ASSUME NEW w \in Workers, Counting(w), slack' = slack PROVE Overshoot'
  <2>1. PICK e \in Events : e = call[w].event
    BY <1>9, Carried DEF Counting, Idle
  <2>2. e \notin recorded /\ WellFormed(event[e]) /\ call[w].row = Added(rollup[event[e].month], event[e])
        /\ call[w].row \in Rows
    BY <1>9, <2>1 DEF Counting, Books, Transactions, Open, Inv, CountedIsWellFormed
  <2>3. /\ event' = event /\ recorded' = recorded \cup {e}
        /\ rollup' = [rollup EXCEPT ![event[e].month] = call[w].row]
    BY <1>9, <2>1, <2>2 DEF Counting, Commits
  <2> DEFINE m == event[e].month
             a == Bytes(event[e])
  <2>4. m \in Months /\ event[e].amount \in Nat /\ rollup[m] \in Rows
    BY <1>0, <2>2 DEF Payloads, WellFormed
  <2>5. a \in Int /\ call[w].row.bytes = rollup[m].bytes + a
    <3>1. event[e].kind = "upload_completed" => a = event[e].amount
      BY <2>4 DEF Bytes
    <3>2. event[e].kind # "upload_completed" => a = 0
      BY DEF Bytes
    <3>3. a \in Int
      BY <2>4, <3>1, <3>2
    <3>4. Added(rollup[m], event[e]).bytes
            = IF event[e].kind = "upload_completed" THEN rollup[m].bytes + event[e].amount ELSE rollup[m].bytes
      BY <2>4 DEF Added, Rows
    <3>5. rollup[m].bytes \in Int
      BY <2>4 DEF Rows
    <3> HIDE DEF a
    <3> QED BY <2>2, <3>1, <3>2, <3>3, <3>4, <3>5
  <2>6. Waiting(event, recorded)[e] = a /\ Waiting(event, recorded \cup {e})[e] = 0
    BY <2>2 DEF Waiting
  <2> HIDE DEF a
  <2>7. -a \in Int /\ Waiting(event, recorded \cup {e})[e] = Waiting(event, recorded)[e] + (-a)
    BY <2>5, <2>6
  <2>8. Uncounted(event, recorded \cup {e}) = Uncounted(event, recorded) + (-a)
    <3>1. /\ recorded \cup {e} \in SUBSET Events
          /\ \A f \in Events \ {e} : event[f] = event[f] /\ (f \in recorded \cup {e} <=> f \in recorded)
      BY <1>0
    <3> QED BY <1>0, <2>7, <3>1, UncountedChanges
  <2> HIDE DEF m
  <2>9. Stored(rollup') = Stored(rollup) + a
    <3>1. PICK s \in [Months -> Rows] : s = rollup'
      BY DEF Inv, Typed
    <3>2. s[m].bytes = rollup[m].bytes + a /\ \A k \in Months \ {m} : s[k] = rollup[k]
      BY <1>0, <2>3, <2>4, <2>5, <3>1 DEF m
    <3>3. Stored(s) = Stored(rollup) + a
      BY <1>0, <2>4, <2>5, <3>2, StoredGrows
    <3> QED BY <3>1, <3>3
  <2>10. /\ Stored(rollup') = Stored(rollup) + a /\ slack' = slack
         /\ Uncounted(event', recorded') = Uncounted(event, recorded) + (-a)
    BY <1>9, <2>3, <2>8, <2>9
  <2>11. PICK s \in Int, u \in Int : s = Stored(rollup) /\ u = Uncounted(event, recorded)
    BY SumsForm
  <2>12. (s + a) + (u + (-a)) - slack <= s + u - slack
    BY <1>0, <2>5
  <2> QED BY <1>0, <2>10, <2>11, <2>12, OvershootKept
<1>10. CASE ~ \E e \in Events : \/ \E size \in Sizes : AdmitUpload(e, size)
                                \/ AdmitJob(e) \/ Publish(e) \/ PublishMalformed(e)
                                \/ \E f \in Events : CompleteAgain(e, f)
  <2>1. event' = event /\ slack' = slack
    <3>1. ASSUME NEW e \in Events, PublishAgain(e) \/ AckWaitEnds(e) PROVE event' = event /\ slack' = slack
      BY <3>1 DEF PublishAgain, AckWaitEnds
    <3>2. ASSUME NextMonth \/ UNCHANGED vars PROVE event' = event /\ slack' = slack
      BY <3>2 DEF NextMonth, vars
    <3>3. ASSUME NEW w \in Workers,
                 \/ \E e \in Events : Deliver(w, e)
                 \/ Handle(w) \/ ApplyFails(w) \/ AckWaitTooShort(w) \/ Crash(w)
          PROVE  event' = event /\ slack' = slack
      BY <3>3 DEF Deliver, Handle, Terminate, InsertEvent, UpsertRollup, Commit, Ack, Nak, ApplyFails,
                  AckWaitTooShort, Crash
    <3> QED BY <1>10, <3>1, <3>2, <3>3 DEF Next
  <2>2. CASE UNCHANGED <<recorded, rollup>>
    BY <1>8, <2>1, <2>2
  <2>3. CASE \E w \in Workers : Counting(w)
    BY <1>9, <2>1, <2>3
  <2> QED BY <2>2, <2>3, StepsOfBooks DEF Publishing, Handling
<1> QED BY <1>3, <1>4, <1>5, <1>6, <1>7, <1>10

\* Counted and uncounted bytes together exceed the tier by no more than what was
\* uncounted when the last upload was admitted and what was announced twice
\* since, for any number of events, processes, months and failures: a commit
\* moves bytes from one sum to the other (CheckUploadSession, ApplyMetering).
THEOREM OvershootIsSlack == Spec => []StorageOvershootBound
<1>1. Inv /\ Init => Overshoot
  <2> SUFFICES ASSUME Inv, Init PROVE Overshoot
    OBVIOUS
  <2>1. /\ SumStorageBytes = Stored(rollup) /\ UncountedBytes = Uncounted(event, recorded)
    BY MeteringAssumption, SumsForm
  <2>2. /\ \A m \in Months : rollup[m].bytes = 0
        /\ \A e \in Events : Bytes(event[e]) = 0
        /\ slack = 0
    BY DEF Init, Bytes, Unused
  <2>3. ASSUME NEW S, IsFiniteSet(S), NEW f, \A x \in S : f[x] = 0 PROVE Total(f, S) = 0
    <3>1. {} \in SUBSET S /\ (\A x \in S : f[x] \in Int) /\ \A x \in S \ {} : f[x] = 0
      BY <2>3
    <3>2. Total(f, S) = Total(f, {})
      BY <2>3, <3>1, TotalOfRest
    <3> QED BY <3>2, TotalOfNone
  <2>4. Stored(rollup) = 0
    <3> DEFINE f == [m \in Months |-> rollup[m].bytes]
    <3>1. \A m \in Months : f[m] = 0
      BY <2>2
    <3> HIDE DEF f
    <3>2. Total(f, Months) = 0
      BY <2>3, <3>1, MeteringAssumption, MonthsFinite
    <3> QED BY <3>2 DEF Stored, f
  <2>5. Uncounted(event, recorded) = 0
    <3> DEFINE f == Waiting(event, recorded)
    <3>1. (\A e \in Events : f[e] = 0) /\ IsFiniteSet(Events)
      BY <2>2, MeteringAssumption DEF Waiting, MeteringAssumption
    <3> HIDE DEF f
    <3>2. Total(f, Events) = 0
      BY <2>3, <3>1
    <3> QED BY <3>2 DEF Uncounted, f
  <2>6. Tier.storageBytes \in Nat
    BY MeteringAssumption DEF MeteringAssumption
  <2> QED BY <2>1, <2>2, <2>4, <2>5, <2>6 DEF Overshoot, StorageOvershootBound
<1>2. Inv /\ Inv' /\ Books /\ Overshoot /\ [Next]_vars => Overshoot'
  BY MeteringAssumption, OvershootSteps
<1>3. Overshoot => StorageOvershootBound
  BY DEF Overshoot
<1> QED BY <1>1, <1>2, <1>3, InvHolds, BooksInOrder, PTL DEF Spec

=============================================================================
