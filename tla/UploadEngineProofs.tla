------------------------- MODULE UploadEngineProofs -------------------------
(***************************************************************************)
(* The console believes only what the service has: for any number of       *)
(* chunks, streams, clicks and failures, a chunk shown as DONE is recorded *)
(* and an upload shown as landed is whole and published.                   *)
(*                                                                         *)
(* DoneIsStored is not inductive: the DONE cells come from answers that    *)
(* travelled, of PUTs (RecordedIsStored) and of GETs (AnswersAreStored),   *)
(* and both stay true because the service never forgets a chunk.           *)
(* LandedIsPublished rests on what a complete has read when it writes: the *)
(* session exists (CreatedOnce, Begun) and has every chunk                 *)
(* (CompletingIsWhole), and COMPLETED is written after the event only      *)
(* (CompletedIsPublished).  None of these needs the session to be what the *)
(* complete or the DELETE has read.                                        *)
(*                                                                         *)
(* That no chunk and no stream slot waits for a moveChunk that is gone     *)
(* (InflightIsMoved) is inductive with the shape of the state.             *)
(***************************************************************************)
EXTENDS UploadEngine, TLAPS

\* The shape of the state, as far as the argument needs it.
Shape ==
    /\ task \in Tasks
    /\ mover \in [Moves -> Nat]
    /\ get = [g \in Asks |-> get[g]]
    /\ stored \subseteq Chunks

\* A PUT whose answer is on its way was recorded.
RecordedIsStored ==
    \A m \in Moves : m.pc = "recorded" /\ mover[m] > 0 => m.chunk \in stored

\* The DONE cells of a map on its way are recorded.
AnswersAreStored ==
    \A g \in Asks : g.pc = "read" /\ get[g] > 0 => g.done \subseteq stored

\* Until createUpload has answered there is no session.
CreatedOnce == creating => session = "absent"

\* Nobody has read a session that does not exist.
Begun ==
    session = "absent" =>
        /\ ~landed /\ completing["assemble"] = 0 /\ completing["finish"] = 0
        /\ \A d \in {"console", "other"} : deleting[d] # "read"

\* A session that is assembled or being completed has every chunk.
CompletingIsWhole ==
    \/ session \in {"ASSEMBLED", "COMPLETED"}
    \/ completing["assemble"] > 0 \/ completing["finish"] > 0
    => stored = Chunks

\* COMPLETED is written after the landed event.
CompletedIsPublished == session = "COMPLETED" => published

Service ==
    /\ completing \in [Stages -> Nat]
    /\ deleting \in [{"console", "other"} -> {"no", "sent", "read"}]
    /\ CreatedOnce /\ Begun /\ CompletingIsWhole /\ CompletedIsPublished /\ LandedIsPublished

Inv ==
    /\ Shape
    /\ DoneIsStored /\ RecordedIsStored /\ AnswersAreStored
    /\ Service

-----------------------------------------------------------------------------

\* The claims of pump name chunks and keep the type of the task.
LEMMA ClaimedTypes ==
    ASSUME NEW t \in Tasks
    PROVE  /\ Claimed(t, Claims(t)) \in Tasks
           /\ \A c \in Chunks : Claimed(t, Claims(t)).chunks[c] = "DONE" => t.chunks[c] = "DONE"
<1> DEFINE K == Claims(t)
           ch == [c \in Chunks |-> IF \E r \in K : r.chunk = c THEN "INFLIGHT" ELSE t.chunks[c]]
           st == [s \in Streams |-> IF \E r \in K : r.slot = s
                                    THEN (CHOOSE r \in K : r.slot = s).chunk
                                    ELSE t.streams[s]]
<1>1. \A r \in K : r.chunk \in Chunks
  BY DEF Claims, Claimable
<1>2. ch \in [Chunks -> {"PENDING", "INFLIGHT", "DONE", "RETRY"}]
  BY DEF Tasks
<1>3. st \in [Streams -> Chunks \cup {None}]
  <2>1. SUFFICES ASSUME NEW s \in Streams PROVE st[s] \in Chunks \cup {None}
    OBVIOUS
  <2>2. CASE \E r \in K : r.slot = s
    <3>1. (CHOOSE r \in K : r.slot = s) \in K
      BY <2>2
    <3> QED BY <3>1, <1>1, <2>2
  <2>3. CASE ~ \E r \in K : r.slot = s
    BY <2>3 DEF Tasks
  <2> QED BY <2>2, <2>3
<1>4. Claimed(t, K) = [t EXCEPT !.chunks = ch, !.streams = st]
  BY DEF Claimed
<1> HIDE DEF K
<1>5. \A c \in Chunks : ch[c] = "DONE" => t.chunks[c] = "DONE"
  OBVIOUS
<1> HIDE DEF ch, st
<1> QED BY <1>2, <1>3, <1>4, <1>5 DEF Tasks, K

\* pump neither marks a chunk DONE nor adds an answer.
LEMMA PumpKeeps ==
    ASSUME NEW t \in Tasks, NEW mv \in [Moves -> Nat], NEW tm, Pump(t, mv, tm)
    PROVE  /\ task' \in Tasks
           /\ mover' \in [Moves -> Nat]
           /\ \A c \in Chunks : task'.chunks[c] = "DONE" => t.chunks[c] = "DONE"
           /\ \A m \in Moves : m.pc = "recorded" => mover'[m] = mv[m]
<1> DEFINE next == Claimed(t, Claims(t))
<1>1. /\ next \in Tasks
      /\ \A c \in Chunks : next.chunks[c] = "DONE" => t.chunks[c] = "DONE"
  BY ClaimedTypes
<1>2. /\ [next EXCEPT !.state = "verifying"] \in Tasks
      /\ [next EXCEPT !.state = "verifying"].chunks = next.chunks
  BY <1>1 DEF Tasks
<1>3. /\ Spawned(mv, Claims(t)) \in [Moves -> Nat]
      /\ \A m \in Moves : m.pc = "recorded" => Spawned(mv, Claims(t))[m] = mv[m]
  BY DEF Spawned
<1>4. /\ task' \in {t, next, [next EXCEPT !.state = "verifying"]}
      /\ mover' \in {mv, Spawned(mv, Claims(t))}
  BY DEF Pump, Stays
<1> HIDE DEF next
<1> QED BY <1>1, <1>2, <1>3, <1>4

\* revertInflight and fail keep the DONE cells.
LEMMA RevertedTypes ==
    ASSUME NEW t \in Tasks
    PROVE  /\ Reverted(t) \in Tasks /\ Failed(t) \in Tasks
           /\ \A c \in Chunks : Reverted(t).chunks[c] = "DONE" => t.chunks[c] = "DONE"
           /\ \A c \in Chunks : Failed(t).chunks[c] = "DONE" => t.chunks[c] = "DONE"
<1>1. /\ Reverted(t) \in Tasks
      /\ \A c \in Chunks : Reverted(t).chunks[c] = "DONE" => t.chunks[c] = "DONE"
  BY DEF Reverted, NoStreams, Tasks
<1>2. Failed(t) \in Tasks /\ Failed(t).chunks = Reverted(t).chunks
  BY <1>1 DEF Failed, Tasks
<1> QED BY <1>1, <1>2

-----------------------------------------------------------------------------
(***************************************************************************)
(* What one step may do: new DONE cells and new answers only about chunks  *)
(* that are recorded by then, and no chunk forgotten.                      *)
(***************************************************************************)
Honest ==
    /\ task' \in Tasks /\ mover' \in [Moves -> Nat] /\ get' = [g \in Asks |-> get'[g]]
    /\ stored \subseteq stored' /\ stored' \subseteq Chunks
    /\ \A c \in Chunks : task'.chunks[c] = "DONE" => task.chunks[c] = "DONE" \/ c \in stored'
    /\ \A m \in Moves : m.pc = "recorded" /\ mover'[m] > 0 => mover[m] > 0 \/ m.chunk \in stored'
    /\ \A g \in Asks : g.pc = "read" /\ get'[g] > 0 => get[g] > 0 \/ g.done \subseteq stored'

\* An honest step keeps the three facts about recorded chunks.
LEMMA HonestStep ==
    ASSUME Inv, Honest
    PROVE  Shape' /\ DoneIsStored' /\ RecordedIsStored' /\ AnswersAreStored'
<1>1. Shape'
  BY DEF Honest, Shape
<1>2. DoneIsStored'
  BY DEF Honest, Inv, DoneIsStored
<1>3. RecordedIsStored'
  BY DEF Honest, Inv, RecordedIsStored
<1>4. AnswersAreStored'
  BY DEF Honest, Inv, AnswersAreStored
<1> QED BY <1>1, <1>2, <1>3, <1>4

\* An invocation that ends leaves the others as they are.
LEMMA EndedTypes ==
    ASSUME Shape, NEW m \in Moves, mover[m] > 0
    PROVE  /\ Ended(m) \in [Moves -> Nat]
           /\ \A k \in Moves : Ended(m)[k] > 0 => mover[k] > 0
           /\ FreedSlot(m) \in Tasks /\ FreedSlot(m).chunks = task.chunks
<1>1. mover \in [Moves -> Nat] /\ task \in Tasks /\ m.slot \in Streams
  BY DEF Shape, Moves
<1>2. Ended(m) \in [Moves -> Nat] /\ \A k \in Moves : Ended(m)[k] > 0 => mover[k] > 0
  BY <1>1 DEF Ended
<1>3. FreedSlot(m) \in Tasks /\ FreedSlot(m).chunks = task.chunks
  BY <1>1 DEF FreedSlot, Tasks
<1> QED BY <1>2, <1>3

\* An invocation that goes on appears at its next place only.
LEMMA AdvancedTypes ==
    ASSUME Shape, NEW m \in Moves, mover[m] > 0,
           NEW pc \in {"put", "recorded"}
    PROVE  /\ Advanced(m, pc) \in [Moves -> Nat]
           /\ \A k \in Moves : Advanced(m, pc)[k] > 0
                => mover[k] > 0 \/ (k.pc = pc /\ k.chunk = m.chunk)
<1> DEFINE n == [m EXCEPT !.pc = pc]
<1>1. n \in Moves /\ n.pc = pc /\ n.chunk = m.chunk
  BY DEF Moves
<1>2. Ended(m) \in [Moves -> Nat] /\ \A k \in Moves : Ended(m)[k] > 0 => mover[k] > 0
  BY EndedTypes
<1>3. Advanced(m, pc) = [Ended(m) EXCEPT ![n] = mover[n] + 1]
  BY DEF Advanced
<1>4. mover[n] \in Nat
  BY <1>1 DEF Shape
<1> HIDE DEF n
<1> QED BY <1>1, <1>2, <1>3, <1>4

\* The catch of moveChunk marks nothing as DONE.
LEMMA CatchKeeps ==
    ASSUME Shape, NEW m \in Moves, mover[m] > 0, NEW transport, Catch(m, transport)
    PROVE  /\ task' \in Tasks /\ mover' \in [Moves -> Nat]
           /\ \A c \in Chunks : task'.chunks[c] = "DONE" => task.chunks[c] = "DONE"
           /\ \A k \in Moves : k.pc = "recorded" /\ mover'[k] > 0 => mover[k] > 0
<1> DEFINE c == m.chunk
           n == IF task.attempts[c] < MaxAttempts THEN task.attempts[c] + 1 ELSE MaxAttempts
           t == [FreedSlot(m) EXCEPT !.attempts[c] = n]
           u == [t EXCEPT !.chunks[c] = "RETRY"]
<1>1. /\ Ended(m) \in [Moves -> Nat]
      /\ \A k \in Moves : Ended(m)[k] > 0 => mover[k] > 0
      /\ FreedSlot(m) \in Tasks /\ FreedSlot(m).chunks = task.chunks
  BY EndedTypes
<1>2. c \in Chunks
  BY DEF Moves
<1>3. n \in 0..MaxAttempts
  <2>1. task.attempts[c] \in 0..MaxAttempts
    BY <1>2 DEF Shape, Tasks
  <2> QED BY <2>1, UploadEngineAssumption
<1> HIDE DEF n, c
<1>4. t \in Tasks /\ t.chunks = task.chunks
  BY <1>1, <1>2, <1>3 DEF Tasks
<1> HIDE DEF t
<1>5. u \in Tasks /\ \A d \in Chunks : u.chunks[d] = "DONE" => task.chunks[d] = "DONE"
  BY <1>2, <1>4 DEF Tasks
<1> HIDE DEF u
<1>6. Failed(t) \in Tasks /\ \A d \in Chunks : Failed(t).chunks[d] = "DONE" => task.chunks[d] = "DONE"
  BY <1>4, RevertedTypes
<1>7. \/ task' = task /\ mover' = Ended(m)
      \/ Pump(u, Ended(m), timers)
      \/ task' = Failed(t) /\ mover' = Ended(m)
  BY DEF Catch, Stays, c, n, t, u
<1>8. CASE task' = task /\ mover' = Ended(m)
  BY <1>1, <1>8 DEF Shape
<1>9. CASE Pump(u, Ended(m), timers)
  BY <1>1, <1>5, <1>9, PumpKeeps
<1>10. CASE task' = Failed(t) /\ mover' = Ended(m)
  BY <1>1, <1>6, <1>10
<1> QED BY <1>7, <1>8, <1>9, <1>10

-----------------------------------------------------------------------------
(***************************************************************************)
(* Every action is honest.                                                 *)
(***************************************************************************)

\* createUpload answers: the map it starts with has no DONE cell.
LEMMA CreateHonest == ASSUME Inv, Create PROVE Honest
<1> DEFINE t == [task EXCEPT !.uploadId = TRUE, !.chunks = [c \in Chunks |-> "PENDING"]]
<1>1. Shape
  BY DEF Inv
<1>2. t \in Tasks /\ \A c \in Chunks : t.chunks[c] # "DONE"
  BY <1>1 DEF Shape, Tasks
<1>3. Failed(task) \in Tasks /\ \A c \in Chunks : Failed(task).chunks[c] = "DONE" => task.chunks[c] = "DONE"
  BY <1>1, RevertedTypes DEF Shape
<1>4. get' = get /\ stored' = stored
  BY DEF Create
<1>5. CASE Pump(t, mover, timers)
  <2>1. /\ task' \in Tasks /\ mover' \in [Moves -> Nat]
        /\ \A c \in Chunks : task'.chunks[c] = "DONE" => t.chunks[c] = "DONE"
        /\ \A m \in Moves : m.pc = "recorded" => mover'[m] = mover[m]
    <3> HIDE DEF t
    <3> QED BY <1>1, <1>2, <1>5, PumpKeeps DEF Shape
  <2> HIDE DEF t
  <2> QED BY <1>1, <1>2, <1>4, <2>1 DEF Honest, Shape
<1>6. CASE task' = Failed(task) /\ mover' = mover
  BY <1>1, <1>3, <1>4, <1>6 DEF Honest, Shape
<1> QED BY <1>5, <1>6 DEF Create, Stays

\* moveChunk: DONE and a recorded answer come from the service only.
LEMMA MoveHonest == ASSUME Inv, NEW m \in Moves, MoveChunk(m) PROVE Honest
<1>1. Shape /\ RecordedIsStored
  BY DEF Inv
<1>2. m.chunk \in Chunks
  BY DEF Moves
<1>3. mover[m] > 0
  BY DEF MoveChunk, SendChunk, RecordChunk, PutStored, PutSaturated, PutFails, PutRefused, PutAborted
<1>4. /\ Ended(m) \in [Moves -> Nat]
      /\ \A k \in Moves : Ended(m)[k] > 0 => mover[k] > 0
      /\ FreedSlot(m) \in Tasks /\ FreedSlot(m).chunks = task.chunks
  BY <1>1, <1>3, EndedTypes
<1>5. CASE SendChunk(m)
  <2>1. /\ Advanced(m, "put") \in [Moves -> Nat]
        /\ \A k \in Moves : Advanced(m, "put")[k] > 0 => mover[k] > 0 \/ k.pc = "put"
    BY <1>1, <1>3, AdvancedTypes
  <2>2. mover' \in {Ended(m), Advanced(m, "put")} /\ UNCHANGED <<task, get, stored>>
    BY <1>5 DEF SendChunk, server
  <2> QED BY <1>1, <1>4, <2>1, <2>2 DEF Honest, Shape
<1>6. CASE RecordChunk(m)
  <2>1. /\ Advanced(m, "recorded") \in [Moves -> Nat]
        /\ \A k \in Moves : Advanced(m, "recorded")[k] > 0 => mover[k] > 0 \/ k.chunk = m.chunk
    BY <1>1, <1>3, AdvancedTypes
  <2>2. mover' = Advanced(m, "recorded") /\ stored' = stored \cup {m.chunk} /\ UNCHANGED <<task, get>>
    BY <1>6 DEF RecordChunk
  <2> QED BY <1>1, <1>2, <2>1, <2>2 DEF Honest, Shape
<1>7. CASE PutStored(m)
  <2> DEFINE t == [FreedSlot(m) EXCEPT !.chunks[m.chunk] = "DONE"]
  <2>1. t \in Tasks /\ \A c \in Chunks : t.chunks[c] = "DONE" => task.chunks[c] = "DONE" \/ c = m.chunk
    BY <1>2, <1>4 DEF Tasks
  <2>2. Pump(t, Ended(m), timers) /\ UNCHANGED <<get, stored>> /\ m.pc = "recorded"
    BY <1>7 DEF PutStored, server
  <2> HIDE DEF t
  <2>3. m.chunk \in stored
    BY <1>1, <1>3, <2>2 DEF RecordedIsStored
  <2>4. /\ task' \in Tasks /\ mover' \in [Moves -> Nat]
        /\ \A c \in Chunks : task'.chunks[c] = "DONE" => t.chunks[c] = "DONE"
        /\ \A k \in Moves : k.pc = "recorded" => mover'[k] = Ended(m)[k]
    BY <1>4, <2>1, <2>2, PumpKeeps
  <2> QED BY <1>1, <1>4, <2>1, <2>2, <2>3, <2>4 DEF Honest, Shape
<1>8. CASE PutSaturated(m)
  <2> DEFINE t == [FreedSlot(m) EXCEPT !.chunks[m.chunk] = "PENDING", !.parked = TRUE]
  <2>1. t \in Tasks /\ \A c \in Chunks : t.chunks[c] = "DONE" => task.chunks[c] = "DONE"
    BY <1>2, <1>4 DEF Tasks
  <2>2. Pump(t, Ended(m), timers) /\ UNCHANGED <<get, stored>>
    BY <1>8 DEF PutSaturated, server
  <2> HIDE DEF t
  <2>3. /\ task' \in Tasks /\ mover' \in [Moves -> Nat]
        /\ \A c \in Chunks : task'.chunks[c] = "DONE" => t.chunks[c] = "DONE"
        /\ \A k \in Moves : k.pc = "recorded" => mover'[k] = Ended(m)[k]
    BY <1>4, <2>1, <2>2, PumpKeeps
  <2> QED BY <1>1, <1>4, <2>1, <2>2, <2>3 DEF Honest, Shape
<1>9. CASE PutFails(m) \/ PutRefused(m) \/ PutAborted(m)
  <2>1. Catch(m, TRUE) \/ Catch(m, FALSE)
    BY <1>9 DEF PutFails, PutRefused, PutAborted
  <2>2. get' = get /\ stored' \in {stored, stored \cup {m.chunk}}
    BY <1>9 DEF PutFails, PutRefused, PutAborted, server
  <2>3. /\ task' \in Tasks /\ mover' \in [Moves -> Nat]
        /\ \A c \in Chunks : task'.chunks[c] = "DONE" => task.chunks[c] = "DONE"
        /\ \A k \in Moves : k.pc = "recorded" /\ mover'[k] > 0 => mover[k] > 0
    BY <1>1, <1>3, <2>1, CatchKeeps
  <2> QED BY <1>1, <1>2, <2>2, <2>3 DEF Honest, Shape
<1> QED BY <1>5, <1>6, <1>7, <1>8, <1>9 DEF MoveChunk

\* A request for the map is not an answer.
LEMMA AskedIsNoAnswer ==
    ASSUME Shape, NEW who, AskMap(who)
    PROVE  /\ get' = [g \in Asks |-> get'[g]]
           /\ \A g \in Asks : g.pc = "read" => get'[g] = get[g]
<1> DEFINE k == [pc |-> IF task.disposed THEN "aborted" ELSE "asked", by |-> who, done |-> {}]
<1>1. k.pc # "read"
  OBVIOUS
<1>2. get' = [get EXCEPT ![k] = get[k] + 1]
  BY DEF AskMap
<1> HIDE DEF k
<1>3. get = [g \in Asks |-> get[g]]
  BY DEF Shape
<1>4. get' = [g \in Asks |-> IF g = k THEN get[k] + 1 ELSE get[g]]
  BY <1>2, <1>3
<1> QED BY <1>1, <1>4

\* resume up to its first await.
LEMMA BeginResumeKeeps ==
    ASSUME Shape, NEW tm, BeginResume(tm)
    PROVE  /\ task' \in Tasks /\ mover' \in [Moves -> Nat] /\ get' = [g \in Asks |-> get'[g]]
           /\ \A c \in Chunks : task'.chunks[c] = "DONE" => task.chunks[c] = "DONE"
           /\ \A m \in Moves : m.pc = "recorded" => mover'[m] = mover[m]
           /\ \A g \in Asks : g.pc = "read" => get'[g] = get[g]
<1>1. CASE AskMap("resume") /\ UNCHANGED <<task, mover>>
  BY <1>1, AskedIsNoAnswer DEF Shape
<1>2. CASE Pump([task EXCEPT !.state = "uploading"], mover, tm) /\ get' = get
  <2> DEFINE t == [task EXCEPT !.state = "uploading"]
  <2>1. t \in Tasks /\ t.chunks = task.chunks
    BY DEF Shape, Tasks
  <2>2. Pump(t, mover, tm)
    BY <1>2
  <2> HIDE DEF t
  <2> QED BY <1>2, <2>1, <2>2, PumpKeeps DEF Shape
<1> QED BY <1>1, <1>2 DEF BeginResume

\* The clicks and timers that continue an upload mark nothing as DONE.
LEMMA ResumeHonest == ASSUME Inv, Resume \/ ResumeTimer \/ PumpTimer \/ ParkEnds PROVE Honest
<1>1. Shape
  BY DEF Inv
<1>2. stored' = stored
  BY DEF Resume, ResumeTimer, PumpTimer, ParkEnds, server
<1>3. CASE \E tm : BeginResume(tm)
  BY <1>1, <1>2, <1>3, BeginResumeKeeps DEF Honest, Shape
<1>4. CASE UNCHANGED <<task, mover, get>>
  BY <1>1, <1>2, <1>4 DEF Honest, Shape
<1>5. CASE PumpTimer
  <2>1. (\E tm : Pump(task, mover, tm)) /\ get' = get
    BY <1>5 DEF PumpTimer
  <2> QED BY <1>1, <1>2, <2>1, PumpKeeps DEF Honest, Shape
<1>6. CASE ParkEnds
  <2>1. task' = [task EXCEPT !.parked = FALSE] /\ UNCHANGED <<mover, get>>
    BY <1>6 DEF ParkEnds, calls
  <2>2. task' \in Tasks /\ task'.chunks = task.chunks
    BY <1>1, <2>1 DEF Shape, Tasks
  <2> QED BY <1>1, <1>2, <2>1, <2>2 DEF Honest, Shape
<1> QED BY <1>3, <1>4, <1>5, <1>6 DEF Resume, ResumeTimer

\* resyncFromServer: the answer is read from the service, and adopted as read.
LEMMA ResyncHonest == ASSUME Inv, NEW g \in Asks, Resync(g) PROVE Honest
<1>1. Shape /\ AnswersAreStored
  BY DEF Inv
<1>2. get = [a \in Asks |-> get[a]]
  BY <1>1 DEF Shape
<1>3. get[g] > 0
  BY DEF Resync, GetAnswers, GetApplies, GetFails
<1>4. /\ Answered(g) = [a \in Asks |-> IF a = g THEN get[g] - 1 ELSE get[a]]
  BY <1>2 DEF Answered
<1>5. CASE GetAnswers(g)
  <2> DEFINE h == [g EXCEPT !.pc = "read", !.done = stored]
  <2>1. h.pc = "read" /\ h.done = stored /\ g.pc = "asked"
    BY <1>5 DEF GetAnswers, Asks
  <2>2. get' = [Answered(g) EXCEPT ![h] = get[h] + 1] /\ UNCHANGED <<task, mover, stored>>
    BY <1>5 DEF GetAnswers, server
  <2> HIDE DEF h
  <2>3. get' = [a \in Asks |-> IF a = h THEN get[h] + 1 ELSE IF a = g THEN get[g] - 1 ELSE get[a]]
    BY <1>4, <2>2
  <2> QED BY <1>1, <2>1, <2>2, <2>3 DEF Honest, Shape
<1>6. CASE GetApplies(g)
  <2> DEFINE t == [task EXCEPT !.chunks = Adopted(g.done), !.streams = NoStreams, !.state = "uploading"]
  <2>1. t \in Tasks /\ \A c \in Chunks : t.chunks[c] = "DONE" => c \in g.done
    BY <1>1 DEF Shape, Tasks, Adopted, NoStreams
  <2>2. Pump(t, mover, timers) /\ get' = Answered(g) /\ stored' = stored /\ g.pc = "read"
    BY <1>6 DEF GetApplies, server
  <2> HIDE DEF t
  <2>3. g.done \subseteq stored
    BY <1>1, <1>3, <2>2 DEF AnswersAreStored
  <2>4. /\ task' \in Tasks /\ mover' \in [Moves -> Nat]
        /\ \A c \in Chunks : task'.chunks[c] = "DONE" => t.chunks[c] = "DONE"
        /\ \A k \in Moves : k.pc = "recorded" => mover'[k] = mover[k]
    BY <1>1, <2>1, <2>2, PumpKeeps DEF Shape
  <2> QED BY <1>1, <1>3, <1>4, <2>1, <2>2, <2>3, <2>4 DEF Honest, Shape
<1>7. CASE GetFails(g)
  <2>1. Failed(task) \in Tasks /\ \A c \in Chunks : Failed(task).chunks[c] = "DONE" => task.chunks[c] = "DONE"
    BY <1>1, RevertedTypes DEF Shape
  <2>2. get' = Answered(g) /\ task' \in {task, Failed(task)} /\ UNCHANGED <<mover, stored>>
    BY <1>7 DEF GetFails, server
  <2> QED BY <1>1, <1>3, <1>4, <2>1, <2>2 DEF Honest, Shape
<1> QED BY <1>5, <1>6, <1>7 DEF Resync

\* finish leaves the chunk map alone, or reverts what is in flight.
LEMMA FinishHonest == ASSUME Inv, Finish PROVE Honest
<1>1. Shape
  BY DEF Inv
<1>2. mover' = mover /\ stored' = stored
  BY DEF Finish, CompleteRead, Assembles, CompleteGoes, CompleteLands, CompleteConflicts,
         CompleteFails, CompleteReturns
<1>3. CASE CompleteRead \/ Assembles
  <2>1. task' = task /\ get' = get
    BY <1>3 DEF CompleteRead, Assembles, CompleteGoes
  <2> QED BY <1>1, <1>2, <2>1 DEF Honest, Shape
<1>4. CASE CompleteLands
  <2>1. task' = [task EXCEPT !.state = "landed"] /\ get' = get
    BY <1>4 DEF CompleteLands, Lands
  <2>2. task' \in Tasks /\ task'.chunks = task.chunks
    BY <1>1, <2>1 DEF Shape, Tasks
  <2> QED BY <1>1, <1>2, <2>1, <2>2 DEF Honest, Shape
<1>5. CASE CompleteConflicts
  <2>1. AskMap("finish") /\ task' = task
    BY <1>5 DEF CompleteConflicts
  <2> QED BY <1>1, <1>2, <2>1, AskedIsNoAnswer DEF Honest, Shape
<1>6. CASE \E s \in Stages : CompleteFails(s)
  <2>1. task' = Failed(task) /\ get' = get
    BY <1>6 DEF CompleteFails
  <2> QED BY <1>1, <1>2, <2>1, RevertedTypes DEF Honest, Shape
<1> QED BY <1>3, <1>4, <1>5, <1>6 DEF Finish

\* pause, cancel and dispose: what is aborted will not answer.
LEMMA StopHonest == ASSUME Inv, Pause \/ Cancel \/ Dispose PROVE Honest
<1>1. Shape
  BY DEF Inv
<1>2. Abort /\ stored' = stored
  BY DEF Pause, Cancel, Dispose, server
<1>3. /\ mover' \in [Moves -> Nat]
      /\ \A m \in Moves : m.pc = "recorded" => mover'[m] = 0
  <2>1. \A m \in Moves : [m EXCEPT !.pc = "put"] \in Moves /\ [m EXCEPT !.pc = "recorded"] \in Moves
    BY DEF Moves
  <2> QED BY <1>1, <1>2, <2>1 DEF Abort, Shape
<1>4. /\ get' = [g \in Asks |-> get'[g]]
      /\ \A g \in Asks : g.pc = "read" => get'[g] = 0
  BY <1>2 DEF Abort
<1>5. task' \in Tasks /\ \A c \in Chunks : task'.chunks[c] = "DONE" => task.chunks[c] = "DONE"
  <2>1. CASE Pause
    <3>1. /\ Reverted(task) \in Tasks
          /\ \A c \in Chunks : Reverted(task).chunks[c] = "DONE" => task.chunks[c] = "DONE"
      BY <1>1, RevertedTypes DEF Shape
    <3>2. task' = [Reverted(task) EXCEPT !.state = "paused"]
      BY <2>1 DEF Pause
    <3> QED BY <3>1, <3>2 DEF Tasks
  <2>2. CASE Cancel \/ Dispose
    BY <1>1, <2>2 DEF Cancel, Dispose, Shape, Tasks
  <2> QED BY <2>1, <2>2
<1> QED BY <1>1, <1>2, <1>3, <1>4, <1>5 DEF Honest, Shape

-----------------------------------------------------------------------------
(***************************************************************************)
(* The session.                                                            *)
(***************************************************************************)

\* pump sends completes; it moves none that has arrived.
LEMMA PumpSends ==
    ASSUME Service, NEW t, NEW mv, NEW tm, Pump(t, mv, tm)
    PROVE  /\ completing' \in [Stages -> Nat]
           /\ completing'["assemble"] = completing["assemble"]
           /\ completing'["finish"] = completing["finish"]
BY DEF Service, Stages, Pump

\* A step of the console: it may send a complete or a DELETE, and the service
\* has done nothing but, perhaps, record a chunk.
Quiet ==
    /\ UNCHANGED <<session, landed, published>>
    /\ creating' => creating
    /\ completing' \in [Stages -> Nat]
    /\ completing'["assemble"] = completing["assemble"]
    /\ completing'["finish"] = completing["finish"]
    /\ deleting' \in [{"console", "other"} -> {"no", "sent", "read"}]
    /\ \A d \in {"console", "other"} : deleting'[d] = "read" => deleting[d] = "read"

LEMMA QuietSteps ==
    ASSUME Inv,
           \/ \E m \in Moves : MoveChunk(m)
           \/ ParkEnds \/ PumpTimer \/ ResumeTimer
           \/ \E g \in Asks : Resync(g)
           \/ Resume \/ Pause \/ Cancel \/ Dispose
           \/ UNCHANGED vars
    PROVE  Quiet
<1>1. Service
  BY DEF Inv
<1>2. UNCHANGED <<session, landed, published, creating>>
  BY DEF MoveChunk, SendChunk, RecordChunk, PutStored, PutSaturated, PutFails, PutRefused, PutAborted,
         ParkEnds, PumpTimer, ResumeTimer, Resync, GetAnswers, GetApplies, GetFails,
         Resume, Pause, Cancel, Dispose, vars, calls, server
<1>3. \/ completing' = completing
      \/ \E t, mv, tm : Pump(t, mv, tm)
  BY DEF MoveChunk, SendChunk, RecordChunk, PutStored, PutSaturated, PutFails, PutRefused, PutAborted,
         Catch, ParkEnds, PumpTimer, ResumeTimer, BeginResume, Resync, GetAnswers, GetApplies, GetFails,
         Resume, Pause, Cancel, Dispose, vars, calls
<1>4. \/ deleting' = deleting
      \/ deleting' = [deleting EXCEPT !["console"] = IF task.uploadId THEN "sent" ELSE "no"]
  BY DEF MoveChunk, SendChunk, RecordChunk, PutStored, PutSaturated, PutFails, PutRefused, PutAborted,
         ParkEnds, PumpTimer, ResumeTimer, Resync, GetAnswers, GetApplies, GetFails,
         Resume, Pause, Cancel, Dispose, vars, calls
<1>5. /\ completing' \in [Stages -> Nat]
      /\ completing'["assemble"] = completing["assemble"]
      /\ completing'["finish"] = completing["finish"]
  BY <1>1, <1>3, PumpSends DEF Service
<1>6. /\ deleting' \in [{"console", "other"} -> {"no", "sent", "read"}]
      /\ \A d \in {"console", "other"} : deleting'[d] = "read" => deleting[d] = "read"
  BY <1>1, <1>4 DEF Service
<1> QED BY <1>2, <1>5, <1>6 DEF Quiet

\* The service's own steps keep what the argument needs of it.
LEMMA SessionKept ==
    ASSUME Inv, Honest, [Next]_vars
    PROVE  Service'
<1>1. Service /\ (stored = Chunks => stored' = Chunks) /\ stored \subseteq Chunks
  BY DEF Inv, Honest, Shape
<1> USE DEF Service, CreatedOnce, Begun, CompletingIsWhole, CompletedIsPublished, LandedIsPublished
<1>2. CASE Quiet
  BY <1>1, <1>2 DEF Quiet
<1>3. CASE Create
  <2>1. /\ session = "absent" /\ session' \in {"absent", "ACTIVE"} /\ ~creating'
        /\ UNCHANGED <<deleting, landed, stored, published>>
    BY <1>1, <1>3 DEF Create
  <2>2. (\E t, mv, tm : Pump(t, mv, tm)) \/ completing' = completing
    BY <1>3 DEF Create
  <2>3. /\ completing' \in [Stages -> Nat]
        /\ completing'["assemble"] = completing["assemble"]
        /\ completing'["finish"] = completing["finish"]
    BY <1>1, <2>2, PumpSends
  <2> QED BY <1>1, <2>1, <2>3
<1>4. CASE CompleteRead
  BY <1>1, <1>4 DEF CompleteRead, CompleteGoes, Stages
<1>5. CASE Assembles
  BY <1>1, <1>5 DEF Assembles, CompleteGoes, Stages
<1>6. CASE CompleteLands
  BY <1>1, <1>6 DEF CompleteLands, CompleteReturns, Lands, Stages
<1>7. CASE CompleteConflicts
  BY <1>1, <1>7 DEF CompleteConflicts, CompleteReturns, Stages
<1>8. ASSUME NEW s \in Stages, CompleteFails(s) PROVE Service'
  BY <1>1, <1>8 DEF CompleteFails, CompleteReturns, Stages
<1>9. CASE Delete \/ DeleteElsewhere
  BY <1>1, <1>9 DEF Delete, DeleteRead, DeleteWrites, DeleteFails, DeleteElsewhere, DeleteGoes, Cancellable
<1> QED
  BY <1>2, <1>3, <1>4, <1>5, <1>6, <1>7, <1>8, <1>9, QuietSteps DEF Next, Returns, Finish

\* The inductive invariant holds throughout.
LEMMA InvHolds == Spec => []Inv
<1>1. Init => Inv
  <2>1. SUFFICES ASSUME Init PROVE Inv
    OBVIOUS
  <2>2. task \in Tasks
    BY <2>1, UploadEngineAssumption DEF Init, Tasks, NoStreams
  <2>3. mover \in [Moves -> Nat] /\ get = [g \in Asks |-> get[g]] /\ stored \subseteq Chunks
    BY <2>1 DEF Init
  <2>4. DoneIsStored
    BY <2>1 DEF Init, DoneIsStored
  <2>5. RecordedIsStored /\ AnswersAreStored
    BY <2>1 DEF Init, RecordedIsStored, AnswersAreStored
  <2>6. Service
    BY <2>1 DEF Init, Service, Stages, CreatedOnce, Begun, CompletingIsWhole, CompletedIsPublished,
                LandedIsPublished
  <2> QED BY <2>2, <2>3, <2>4, <2>5, <2>6 DEF Inv, Shape
<1>2. Inv /\ [Next]_vars => Inv'
  <2>1. SUFFICES ASSUME Inv, [Next]_vars PROVE Inv'
    OBVIOUS
  <2>2. Honest
    <3>1. CASE Delete \/ DeleteElsewhere \/ UNCHANGED vars
      <4>1. UNCHANGED <<task, mover, get, stored>>
        BY <3>1 DEF Delete, DeleteRead, DeleteWrites, DeleteFails, DeleteElsewhere, DeleteGoes,
                    vars, calls, server
      <4> QED BY <2>1, <4>1 DEF Inv, Honest, Shape
    <3> QED BY <2>1, <3>1, CreateHonest, MoveHonest, ResumeHonest, ResyncHonest, FinishHonest, StopHonest
            DEF Next, Returns
  <2>3. Shape' /\ DoneIsStored' /\ RecordedIsStored' /\ AnswersAreStored'
    BY <2>1, <2>2, HonestStep
  <2>4. Service'
    BY <2>1, <2>2, SessionKept
  <2> QED BY <2>3, <2>4 DEF Inv
<1> QED BY <1>1, <1>2, PTL DEF Spec

\* The console believes only what the service has: a chunk it shows as DONE is
\* recorded (moveChunk, resyncFromServer), for any file, any number of streams
\* and any sequence of clicks, failures and late answers.
THEOREM ConsoleIsHonest == Spec => []DoneIsStored
<1>1. Inv => DoneIsStored
  BY DEF Inv
<1> QED BY <1>1, InvHolds, PTL

\* An upload it reports as landed is whole, its landed event is published and
\* the session takes no more chunks (finish, handleComplete), however many
\* completes, resyncs and DELETEs were under way, none of which looks at the
\* session again before it writes.
THEOREM LandsOnlyWhole == Spec => []LandedIsPublished
<1>1. Inv => LandedIsPublished
  BY DEF Inv, Service
<1> QED BY <1>1, InvHolds, PTL

-----------------------------------------------------------------------------
(***************************************************************************)
(* Nothing waits for an upload that is not under way.  InflightIsMoved is  *)
(* inductive with the shape of the state; Moved says the same of the       *)
(* object and the movers that pump is called with, between two awaits.     *)
(***************************************************************************)
Moved(t, mv) ==
    /\ \A c \in Chunks : t.chunks[c] = "INFLIGHT"
         => \E m \in Moves : mv[m] > 0 /\ m.chunk = c
    /\ \A s \in Streams : t.streams[s] # None
         => \E m \in Moves : mv[m] > 0 /\ m.slot = s /\ m.chunk = t.streams[s]

\* Every chunk and every slot that pump claims gets its own moveChunk.
LEMMA ClaimsAreMoved ==
    ASSUME NEW t \in Tasks, NEW mv \in [Moves -> Nat], Moved(t, mv)
    PROVE  Moved(Claimed(t, Claims(t)), Spawned(mv, Claims(t)))
<1> DEFINE K == Claims(t)
           next == Claimed(t, K)
           sp == Spawned(mv, K)
<1>1. \A r \in K : r.slot \in Streams /\ r.chunk \in Chunks /\ r = [slot |-> r.slot, chunk |-> r.chunk]
  BY DEF Claims, Claimable
<1>2. sp \in [Moves -> Nat] /\ \A m \in Moves : mv[m] > 0 => sp[m] > 0
  BY DEF Spawned
<1>3. ASSUME NEW r \in K
      PROVE  \E m \in Moves : sp[m] > 0 /\ m.slot = r.slot /\ m.chunk = r.chunk
  <2> DEFINE m == [pc |-> "hash", slot |-> r.slot, chunk |-> r.chunk]
  <2>1. m \in Moves /\ m.pc = "hash" /\ m.slot = r.slot /\ m.chunk = r.chunk
    BY <1>1 DEF Moves
  <2>2. [slot |-> m.slot, chunk |-> m.chunk] \in K
    BY <1>1, <2>1
  <2> HIDE DEF m
  <2>3. sp[m] = mv[m] + 1
    BY <2>1, <2>2 DEF Spawned
  <2>4. mv[m] \in Nat
    BY <2>1
  <2> QED BY <2>1, <2>3, <2>4
<1>4. /\ next.chunks = [c \in Chunks |-> IF \E r \in K : r.chunk = c THEN "INFLIGHT" ELSE t.chunks[c]]
      /\ next.streams = [s \in Streams |-> IF \E r \in K : r.slot = s
                                            THEN (CHOOSE r \in K : r.slot = s).chunk
                                            ELSE t.streams[s]]
  BY DEF Claimed, Tasks
<1> HIDE DEF K, next, sp
<1>5. ASSUME NEW c \in Chunks, next.chunks[c] = "INFLIGHT"
      PROVE  \E m \in Moves : sp[m] > 0 /\ m.chunk = c
  BY <1>2, <1>3, <1>4, <1>5 DEF Moved
<1>6. ASSUME NEW s \in Streams, next.streams[s] # None
      PROVE  \E m \in Moves : sp[m] > 0 /\ m.slot = s /\ m.chunk = next.streams[s]
  <2>1. CASE \E r \in K : r.slot = s
    <3>1. PICK r \in K : r.slot = s /\ r = (CHOOSE q \in K : q.slot = s)
      BY <2>1
    <3>2. next.streams[s] = r.chunk
      BY <1>4, <2>1, <3>1
    <3> QED BY <1>3, <3>1, <3>2
  <2>2. CASE ~ \E r \in K : r.slot = s
    BY <1>2, <1>4, <1>6, <2>2 DEF Moved
  <2> QED BY <2>1, <2>2
<1>7. Moved(next, sp)
  BY <1>5, <1>6 DEF Moved
<1> QED BY <1>7 DEF next, sp, K

\* A task with no chunk in flight and no slot taken waits for nobody.
LEMMA NothingInFlight ==
    ASSUME NEW t \in Tasks, NEW mv, t.streams = NoStreams, \A c \in Chunks : t.chunks[c] # "INFLIGHT"
    PROVE  Moved(t, mv)
BY DEF Moved, NoStreams

LEMMA PumpMoves ==
    ASSUME NEW t \in Tasks, NEW mv \in [Moves -> Nat], NEW tm, Pump(t, mv, tm), Moved(t, mv)
    PROVE  Moved(task', mover')
<1> DEFINE next == Claimed(t, Claims(t))
<1>1. next \in Tasks
  BY ClaimedTypes
<1>2. Moved(next, Spawned(mv, Claims(t)))
  BY ClaimsAreMoved
<1>3. \/ task' = t /\ mover' = mv
      \/ task' = next /\ mover' = Spawned(mv, Claims(t))
      \/ task' = [next EXCEPT !.state = "verifying"] /\ next.streams = NoStreams /\ AllDone(next)
  BY DEF Pump, Stays
<1> HIDE DEF next
<1>4. CASE task' = [next EXCEPT !.state = "verifying"] /\ next.streams = NoStreams /\ AllDone(next)
  <2>1. /\ task' \in Tasks /\ task'.streams = NoStreams
        /\ \A c \in Chunks : task'.chunks[c] # "INFLIGHT"
    BY <1>1, <1>4 DEF Tasks, AllDone
  <2> QED BY <2>1 DEF Moved, NoStreams
<1> QED BY <1>2, <1>3, <1>4

\* revertInflight and fail leave nothing in flight.
LEMMA RevertedMoves ==
    ASSUME NEW t \in Tasks, NEW mv
    PROVE  Moved(Reverted(t), mv) /\ Moved(Failed(t), mv)
<1>1. /\ Reverted(t) \in Tasks /\ Reverted(t).streams = NoStreams
      /\ \A c \in Chunks : Reverted(t).chunks[c] # "INFLIGHT"
  BY RevertedTypes DEF Reverted, Tasks
<1>2. /\ Failed(t) \in Tasks /\ Failed(t).streams = NoStreams
      /\ Failed(t).chunks = Reverted(t).chunks
  BY <1>1, RevertedTypes DEF Failed, Tasks
<1> QED BY <1>1, <1>2, NothingInFlight

\* An invocation of moveChunk that returns frees its slot and takes its chunk
\* out of flight; what the others wait for stays.
LEMMA ReturnMoves ==
    ASSUME Shape, Moved(task, mover), NEW m \in Moves, NEW t \in Tasks, mover[m] > 0,
           t.streams = [task.streams EXCEPT ![m.slot] = None],
           t.chunks[m.chunk] # "INFLIGHT",
           \A c \in Chunks \ {m.chunk} : t.chunks[c] = task.chunks[c]
    PROVE  Moved(t, Ended(m))
<1>1. mover \in [Moves -> Nat] /\ task \in Tasks /\ m.slot \in Streams /\ m.chunk \in Chunks
  BY DEF Shape, Moves
<1>2. \A k \in Moves \ {m} : Ended(m)[k] = mover[k]
  BY <1>1 DEF Ended
<1>3. task.streams \in [Streams -> Chunks \cup {None}]
  BY <1>1 DEF Tasks
<1>4. ASSUME NEW c \in Chunks, t.chunks[c] = "INFLIGHT"
      PROVE  \E k \in Moves : Ended(m)[k] > 0 /\ k.chunk = c
  BY <1>2, <1>4 DEF Moved
<1>5. ASSUME NEW s \in Streams, t.streams[s] # None
      PROVE  \E k \in Moves : Ended(m)[k] > 0 /\ k.slot = s /\ k.chunk = t.streams[s]
  <2>1. s # m.slot /\ t.streams[s] = task.streams[s]
    BY <1>1, <1>3, <1>5
  <2> QED BY <1>2, <1>5, <2>1 DEF Moved
<1> QED BY <1>4, <1>5 DEF Moved

\* pump, revertInflight and fail do not bring a disposed engine back.
LEMMA PumpDisposed ==
    ASSUME NEW t \in Tasks, NEW mv, NEW tm, Pump(t, mv, tm)
    PROVE  task'.disposed = t.disposed
<1> DEFINE next == Claimed(t, Claims(t))
<1>1. next \in Tasks /\ next.disposed = t.disposed
  BY ClaimedTypes DEF Claimed, Tasks
<1>2. task' \in {t, next, [next EXCEPT !.state = "verifying"]}
  BY DEF Pump, Stays
<1> HIDE DEF next
<1> QED BY <1>1, <1>2 DEF Tasks

LEMMA FailedDisposed ==
    ASSUME NEW t \in Tasks PROVE Reverted(t).disposed = t.disposed /\ Failed(t).disposed = t.disposed
<1>1. Reverted(t) \in Tasks /\ Reverted(t).disposed = t.disposed
  BY RevertedTypes DEF Reverted, Tasks
<1> QED BY <1>1 DEF Failed, Tasks

\* What every action has to show: a step that leaves the engine alive found it
\* alive, and then kept a mover for everything in flight.
StaysMoved ==
    ~task'.disposed => ~task.disposed /\ (Moved(task, mover) => Moved(task', mover'))

\* A call of pump does, on an object that waits for nobody in vain.
LEMMA PumpStaysMoved ==
    ASSUME NEW t \in Tasks, NEW mv \in [Moves -> Nat], NEW tm, Pump(t, mv, tm),
           t.disposed = task.disposed, Moved(task, mover) => Moved(t, mv)
    PROVE  StaysMoved
BY PumpMoves, PumpDisposed DEF StaysMoved

\* createUpload answers.
LEMMA CreateMoved == ASSUME Shape, Create PROVE StaysMoved
<1> DEFINE t == [task EXCEPT !.uploadId = TRUE, !.chunks = [c \in Chunks |-> "PENDING"]]
<1>1. task \in Tasks /\ mover \in [Moves -> Nat]
  BY DEF Shape
<1>2. /\ t \in Tasks /\ t.disposed = task.disposed /\ t.streams = task.streams
      /\ \A c \in Chunks : t.chunks[c] = "PENDING"
  BY <1>1 DEF Tasks
<1>3. Pump(t, mover, timers) \/ (task' = Failed(task) /\ mover' = mover)
  BY DEF Create, Stays
<1> HIDE DEF t
<1>4. CASE Pump(t, mover, timers)
  <2>1. Moved(task, mover) => Moved(t, mover)
    BY <1>2 DEF Moved
  <2> QED BY <1>1, <1>2, <1>4, <2>1, PumpStaysMoved
<1>5. CASE task' = Failed(task) /\ mover' = mover
  BY <1>1, <1>5, RevertedMoves, FailedDisposed DEF StaysMoved
<1> QED BY <1>3, <1>4, <1>5

\* The object after an answer to a PUT, before pump.
LEMMA FreedMoves ==
    ASSUME Shape, NEW m \in Moves, mover[m] > 0, NEW t \in Tasks, NEW cell,
           cell # "INFLIGHT", t.streams = FreedSlot(m).streams,
           t.chunks = [FreedSlot(m).chunks EXCEPT ![m.chunk] = cell]
    PROVE  Moved(task, mover) => Moved(t, Ended(m))
<1>1. task \in Tasks /\ m.slot \in Streams /\ m.chunk \in Chunks
  BY DEF Shape, Moves
<1>2. /\ FreedSlot(m).streams = [task.streams EXCEPT ![m.slot] = None]
      /\ FreedSlot(m).chunks = task.chunks
      /\ task.chunks \in [Chunks -> {"PENDING", "INFLIGHT", "DONE", "RETRY"}]
  BY <1>1 DEF FreedSlot, Tasks
<1>3. /\ t.chunks[m.chunk] # "INFLIGHT"
      /\ \A c \in Chunks \ {m.chunk} : t.chunks[c] = task.chunks[c]
  BY <1>1, <1>2
<1> QED BY <1>2, <1>3, ReturnMoves

\* The catch of moveChunk.
LEMMA CatchMoved ==
    ASSUME Shape, NEW m \in Moves, mover[m] > 0, NEW transport, Catch(m, transport)
    PROVE  StaysMoved
<1> DEFINE c == m.chunk
           n == IF task.attempts[c] < MaxAttempts THEN task.attempts[c] + 1 ELSE MaxAttempts
           t == [FreedSlot(m) EXCEPT !.attempts[c] = n]
           u == [t EXCEPT !.chunks[c] = "RETRY"]
<1>1. /\ Ended(m) \in [Moves -> Nat] /\ task \in Tasks
      /\ FreedSlot(m) \in Tasks /\ FreedSlot(m).disposed = task.disposed
  BY EndedTypes DEF FreedSlot, Shape, Tasks
<1>2. c \in Chunks
  BY DEF Moves
<1>3. n \in 0..MaxAttempts
  <2>1. task.attempts[c] \in 0..MaxAttempts
    BY <1>2 DEF Shape, Tasks
  <2> QED BY <2>1, UploadEngineAssumption
<1>4. \/ task' = task /\ task.disposed
      \/ Pump(u, Ended(m), timers)
      \/ task' = Failed(t)
  BY DEF Catch, Stays
<1> HIDE DEF n, c
<1>5. /\ t \in Tasks /\ t.disposed = task.disposed /\ t.streams = FreedSlot(m).streams
      /\ t.chunks = FreedSlot(m).chunks
  BY <1>1, <1>2, <1>3 DEF Tasks
<1> HIDE DEF t
<1>6. /\ u \in Tasks /\ u.disposed = task.disposed /\ u.streams = FreedSlot(m).streams
      /\ u.chunks = [FreedSlot(m).chunks EXCEPT ![c] = "RETRY"]
  BY <1>2, <1>5 DEF Tasks
<1> HIDE DEF u
<1>7. CASE task' = task /\ task.disposed
  BY <1>7 DEF StaysMoved
<1>8. CASE Pump(u, Ended(m), timers)
  <2>1. Moved(task, mover) => Moved(u, Ended(m))
    BY <1>6, FreedMoves DEF c
  <2> QED BY <1>1, <1>6, <1>8, <2>1, PumpStaysMoved
<1>9. CASE task' = Failed(t)
  BY <1>5, <1>9, RevertedMoves, FailedDisposed DEF StaysMoved
<1> QED BY <1>4, <1>7, <1>8, <1>9

\* moveChunk.
LEMMA MoveMoved == ASSUME Shape, NEW m \in Moves, MoveChunk(m) PROVE StaysMoved
<1>1. mover[m] > 0 /\ task \in Tasks /\ m.chunk \in Chunks /\ mover \in [Moves -> Nat]
  BY DEF Shape, Moves, MoveChunk, SendChunk, RecordChunk, PutStored, PutSaturated, PutFails, PutRefused, PutAborted
<1>2. /\ Ended(m) \in [Moves -> Nat] /\ FreedSlot(m) \in Tasks
      /\ FreedSlot(m).disposed = task.disposed
  BY <1>1, EndedTypes DEF FreedSlot, Tasks
<1>3. ASSUME NEW pc \in {"put", "recorded"}, mover' = Advanced(m, pc), task' = task PROVE StaysMoved
  <2>1. PICK n \in Moves : n = [m EXCEPT !.pc = pc] /\ n.slot = m.slot /\ n.chunk = m.chunk
    <3>1. /\ [m EXCEPT !.pc = pc] \in Moves
          /\ [m EXCEPT !.pc = pc].slot = m.slot /\ [m EXCEPT !.pc = pc].chunk = m.chunk
      BY DEF Moves
    <3> QED BY <3>1
  <2>2. mover' = [Ended(m) EXCEPT ![n] = mover[n] + 1]
    BY <1>3, <2>1 DEF Advanced
  <2>3. mover'[n] > 0 /\ \A k \in Moves \ {m} : mover[k] > 0 => mover'[k] > 0
    BY <1>1, <1>2, <2>2 DEF Ended
  <2>4. \A k \in Moves : mover[k] > 0 =>
            \E l \in Moves : mover'[l] > 0 /\ l.slot = k.slot /\ l.chunk = k.chunk
    BY <2>1, <2>3
  <2> QED BY <1>3, <2>4 DEF StaysMoved, Moved
<1>4. CASE SendChunk(m) \/ RecordChunk(m)
  <2>1. CASE task' = task /\ task.disposed
    BY <2>1 DEF StaysMoved
  <2> QED BY <1>3, <1>4, <2>1 DEF SendChunk, RecordChunk
<1>5. CASE PutStored(m)
  <2> DEFINE t == [FreedSlot(m) EXCEPT !.chunks[m.chunk] = "DONE"]
  <2>1. /\ t \in Tasks /\ t.disposed = task.disposed /\ t.streams = FreedSlot(m).streams
        /\ t.chunks = [FreedSlot(m).chunks EXCEPT ![m.chunk] = "DONE"]
    BY <1>1, <1>2 DEF Tasks
  <2>2. Pump(t, Ended(m), timers)
    BY <1>5 DEF PutStored
  <2> HIDE DEF t
  <2>3. Moved(task, mover) => Moved(t, Ended(m))
    BY <1>1, <2>1, FreedMoves
  <2> QED BY <1>2, <2>1, <2>2, <2>3, PumpStaysMoved
<1>6. CASE PutSaturated(m)
  <2> DEFINE t == [FreedSlot(m) EXCEPT !.chunks[m.chunk] = "PENDING", !.parked = TRUE]
  <2>1. /\ t \in Tasks /\ t.disposed = task.disposed /\ t.streams = FreedSlot(m).streams
        /\ t.chunks = [FreedSlot(m).chunks EXCEPT ![m.chunk] = "PENDING"]
    BY <1>1, <1>2 DEF Tasks
  <2>2. Pump(t, Ended(m), timers)
    BY <1>6 DEF PutSaturated
  <2> HIDE DEF t
  <2>3. Moved(task, mover) => Moved(t, Ended(m))
    BY <1>1, <2>1, FreedMoves
  <2> QED BY <1>2, <2>1, <2>2, <2>3, PumpStaysMoved
<1>7. CASE PutFails(m) \/ PutRefused(m) \/ PutAborted(m)
  BY <1>1, <1>7, CatchMoved DEF PutFails, PutRefused, PutAborted
<1> QED BY <1>4, <1>5, <1>6, <1>7 DEF MoveChunk

\* resume, its timer, and the timers of pump.
LEMMA ResumeMoved == ASSUME Shape, Resume \/ ResumeTimer \/ PumpTimer \/ ParkEnds PROVE StaysMoved
<1>1. task \in Tasks /\ mover \in [Moves -> Nat]
  BY DEF Shape
<1>2. CASE task' = task /\ mover' = mover
  BY <1>2 DEF StaysMoved
<1>3. ASSUME NEW tm, Pump(task, mover, tm) PROVE StaysMoved
  BY <1>1, <1>3, PumpStaysMoved
<1>4. ASSUME NEW tm, Pump([task EXCEPT !.state = "uploading"], mover, tm) PROVE StaysMoved
  <2> DEFINE t == [task EXCEPT !.state = "uploading"]
  <2>1. t \in Tasks /\ t.disposed = task.disposed /\ t.streams = task.streams /\ t.chunks = task.chunks
    BY <1>1 DEF Tasks
  <2>2. Pump(t, mover, tm)
    BY <1>4
  <2> HIDE DEF t
  <2>3. Moved(task, mover) => Moved(t, mover)
    BY <2>1 DEF Moved
  <2> QED BY <1>1, <2>1, <2>2, <2>3, PumpStaysMoved
<1>5. CASE ParkEnds
  <2>1. task' = [task EXCEPT !.parked = FALSE] /\ mover' = mover
    BY <1>5 DEF ParkEnds, calls
  <2>2. task'.disposed = task.disposed /\ task'.streams = task.streams /\ task'.chunks = task.chunks
    BY <1>1, <2>1 DEF Tasks
  <2> QED BY <2>1, <2>2 DEF StaysMoved, Moved
<1> QED BY <1>2, <1>3, <1>4, <1>5 DEF Resume, ResumeTimer, PumpTimer, BeginResume

\* resyncFromServer: the map it adopts has nothing in flight, and the slots are
\* free, although the invocations of before still run.
LEMMA ResyncMoved == ASSUME Shape, NEW g \in Asks, Resync(g) PROVE StaysMoved
<1>1. task \in Tasks /\ mover \in [Moves -> Nat]
  BY DEF Shape
<1>2. CASE task' = task /\ mover' = mover
  BY <1>2 DEF StaysMoved
<1>3. CASE GetApplies(g)
  <2> DEFINE t == [task EXCEPT !.chunks = Adopted(g.done), !.streams = NoStreams, !.state = "uploading"]
  <2>1. /\ t \in Tasks /\ t.disposed = task.disposed /\ t.streams = NoStreams
        /\ \A c \in Chunks : t.chunks[c] # "INFLIGHT"
    BY <1>1 DEF Tasks, Adopted, NoStreams
  <2>2. Pump(t, mover, timers)
    BY <1>3 DEF GetApplies
  <2> HIDE DEF t
  <2>3. Moved(t, mover)
    BY <2>1, NothingInFlight
  <2> QED BY <1>1, <2>1, <2>2, <2>3, PumpStaysMoved
<1>4. CASE task' = Failed(task)
  BY <1>1, <1>4, RevertedMoves, FailedDisposed DEF StaysMoved
<1> QED BY <1>2, <1>3, <1>4 DEF Resync, GetAnswers, GetFails

\* finish, and the clicks that stop the engine.
LEMMA StopMoved == ASSUME Shape, Finish \/ Pause \/ Cancel \/ Dispose PROVE StaysMoved
<1>1. task \in Tasks /\ mover \in [Moves -> Nat]
  BY DEF Shape
<1>2. CASE CompleteLands
  <2>1. task' = [task EXCEPT !.state = "landed"] /\ mover' = mover
    BY <1>2 DEF CompleteLands, CompleteReturns, Lands
  <2>2. task'.disposed = task.disposed /\ task'.streams = task.streams /\ task'.chunks = task.chunks
    BY <1>1, <2>1 DEF Tasks
  <2> QED BY <2>1, <2>2 DEF StaysMoved, Moved
<1>3. CASE CompleteRead \/ Assembles \/ CompleteConflicts
  BY <1>3 DEF CompleteRead, Assembles, CompleteGoes, CompleteConflicts, CompleteReturns, StaysMoved
<1>4. CASE \E s \in Stages : CompleteFails(s)
  BY <1>1, <1>4, RevertedMoves, FailedDisposed DEF CompleteFails, StaysMoved
<1>5. CASE Pause
  <2>1. task' = [Reverted(task) EXCEPT !.state = "paused"]
    BY <1>5 DEF Pause
  <2>2. Reverted(task) \in Tasks /\ Moved(Reverted(task), mover') /\ Reverted(task).disposed = task.disposed
    BY <1>1, RevertedTypes, RevertedMoves, FailedDisposed
  <2>3. /\ task'.disposed = Reverted(task).disposed /\ task'.streams = Reverted(task).streams
        /\ task'.chunks = Reverted(task).chunks
    BY <2>1, <2>2 DEF Tasks
  <2> QED BY <2>2, <2>3 DEF StaysMoved, Moved
<1>6. CASE Cancel \/ Dispose
  <2>1. task'.disposed
    BY <1>1, <1>6 DEF Cancel, Dispose, Tasks
  <2> QED BY <2>1 DEF StaysMoved
<1> QED BY <1>2, <1>3, <1>4, <1>5, <1>6 DEF Finish

\* Nothing waits in vain: as long as the engine is alive, a chunk in flight and
\* a taken stream slot each have an invocation of moveChunk that will free
\* them, for any number of chunks, streams, pauses, double resumes and late
\* answers (pump, moveChunk, revertInflight, resyncFromServer).
THEOREM NothingWaitsInVain == Spec => []InflightIsMoved
<1>1. Init => InflightIsMoved
  BY DEF Init, InflightIsMoved, NoStreams
<1>2. Inv /\ InflightIsMoved /\ [Next]_vars => InflightIsMoved'
  <2>1. SUFFICES ASSUME Inv, InflightIsMoved, [Next]_vars PROVE InflightIsMoved'
    OBVIOUS
  <2>2. StaysMoved
    <3>1. CASE Delete \/ DeleteElsewhere \/ UNCHANGED vars
      BY <3>1 DEF Delete, DeleteRead, DeleteWrites, DeleteFails, DeleteElsewhere, DeleteGoes,
                  vars, calls, StaysMoved
    <3> QED BY <2>1, <3>1, CreateMoved, MoveMoved, ResumeMoved, ResyncMoved, StopMoved
            DEF Inv, Next, Returns
  <2> QED BY <2>1, <2>2 DEF StaysMoved, InflightIsMoved, Moved
<1> QED BY <1>1, <1>2, InvHolds, PTL DEF Spec

=============================================================================
