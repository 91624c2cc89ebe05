------------------------ MODULE UploadSessionProofs ------------------------
(***************************************************************************)
(* One upload session, for any number of chunks, handlers and failures.    *)
(*                                                                         *)
(* What makes concurrent assembly safe is that the multipart upload is     *)
(* completed at most once: before it is gone there is no object anywhere   *)
(* (Fresh), and whatever objects there are afterwards, in the staging      *)
(* area, under assets/, in the row, in the events and in the handlers, are *)
(* the same one (OneObject).  The rest is what a handler may rely on at    *)
(* each of its steps (Progress, Collecting), and every step of every other *)
(* handler keeps that (Evolves).                                           *)
(***************************************************************************)
EXTENDS UploadSession, FiniteSetTheorems, TLAPS

Places  == {"idle"} \cup PutSteps \cup CompleteSteps \cup CancelSteps
Records == [pc : Places, chunk : Chunks \cup {None}, body : Contents \cup {None},
            etags : Files \cup {None}, object : Files \cup {None}]

\* Every object there is, wherever it is kept or known.
Objects ==
    ({staging, sess.object} \cup {call[i].object : i \in Calls} \cup landed
       \cup {a[1] : a \in assets} \cup {a[2] : a \in assets}) \ {None}

Fresh     == multipart # "gone" => Objects = {}
OneObject == \A a, b \in Objects : a = b

\* A recorded chunk has the ETag of its part.
Recorded == \A c \in Chunks : chunk[c].state = "DONE" => chunk[c].etag \in Contents

\* handleCreate is alone with the session until it answers.
Opening ==
    /\ creating # "open" => \A i \in Calls : call[i].pc = "idle"
    /\ creating = "start" => multipart = "none" /\ sess.state = "ABSENT"
    /\ creating \in {"persist", "meter", "rollback", "drop"} => multipart = "open"
    /\ creating = "persist" => sess.state = "ABSENT"
    /\ creating \in {"meter", "rollback"} => sess.state = "ACTIVE"

\* What is announced or recorded is in the bucket.
Stored ==
    /\ \A o \in landed : <<o, o>> \in assets
    /\ sess.object # None => <<sess.object, sess.object>> \in assets
    /\ sess.state = "ASSEMBLED" => sess.object # None

\* What handlePutChunk and handleComplete rely on at each step.
Equipped(x) ==
    /\ x.pc \in PutSteps => x.chunk \in Chunks /\ x.body \in Contents
    /\ x.pc = "assemble" => x.etags \in Files
    /\ x.pc \in {"copy", "clean", "record", "landing", "landed", "meter", "finish"} => x.object \in Files

Progress(x) ==
    /\ x.pc \in {"clean", "record", "landing", "landed", "meter", "finish"} => <<x.object, x.object>> \in assets
    /\ x.pc \in {"landing", "landed", "meter", "finish"} => sess.object # None
    /\ x.pc \in {"meter", "finish"} => x.object \in landed
    /\ x.pc = "finish" => metered

\* What handleCancel has collected at each step.
Collecting(x) ==
    /\ x.pc \in {"look", "delete", "cancel"} => multipart = "gone"
    /\ x.pc = "cancel" /\ faults = 0 => staging = None

Handled(x) == Equipped(x) /\ Progress(x) /\ Collecting(x)

Held == {i \in Calls : call[i].pc \in Admitted}

Inv ==
    /\ TypeOK
    /\ Fresh /\ OneObject
    /\ Recorded
    /\ Opening
    /\ Stored
    /\ \A i \in Calls : Handled(call[i])
    /\ CompletedIsAnnounced /\ CancelledIsCollected /\ InflightIsExact

-----------------------------------------------------------------------------
(* What every handler may count on while others run.                       *)

\* Bytes admitted for a handler at this place.
Weight(pc) == IF pc \in Admitted THEN 1 ELSE 0

\* The variables other than the handlers and the gauge keep their kinds.
Typed ==
    /\ sess \in [state : {"ABSENT", "ACTIVE", "ASSEMBLED", "COMPLETED", "CANCELLED"},
                 object : Files \cup {None}]
    /\ chunk \in [Chunks -> [state : {"PENDING", "INFLIGHT", "DONE", "RETRY"},
                             etag : Contents \cup {None}]]
    /\ multipart \in {"none", "open", "gone"}
    /\ parts \in [Chunks -> Contents \cup {None}]
    /\ staging \in Files \cup {None}
    /\ assets \subseteq Files \X Files
    /\ landed \subseteq Files
    /\ metered \in BOOLEAN
    /\ faults \in Nat

\* No handler takes back what another one has achieved.
Evolves ==
    /\ assets \subseteq assets' /\ landed \subseteq landed' /\ (metered => metered')
    /\ sess.object # None => sess'.object # None
    /\ multipart' \in {multipart, "gone"}
    /\ multipart # "open" => staging' \in {staging, None}
    /\ faults' = 0 => faults = 0

LEMMA NoneIsNothing ==
    ASSUME UploadAssumption
    PROVE  None \notin Chunks /\ None \notin Contents /\ None \notin Files
BY DEF UploadAssumption, Files

LEMMA NoCallShape ==
    ASSUME UploadAssumption
    PROVE  /\ NoCall \in Records /\ NoCall.pc = "idle" /\ NoCall.object = None
           /\ Weight("idle") = 0 /\ Handled(NoCall) /\ Handled(NoCall)'
<1>1. NoCall \in Records /\ NoCall.pc = "idle" /\ NoCall.object = None
  BY DEF NoCall, Records, Places
<1>2. Weight("idle") = 0
  BY DEF Weight, Admitted
<1>3. Equipped(NoCall)
  BY <1>1 DEF Equipped, PutSteps, Admitted
<1>4. Progress(NoCall) /\ Progress(NoCall)' /\ Collecting(NoCall) /\ Collecting(NoCall)'
  BY <1>1 DEF Progress, Collecting, NoCall
<1>5. Equipped(NoCall)'
  BY <1>3 DEF Equipped, NoCall
<1> QED BY <1>1, <1>2, <1>3, <1>4, <1>5 DEF Handled

LEMMA CallAt ==
    ASSUME Inv, NEW i \in Calls
    PROVE  /\ call \in [Calls -> Records] /\ call[i] \in Records /\ Handled(call[i])
           /\ call[i].pc # "idle" => creating = "open"
BY DEF Inv, TypeOK, Records, Places, Opening

\* A handler that moves on within its operation.
LEMMA MovesOn ==
    ASSUME Inv, NEW i \in Calls, NEW p \in Places, Goto(i, p)
    PROVE  \E x \in Records :
             /\ call' = [call EXCEPT ![i] = x] /\ x.pc = p /\ x.chunk = call[i].chunk
             /\ x.body = call[i].body /\ x.etags = call[i].etags /\ x.object = call[i].object
<1>1. call[i] \in Records
  BY CallAt
<1> DEFINE x == [call[i] EXCEPT !.pc = p]
<1>2. /\ x \in Records /\ x.pc = p /\ x.chunk = call[i].chunk
      /\ x.body = call[i].body /\ x.etags = call[i].etags /\ x.object = call[i].object
  BY <1>1 DEF Records
<1>3. call' = [call EXCEPT ![i] = x]
  BY DEF Goto
<1> HIDE DEF x
<1> QED BY <1>2, <1>3

\* Where the objects are after a step that adds none.
LEMMA NoNewObject ==
    ASSUME Inv, NEW i \in Calls, NEW x \in Records, call' = [call EXCEPT ![i] = x],
           x.object \in Objects \cup {None}, staging' \in Objects \cup {None},
           sess'.object \in Objects \cup {None}, landed' \subseteq landed \cup Objects,
           \A a \in assets' : a \in assets \/ (a[1] \in Objects /\ a[2] \in Objects)
    PROVE  Objects' \subseteq Objects
<1> SUFFICES ASSUME NEW o \in Objects', o \notin Objects PROVE FALSE
  OBVIOUS
<1>1. o # None
  BY DEF Objects
<1>2. o \notin landed /\ (\A a \in assets : o # a[1] /\ o # a[2]) /\ \A j \in Calls : o # call[j].object
  BY <1>1 DEF Objects
<1>3. \A j \in Calls : o # call'[j].object
  BY <1>1, <1>2, CallAt
<1>4. o \notin landed' /\ o # staging' /\ o # sess'.object
  BY <1>1, <1>2
<1>5. \A a \in assets' : o # a[1] /\ o # a[2]
  BY <1>2
<1> QED BY <1>3, <1>4, <1>5 DEF Objects

\* What is known is among the objects.
LEMMA KnownObjects ==
    ASSUME Inv, NEW i \in Calls
    PROVE  /\ staging \in Objects \cup {None} /\ sess.object \in Objects \cup {None}
           /\ call[i].object \in Objects \cup {None}
BY DEF Objects

\* The gauge after a step of one handler.
LEMMA GaugeMoves ==
    ASSUME UploadAssumption, Inv, NEW i \in Calls, NEW x \in Records, call' = [call EXCEPT ![i] = x],
           inflight' = inflight + Weight(x.pc) - Weight(call[i].pc), inflight' <= Ceiling
    PROVE  InflightIsExact' /\ inflight' \in Nat
<1>1. IsFiniteSet(Held) /\ inflight = Cardinality(Held)
  <2>1. IsFiniteSet(Held)
    BY FS_Subset DEF UploadAssumption, Held
  <2> QED BY <2>1 DEF Inv, InflightIsExact, Held
<1>2. i \in Held <=> call[i].pc \in Admitted
  BY DEF Held
<1>3. Held' = IF x.pc \in Admitted THEN Held \cup {i} ELSE Held \ {i}
  <2>1. call'[i] = x /\ \A j \in Calls \ {i} : call'[j] = call[j]
    BY CallAt
  <2>2. \A j \in Calls : j \in Held' <=> call'[j].pc \in Admitted
    BY DEF Held
  <2>3. \A j \in Calls : j \in Held <=> call[j].pc \in Admitted
    BY DEF Held
  <2>4. Held \subseteq Calls /\ Held' \subseteq Calls
    BY DEF Held
  <2>5. CASE x.pc \in Admitted
    BY <2>1, <2>2, <2>3, <2>4, <2>5
  <2>6. CASE x.pc \notin Admitted
    BY <2>1, <2>2, <2>3, <2>4, <2>6
  <2> QED BY <2>5, <2>6
<1>4. /\ IsFiniteSet(Held \cup {i}) /\ IsFiniteSet(Held \ {i})
      /\ Cardinality(Held \cup {i}) = IF i \in Held THEN Cardinality(Held) ELSE Cardinality(Held) + 1
      /\ Cardinality(Held \ {i}) = IF i \in Held THEN Cardinality(Held) - 1 ELSE Cardinality(Held)
      /\ Cardinality(Held) \in Nat
  BY <1>1, FS_AddElement, FS_RemoveElement, FS_CardinalityType
<1>5. inflight' = Cardinality(Held') /\ IsFiniteSet(Held')
  <2>1. CASE x.pc \in Admitted
    BY <1>1, <1>2, <1>3, <1>4, <2>1 DEF Weight
  <2>2. CASE x.pc \notin Admitted
    BY <1>1, <1>2, <1>3, <1>4, <2>2 DEF Weight
  <2> QED BY <2>1, <2>2
<1>6. inflight' \in Nat
  BY <1>5, FS_CardinalityType
<1> QED BY <1>5, <1>6 DEF InflightIsExact, Held

\* The other handlers keep what they rely on.
LEMMA OthersUnharmed ==
    ASSUME UploadAssumption, Inv, Evolves, Typed', NEW i \in Calls, NEW x \in Records,
           call' = [call EXCEPT ![i] = x], Equipped(x), Progress(x)', Collecting(x)'
    PROVE  \A j \in Calls : Handled(call[j])'
<1> SUFFICES ASSUME NEW j \in Calls PROVE Handled(call[j])'
  OBVIOUS
<1>1. CASE j = i
  <2>1. call'[j] = x
    BY <1>1, CallAt
  <2>2. Equipped(call[j])'
    BY <2>1 DEF Equipped
  <2>3. Progress(call[j])'
    BY <2>1 DEF Progress
  <2>4. Collecting(call[j])'
    BY <2>1 DEF Collecting
  <2> QED BY <2>2, <2>3, <2>4 DEF Handled
<1>2. CASE j # i
  <2>1. call'[j] = call[j] /\ Handled(call[j])
    BY <1>2, CallAt
  <2>2. Equipped(call[j])'
    BY <2>1 DEF Handled, Equipped
  <2>3. Progress(call[j])'
    BY <2>1 DEF Handled, Progress, Evolves
  <2>4. Collecting(call[j])'
    BY <2>1 DEF Handled, Collecting, Evolves
  <2> QED BY <2>2, <2>3, <2>4 DEF Handled
<1> QED BY <1>1, <1>2

\* One step of a handler of an open session, which ends at x.
LEMMA HandlerMoves ==
    ASSUME UploadAssumption, Inv, creating = "open", creating' = creating,
           NEW i \in Calls, NEW x \in Records, call' = [call EXCEPT ![i] = x],
           Evolves, Typed', Recorded', Stored', CompletedIsAnnounced', CancelledIsCollected',
           Equipped(x), Progress(x)', Collecting(x)',
           Objects' \subseteq Objects \/ (multipart' = "gone" /\ \A a, b \in Objects' : a = b),
           inflight' = inflight + Weight(x.pc) - Weight(call[i].pc), inflight' <= Ceiling
    PROVE  Inv'
<1>1. call' \in [Calls -> Records]
  BY CallAt
<1>2. InflightIsExact' /\ inflight' \in Nat
  BY GaugeMoves
<1>3. TypeOK'
  BY <1>1, <1>2 DEF Typed, TypeOK, Records, Places
<1>4. Fresh' /\ OneObject'
  BY DEF Inv, Evolves, Fresh, OneObject
<1>5. Opening'
  BY DEF Opening
<1>6. (\A j \in Calls : Handled(call[j]))'
  BY OthersUnharmed
<1> QED BY <1>2, <1>3, <1>4, <1>5, <1>6 DEF Inv

\* A step that leaves the row of the session alone.
LEMMA SessionKept ==
    ASSUME UploadAssumption, Inv, Evolves, UNCHANGED <<creating, sess>>, creating = "open",
           \A o \in landed' : o \in landed \/ <<o, o>> \in assets'
    PROVE  Stored' /\ CompletedIsAnnounced' /\ CancelledIsCollected'
<1>1. Stored'
  BY DEF Inv, Stored, Evolves
<1>2. CompletedIsAnnounced'
  BY DEF Inv, CompletedIsAnnounced, Evolves
<1>3. CancelledIsCollected'
  BY DEF Inv, CancelledIsCollected, Evolves
<1> QED BY <1>1, <1>2, <1>3

LEMMA FaultsGrow ==
    ASSUME UploadAssumption, Inv, Works \/ Fails
    PROVE  faults' \in Nat /\ (faults' = 0 => faults = 0)
BY DEF UploadAssumption, Inv, TypeOK, Works, Fails

\* A step that touches no object: only chunks, parts and the handler.
LEMMA TransferMoves ==
    ASSUME UploadAssumption, Inv, Works \/ Fails, creating = "open",
           UNCHANGED <<creating, sess, multipart, staging, assets, events>>,
           NEW i \in Calls, NEW x \in Records, call' = [call EXCEPT ![i] = x],
           chunk' \in [Chunks -> [state : {"PENDING", "INFLIGHT", "DONE", "RETRY"},
                                  etag : Contents \cup {None}]],
           Recorded', parts' \in [Chunks -> Contents \cup {None}],
           Equipped(x), Progress(x), Collecting(x)', x.object \in Objects \cup {None},
           inflight' = inflight + Weight(x.pc) - Weight(call[i].pc), inflight' <= Ceiling
    PROVE  Inv'
<1>1. landed' = landed /\ metered' = metered
  BY DEF events
<1>2. Evolves /\ Typed'
  BY <1>1, FaultsGrow DEF Evolves, Typed, Inv, TypeOK
<1>3. Stored' /\ CompletedIsAnnounced' /\ CancelledIsCollected'
  BY <1>1, <1>2, SessionKept
<1>4. Progress(x)'
  BY <1>1 DEF Progress
<1>5. Objects' \subseteq Objects
  BY <1>1, KnownObjects, NoNewObject
<1> QED BY <1>2, <1>3, <1>4, <1>5, HandlerMoves

\* The same with the rows and the bucket as they were.
LEMMA OnlyHandler ==
    ASSUME UploadAssumption, Inv, Works \/ Fails, creating = "open",
           UNCHANGED <<creating, rows, bucket, events>>,
           NEW i \in Calls, NEW x \in Records, call' = [call EXCEPT ![i] = x],
           Equipped(x), Progress(x), Collecting(x)', x.object \in Objects \cup {None},
           inflight' = inflight + Weight(x.pc) - Weight(call[i].pc), inflight' <= Ceiling
    PROVE  Inv'
<1>1. UNCHANGED <<sess, chunk, multipart, parts, staging, assets>>
  BY DEF rows, bucket
<1>2. Recorded'
  BY <1>1 DEF Inv, Recorded
<1> QED BY <1>1, <1>2, TransferMoves DEF Inv, TypeOK

\* A handler that answers, touching nothing but chunks.
LEMMA HandlerAnswers ==
    ASSUME UploadAssumption, Inv, Works \/ Fails, NEW i \in Calls, End(i), creating = "open",
           UNCHANGED <<creating, sess, bucket, events>>,
           chunk' \in [Chunks -> [state : {"PENDING", "INFLIGHT", "DONE", "RETRY"},
                                  etag : Contents \cup {None}]],
           Recorded', inflight' = inflight - Weight(call[i].pc)
    PROVE  Inv'
<1>1. UNCHANGED <<multipart, parts, staging, assets>>
  BY DEF bucket
<1>2. /\ inflight \in Nat /\ Ceiling \in Nat /\ inflight <= Ceiling
      /\ Weight(call[i].pc) \in {0, 1} /\ Weight("idle") = 0
  BY NoCallShape DEF UploadAssumption, Inv, TypeOK, InflightIsExact, Weight
<1>3. inflight' = inflight + Weight(NoCall.pc) - Weight(call[i].pc) /\ inflight' <= Ceiling
  BY <1>2, NoCallShape
<1>4. call' = [call EXCEPT ![i] = NoCall]
  BY DEF End
<1>5. Equipped(NoCall) /\ Progress(NoCall) /\ Collecting(NoCall)'
  BY NoCallShape DEF Handled
<1> QED BY <1>1, <1>3, <1>4, <1>5, NoCallShape, TransferMoves DEF Inv, TypeOK

\* A handler that moves on, by its place alone.
LEMMA HandlerGoes ==
    ASSUME UploadAssumption, Inv, Works \/ Fails, NEW i \in Calls, NEW p \in Places, Goto(i, p), creating = "open",
           UNCHANGED <<creating, sess, multipart, staging, assets, events>>,
           chunk' \in [Chunks -> [state : {"PENDING", "INFLIGHT", "DONE", "RETRY"},
                                  etag : Contents \cup {None}]],
           Recorded', parts' \in [Chunks -> Contents \cup {None}],
           p \in PutSteps => call[i].pc \in PutSteps,
           p \notin {"assemble", "copy", "clean", "record", "landing", "landed", "meter", "finish", "look"},
           p \in {"delete", "cancel"} => multipart = "gone",
           p = "cancel" => staging = None \/ faults' # 0,
           inflight' = inflight + Weight(p) - Weight(call[i].pc), inflight' <= Ceiling
    PROVE  Inv'
<1>1. PICK x \in Records :
             /\ call' = [call EXCEPT ![i] = x] /\ x.pc = p /\ x.chunk = call[i].chunk
             /\ x.body = call[i].body /\ x.etags = call[i].etags /\ x.object = call[i].object
  BY MovesOn
<1>2. Equipped(x)
  BY <1>1, CallAt DEF Handled, Equipped
<1>3. Progress(x)
  BY <1>1 DEF Progress
<1>4. Collecting(x)'
  BY <1>1 DEF Collecting
<1> QED BY <1>1, <1>2, <1>3, <1>4, KnownObjects, TransferMoves

-----------------------------------------------------------------------------
(* handlePutChunk.                                                         *)

LEMMA PlaceWeights ==
    /\ Weight("admit") = 0 /\ Weight("idle") = 0
    /\ \A p \in Admitted : Weight(p) = 1
    /\ \A p \in CompleteSteps \cup CancelSteps : Weight(p) = 0
    /\ Admitted \subseteq PutSteps /\ "admit" \in PutSteps
    /\ PutSteps \subseteq Places /\ CompleteSteps \subseteq Places /\ CancelSteps \subseteq Places
    /\ PutSteps \cap (CompleteSteps \cup CancelSteps) = {} /\ "idle" \in Places
BY DEF Weight, Admitted, PutSteps, CompleteSteps, CancelSteps, Places

LEMMA GaugeType ==
    ASSUME UploadAssumption, Inv
    PROVE  inflight \in Nat /\ Ceiling \in Nat /\ inflight <= Ceiling
BY DEF UploadAssumption, Inv, TypeOK, InflightIsExact

LEMMA PutBegins ==
    ASSUME UploadAssumption, Inv, NEW i \in Calls, NEW c \in Chunks, NEW b \in Contents, PutChunk(i, c, b)
    PROVE  Inv'
<1> DEFINE x == [NoCall EXCEPT !.pc = "admit", !.chunk = c, !.body = b]
<1>1. /\ x \in Records /\ x.pc = "admit" /\ x.chunk = c /\ x.body = b /\ x.object = None
      /\ call' = [call EXCEPT ![i] = x]
  BY PlaceWeights DEF PutChunk, NoCall, Records
<1>2. /\ Works /\ creating = "open" /\ UNCHANGED <<creating, rows, bucket, events>>
      /\ inflight' = inflight /\ call[i].pc = "idle"
  BY DEF PutChunk, Free, Works
<1> HIDE DEF x
<1>3. Equipped(x) /\ Progress(x) /\ Collecting(x)'
  BY <1>1 DEF Equipped, Progress, Collecting, PutSteps
<1>4. inflight' = inflight + Weight(x.pc) - Weight(call[i].pc) /\ inflight' <= Ceiling
  BY <1>1, <1>2, PlaceWeights, GaugeType
<1> QED BY <1>1, <1>2, <1>3, <1>4, OnlyHandler

LEMMA PutAdmission ==
    ASSUME UploadAssumption, Inv, NEW i \in Calls, TryAcquire(i)
    PROVE  Inv'
<1>1. /\ call[i].pc = "admit" /\ creating = "open" /\ Works
      /\ UNCHANGED <<creating, rows, bucket, events>>
  BY CallAt DEF TryAcquire, Works
<1>2. UNCHANGED <<sess, chunk, multipart, parts, staging, assets>> /\ Recorded'
  BY <1>1 DEF rows, bucket, Inv, Recorded
<1>3. CASE inflight + 1 <= Ceiling /\ inflight' = inflight + 1 /\ Goto(i, "claim")
  <2>1. "claim" \in Places /\ "claim" \in PutSteps /\ Weight("claim") = 1 /\ call[i].pc \in PutSteps
    BY <1>1, PlaceWeights DEF Admitted
  <2>2. inflight' = inflight + Weight("claim") - Weight(call[i].pc) /\ inflight' <= Ceiling
    BY <1>1, <1>3, <2>1, PlaceWeights, GaugeType
  <2> QED BY <1>1, <1>2, <1>3, <2>1, <2>2, HandlerGoes DEF Inv, TypeOK
<1>4. CASE UNCHANGED inflight /\ End(i)
  <2>1. inflight' = inflight - Weight(call[i].pc)
    BY <1>1, <1>4, PlaceWeights, GaugeType
  <2> QED BY <1>1, <1>2, <1>4, <2>1, HandlerAnswers DEF Inv, TypeOK
<1> QED BY <1>3, <1>4 DEF TryAcquire

\* The end of handlePutChunk, with its chunk as it was, claimed, reopened or done.
LEMMA PutLeaves ==
    ASSUME UploadAssumption, Inv, Works \/ Fails, NEW i \in Calls, call[i].pc \in Admitted, Leave(i),
           UNCHANGED <<creating, sess, bucket, events>>,
           \/ chunk' = chunk
           \/ \E s \in {"INFLIGHT", "RETRY"} : chunk' = [chunk EXCEPT ![call[i].chunk].state = s]
           \/ chunk' = [chunk EXCEPT ![call[i].chunk] = [state |-> "DONE", etag |-> call[i].body]]
    PROVE  Inv'
<1>1. /\ creating = "open" /\ call[i].chunk \in Chunks /\ call[i].body \in Contents
      /\ Weight(call[i].pc) = 1
  BY CallAt, PlaceWeights DEF Handled, Equipped, Admitted
<1>2. /\ chunk' \in [Chunks -> [state : {"PENDING", "INFLIGHT", "DONE", "RETRY"},
                                etag : Contents \cup {None}]]
      /\ Recorded'
  <2>1. CASE chunk' = chunk
    BY <2>1 DEF Inv, TypeOK, Recorded
  <2>2. CASE \E s \in {"INFLIGHT", "RETRY"} : chunk' = [chunk EXCEPT ![call[i].chunk].state = s]
    <3>1. /\ chunk' \in [Chunks -> [state : {"PENDING", "INFLIGHT", "DONE", "RETRY"},
                                    etag : Contents \cup {None}]]
          /\ \A k \in Chunks : chunk'[k].state = "DONE" => chunk[k].state = "DONE"
          /\ \A k \in Chunks : chunk'[k].etag = chunk[k].etag
      BY <1>1, <2>2 DEF Inv, TypeOK
    <3> QED BY <3>1 DEF Inv, Recorded
  <2>3. CASE chunk' = [chunk EXCEPT ![call[i].chunk] = [state |-> "DONE", etag |-> call[i].body]]
    <3>1. /\ chunk' \in [Chunks -> [state : {"PENDING", "INFLIGHT", "DONE", "RETRY"},
                                    etag : Contents \cup {None}]]
          /\ chunk'[call[i].chunk].etag = call[i].body
          /\ \A k \in Chunks \ {call[i].chunk} : chunk'[k] = chunk[k]
      BY <1>1, <2>3 DEF Inv, TypeOK
    <3> QED BY <1>1, <3>1 DEF Inv, Recorded
  <2> QED BY <2>1, <2>2, <2>3
<1>3. inflight' = inflight - Weight(call[i].pc) /\ End(i)
  BY <1>1 DEF Leave
<1> QED BY <1>1, <1>2, <1>3, HandlerAnswers

LEMMA PutClaim ==
    ASSUME UploadAssumption, Inv, NEW i \in Calls, ClaimChunk(i)
    PROVE  Inv'
<1>1. call[i].pc = "claim" /\ call[i].pc \in Admitted /\ UNCHANGED <<creating, sess, bucket, events>>
  BY DEF ClaimChunk, Admitted
<1>2. CASE Leave(i)
  BY <1>1, <1>2, PutLeaves DEF ClaimChunk
<1>3. CASE Works /\ chunk' = [chunk EXCEPT ![call[i].chunk].state = "INFLIGHT"] /\ Goto(i, "body")
           /\ UNCHANGED inflight
  <2>1. /\ creating = "open" /\ call[i].chunk \in Chunks /\ call[i].body \in Contents
        /\ Weight(call[i].pc) = 1 /\ Weight("body") = 1 /\ "body" \in Places
        /\ call[i].pc \in PutSteps
    BY <1>1, CallAt, PlaceWeights DEF Handled, Equipped, Admitted
  <2>2. /\ chunk' \in [Chunks -> [state : {"PENDING", "INFLIGHT", "DONE", "RETRY"},
                                  etag : Contents \cup {None}]]
        /\ Recorded'
    <3>1. /\ chunk' \in [Chunks -> [state : {"PENDING", "INFLIGHT", "DONE", "RETRY"},
                                    etag : Contents \cup {None}]]
          /\ \A k \in Chunks : chunk'[k].state = "DONE" => chunk[k].state = "DONE"
          /\ \A k \in Chunks : chunk'[k].etag = chunk[k].etag
      BY <1>3, <2>1 DEF Inv, TypeOK
    <3> QED BY <3>1 DEF Inv, Recorded
  <2>3. UNCHANGED <<multipart, parts, staging, assets>> /\ parts' \in [Chunks -> Contents \cup {None}]
    BY <1>1 DEF bucket, Inv, TypeOK
  <2>4. inflight' = inflight + Weight("body") - Weight(call[i].pc) /\ inflight' <= Ceiling
    BY <1>3, <2>1, GaugeType
  <2> QED BY <1>1, <1>3, <2>1, <2>2, <2>3, <2>4, HandlerGoes
<1> QED BY <1>2, <1>3 DEF ClaimChunk

\* Reading the body and storing the part.
LEMMA PutBody ==
    ASSUME UploadAssumption, Inv, NEW i \in Calls, ReadBody(i) \/ UploadPart(i)
    PROVE  Inv'
<1>1. /\ call[i].pc \in Admitted /\ UNCHANGED <<creating, rows, multipart, staging, assets, events, inflight>>
      /\ Works \/ Fails
      /\ \E p \in Admitted : Goto(i, p)
  BY DEF ReadBody, UploadPart, Admitted, bucket, Works
<1>2. /\ creating = "open" /\ call[i].chunk \in Chunks /\ call[i].body \in Contents
      /\ call[i].pc \in PutSteps
  BY <1>1, CallAt, PlaceWeights DEF Handled, Equipped
<1>3. parts' \in [Chunks -> Contents \cup {None}]
  <2>1. parts' = parts \/ parts' = [parts EXCEPT ![call[i].chunk] = call[i].body]
    BY DEF ReadBody, UploadPart, bucket
  <2> QED BY <1>2, <2>1 DEF Inv, TypeOK
<1>4. chunk' = chunk /\ sess' = sess /\ Recorded'
  BY <1>1 DEF rows, Inv, Recorded
<1>5. PICK p \in Admitted : Goto(i, p)
  BY <1>1
<1>6. p \in Places /\ Weight(p) = 1 /\ Weight(call[i].pc) = 1
  BY <1>1, PlaceWeights
<1>7. inflight' = inflight + Weight(p) - Weight(call[i].pc) /\ inflight' <= Ceiling
  BY <1>1, <1>6, GaugeType
<1>8. p \notin {"assemble", "copy", "clean", "record", "landing", "landed", "meter", "finish", "look",
                "delete", "cancel"}
  BY DEF Admitted
<1> QED BY <1>1, <1>2, <1>3, <1>4, <1>5, <1>6, <1>7, <1>8, HandlerGoes DEF Inv, TypeOK

LEMMA PutSettles ==
    ASSUME UploadAssumption, Inv, NEW i \in Calls, MarkChunkRetry(i) \/ MarkChunkDone(i)
    PROVE  Inv'
<1>1. call[i].pc \in Admitted /\ Leave(i) /\ UNCHANGED <<creating, sess, bucket, events>> /\ (Works \/ Fails)
  BY DEF MarkChunkRetry, MarkChunkDone, Admitted
<1>2. \/ chunk' = chunk
      \/ \E s \in {"INFLIGHT", "RETRY"} : chunk' = [chunk EXCEPT ![call[i].chunk].state = s]
      \/ chunk' = [chunk EXCEPT ![call[i].chunk] = [state |-> "DONE", etag |-> call[i].body]]
  BY DEF MarkChunkRetry, MarkChunkDone
<1> QED BY <1>1, <1>2, PutLeaves

LEMMA PutStep ==
    ASSUME UploadAssumption, Inv, NEW i \in Calls, Put(i)
    PROVE  Inv'
BY PutBegins, PutAdmission, PutClaim, PutBody, PutSettles DEF Put

-----------------------------------------------------------------------------
(* handleComplete and assemble.                                            *)

\* A handler of complete or cancel that answers, changing nothing.
LEMMA CompleteAnswers ==
    ASSUME UploadAssumption, Inv, Works \/ Fails, NEW i \in Calls, call[i].pc \in CompleteSteps \cup CancelSteps,
           End(i), UNCHANGED <<creating, rows, bucket, events, inflight>>
    PROVE  Inv'
<1>1. /\ creating = "open" /\ inflight' = inflight - Weight(call[i].pc)
  BY CallAt, PlaceWeights, GaugeType DEF CompleteSteps, CancelSteps
<1>2. sess' = sess /\ chunk' = chunk /\ Recorded'
  BY DEF rows, Inv, Recorded
<1> QED BY <1>1, <1>2, HandlerAnswers DEF Inv, TypeOK

LEMMA CompleteBegins ==
    ASSUME UploadAssumption, Inv, NEW i \in Calls, CompleteUpload(i)
    PROVE  Inv'
<1>1. sess.object \in Files \cup {None} /\ sess.object \in Objects \cup {None}
  BY KnownObjects DEF Inv, TypeOK
<1>2. /\ Works /\ creating = "open" /\ UNCHANGED <<creating, rows, bucket, events>>
      /\ inflight' = inflight /\ call[i].pc = "idle"
      /\ sess.state = "ACTIVE" \/ sess.state = "ASSEMBLED"
  BY DEF CompleteUpload, Free, Works
<1>3. PICK x \in Records :
             /\ call' = [call EXCEPT ![i] = x] /\ x.object = sess.object
             /\ x.pc = IF sess.state = "ACTIVE" THEN "chunks" ELSE "landing"
  <2> DEFINE p == IF sess.state = "ACTIVE" THEN "chunks" ELSE "landing"
             y == [NoCall EXCEPT !.pc = p, !.object = sess.object]
  <2>1. y \in Records /\ y.pc = p /\ y.object = sess.object /\ call' = [call EXCEPT ![i] = y]
    BY <1>1, PlaceWeights DEF CompleteUpload, NoCall, Records, CompleteSteps
  <2> HIDE DEF y
  <2> QED BY <2>1
<1>4. x.pc = "landing" => sess.object # None /\ <<sess.object, sess.object>> \in assets
  BY <1>2, <1>3 DEF Inv, Stored
<1>5. Equipped(x)
  BY <1>1, <1>3, <1>4 DEF Equipped, PutSteps, Admitted
<1>6. Progress(x) /\ Collecting(x)'
  BY <1>3, <1>4 DEF Progress, Collecting
<1>7. inflight' = inflight + Weight(x.pc) - Weight(call[i].pc) /\ inflight' <= Ceiling
  BY <1>2, <1>3, PlaceWeights, GaugeType DEF CompleteSteps
<1> QED BY <1>1, <1>2, <1>3, <1>5, <1>6, <1>7, OnlyHandler

LEMMA CompleteVerifies ==
    ASSUME UploadAssumption, Inv, NEW i \in Calls, VerifyChunks(i)
    PROVE  Inv'
<1>1. /\ call[i].pc \in {"chunks", "landing"} /\ creating = "open" /\ Works
      /\ UNCHANGED <<creating, rows, bucket, events, inflight>>
  BY CallAt DEF VerifyChunks, Works
<1>2. CASE End(i)
  BY <1>1, <1>2, CompleteAnswers DEF CompleteSteps
<1>3. CASE \A c \in Chunks : chunk[c].state = "DONE"
  <2>1. PICK x \in Records :
               /\ call' = [call EXCEPT ![i] = x] /\ x.object = call[i].object
               /\ x.pc = IF call[i].pc = "chunks" THEN "assemble" ELSE "landed"
               /\ x.pc = "assemble" => x.etags \in Files
    <3> DEFINE p == IF call[i].pc = "chunks" THEN "assemble" ELSE "landed"
               f == [c \in Chunks |-> chunk[c].etag]
               e == IF call[i].pc = "chunks" THEN f ELSE None
               y == [call[i] EXCEPT !.pc = p, !.etags = e]
    <3>1. f \in Files
      BY <1>3 DEF Files, Inv, Recorded
    <3>2. call' = [call EXCEPT ![i] = y]
      BY <1>3 DEF VerifyChunks
    <3> HIDE DEF f
    <3>3. call[i] \in Records /\ p \in Places /\ e \in Files \cup {None} /\ (p = "assemble" => e \in Files)
      BY <3>1, CallAt, PlaceWeights DEF CompleteSteps
    <3> HIDE DEF p, e
    <3>4. y \in Records /\ y.pc = p /\ y.object = call[i].object /\ y.etags = e
      BY <3>3 DEF Records
    <3> HIDE DEF y
    <3> QED BY <3>2, <3>3, <3>4 DEF p
  <2>2. Handled(call[i])
    BY CallAt
  <2>3. Equipped(x)
    BY <1>1, <2>1, <2>2 DEF Handled, Equipped, PutSteps, Admitted
  <2>4. Progress(x) /\ Collecting(x)'
    BY <1>1, <2>1, <2>2 DEF Handled, Progress, Collecting
  <2>5. inflight' = inflight + Weight(x.pc) - Weight(call[i].pc) /\ inflight' <= Ceiling
    BY <1>1, <2>1, PlaceWeights, GaugeType DEF CompleteSteps
  <2> QED BY <1>1, <2>1, <2>3, <2>4, <2>5, KnownObjects, OnlyHandler
<1> QED BY <1>2, <1>3 DEF VerifyChunks

\* A step of complete or cancel that writes the session, the bucket or the
\* events, and knows no object that was not there.
LEMMA SessionMoves ==
    ASSUME UploadAssumption, Inv, UNCHANGED <<creating, chunk, parts, inflight>>,
           NEW i \in Calls, call[i].pc \in CompleteSteps \cup CancelSteps,
           NEW x \in Records, x.pc \in {"idle"} \cup CompleteSteps \cup CancelSteps,
           call' = [call EXCEPT ![i] = x],
           Evolves, Typed', Stored', CompletedIsAnnounced', CancelledIsCollected',
           Equipped(x), Progress(x)', Collecting(x)',
           x.object \in Objects \cup {None}, staging' \in Objects \cup {None},
           sess'.object \in Objects \cup {None}, landed' \subseteq landed \cup Objects,
           \A a \in assets' : a \in assets \/ (a[1] \in Objects /\ a[2] \in Objects)
    PROVE  Inv'
<1>1. creating = "open" /\ Recorded'
  BY CallAt DEF Inv, Recorded, CompleteSteps, CancelSteps
<1>2. Objects' \subseteq Objects
  BY NoNewObject
<1>3. Weight(x.pc) = 0 /\ Weight(call[i].pc) = 0
  BY PlaceWeights
<1>4. inflight' = inflight + Weight(x.pc) - Weight(call[i].pc) /\ inflight' <= Ceiling
  BY <1>3, GaugeType
<1> QED BY <1>1, <1>2, <1>4, HandlerMoves

\* The record of a handler of complete or cancel after its step.
LEMMA NextRecord ==
    ASSUME UploadAssumption, Inv, NEW i \in Calls, NEW p \in CompleteSteps \cup CancelSteps, Goto(i, p) \/ End(i)
    PROVE  \E x \in Records :
             /\ call' = [call EXCEPT ![i] = x] /\ x.pc \in {"idle"} \cup CompleteSteps \cup CancelSteps
             /\ x.object \in Objects \cup {None}
             /\ \/ x = NoCall /\ x.pc = "idle" /\ End(i)
                \/ x.pc = p /\ x.object = call[i].object /\ Goto(i, p)
<1>1. CASE End(i)
  BY <1>1, NoCallShape DEF End
<1>2. CASE Goto(i, p)
  BY <1>2, MovesOn, KnownObjects, PlaceWeights
<1> QED BY <1>1, <1>2

\* The multipart is completed: the first object there ever is.
LEMMA CompleteAssembles ==
    ASSUME UploadAssumption, Inv, NEW i \in Calls, CompleteMultipart(i)
    PROVE  Inv'
<1>1. /\ call[i].pc = "assemble" /\ creating = "open" /\ (Works \/ Fails)
      /\ UNCHANGED <<creating, rows, parts, assets, events, inflight>>
      /\ call[i].etags \in Files /\ call[i].pc \in CompleteSteps
  BY CallAt DEF CompleteMultipart, Handled, Equipped, CompleteSteps
<1>2. UNCHANGED <<sess, chunk, landed, metered>> /\ Recorded'
  BY <1>1 DEF rows, events, Inv, Recorded
<1>3. PICK p \in {"hash", "head"} : Goto(i, p)
  BY DEF CompleteMultipart
<1>4. p \in CompleteSteps /\ p \in Places
  BY PlaceWeights DEF CompleteSteps
<1>5. inflight' = inflight + Weight(p) - Weight(call[i].pc) /\ inflight' <= Ceiling
  BY <1>1, <1>4, PlaceWeights, GaugeType
<1>6. CASE UNCHANGED <<multipart, staging>>
  <2>1. p \notin PutSteps
    BY <1>4, PlaceWeights
  <2> QED BY <1>1, <1>2, <1>3, <1>4, <1>5, <1>6, <2>1, HandlerGoes DEF Inv, TypeOK
<1>7. CASE multipart = "open" /\ multipart' = "gone" /\ staging' = call[i].etags
  <2>1. PICK x \in Records : /\ call' = [call EXCEPT ![i] = x] /\ x.pc = p /\ x.object = call[i].object
    BY <1>3, <1>4, MovesOn
  <2>2. Objects = {}
    BY <1>7 DEF Inv, Fresh
  <2>3. \A a, b \in Objects' : a = b
    <3>1. /\ sess'.object = None /\ landed' \subseteq {None}
          /\ (\A a \in assets' : a[1] = None /\ a[2] = None) /\ \A j \in Calls : call[j].object = None
      BY <1>1, <1>2, <2>2 DEF Objects
    <3>2. \A j \in Calls : call'[j].object = None
      BY <2>1, <3>1, CallAt
    <3>3. \A a \in Objects' : a = staging'
      BY <3>1, <3>2 DEF Objects
    <3> QED BY <3>3
  <2>4. Typed' /\ Evolves
    BY <1>1, <1>2, <1>7, FaultsGrow DEF Typed, Evolves, Inv, TypeOK
  <2>5. Stored' /\ CompletedIsAnnounced' /\ CancelledIsCollected'
    BY <1>1, <1>2, <2>4, SessionKept
  <2>6. Equipped(x) /\ Progress(x)' /\ Collecting(x)'
    BY <2>1 DEF Equipped, Progress, Collecting, PutSteps, Admitted
  <2> QED BY <1>1, <1>2, <1>5, <1>7, <2>1, <2>3, <2>4, <2>5, <2>6, HandlerMoves
<1> QED BY <1>6, <1>7 DEF CompleteMultipart

\* Looking at the staging object, for complete and for cancel.
LEMMA StagingLookedAt ==
    ASSUME UploadAssumption, Inv, NEW i \in Calls, CheckStaging(i) \/ LookForStaging(i)
    PROVE  Inv'
<1>1. /\ call[i].pc \in {"head", "look"} /\ creating = "open" /\ (Works \/ Fails)
      /\ UNCHANGED <<creating, rows, bucket, events, inflight>>
      /\ call[i].pc \in CompleteSteps \cup CancelSteps
      /\ call[i].pc = "look" => multipart = "gone"
  BY CallAt DEF CheckStaging, LookForStaging, Handled, Collecting, CompleteSteps, CancelSteps
<1>2. CASE End(i)
  BY <1>1, <1>2, CompleteAnswers
<1>3. ASSUME NEW p \in {"hash", "delete", "cancel"}, Goto(i, p),
             p \in {"delete", "cancel"} => multipart = "gone",
             p = "cancel" => staging = None \/ faults' # 0
      PROVE  Inv'
  <2>1. UNCHANGED <<sess, chunk, multipart, parts, staging, assets>> /\ Recorded'
    BY <1>1 DEF rows, bucket, Inv, Recorded
  <2>2. p \in CompleteSteps \cup CancelSteps /\ p \in Places /\ p \notin PutSteps
    BY PlaceWeights DEF CompleteSteps, CancelSteps
  <2>3. inflight' = inflight + Weight(p) - Weight(call[i].pc) /\ inflight' <= Ceiling
    BY <1>1, <2>2, PlaceWeights, GaugeType
  <2> QED BY <1>1, <1>3, <2>1, <2>2, <2>3, HandlerGoes DEF Inv, TypeOK
<1>4. Fails => faults' # 0
  BY DEF Fails, Inv, TypeOK
<1> QED BY <1>1, <1>2, <1>3, <1>4 DEF CheckStaging, LookForStaging

LEMMA CompleteHashes ==
    ASSUME UploadAssumption, Inv, NEW i \in Calls, HashStaging(i)
    PROVE  Inv'
<1>1. /\ call[i].pc = "hash" /\ creating = "open" /\ (Works \/ Fails)
      /\ UNCHANGED <<creating, rows, bucket, events, inflight>> /\ call[i].pc \in CompleteSteps
  BY CallAt DEF HashStaging, CompleteSteps
<1>2. CASE End(i)
  BY <1>1, <1>2, CompleteAnswers
<1>3. CASE staging # None /\ call' = [call EXCEPT ![i].pc = "copy", ![i].object = staging]
  <2>1. staging \in Files /\ staging \in Objects \cup {None} /\ call[i] \in Records /\ "copy" \in Places
    BY <1>3, KnownObjects, CallAt, PlaceWeights DEF Inv, TypeOK, CompleteSteps
  <2>2. PICK x \in Records : call' = [call EXCEPT ![i] = x] /\ x.pc = "copy" /\ x.object = staging
    <3> DEFINE y == [call[i] EXCEPT !.pc = "copy", !.object = staging]
    <3>1. y \in Records /\ y.pc = "copy" /\ y.object = staging
      BY <2>1 DEF Records
    <3>2. call' = [call EXCEPT ![i] = y]
      BY <1>3, CallAt
    <3> HIDE DEF y
    <3> QED BY <3>1, <3>2
  <2>3. Equipped(x) /\ Progress(x) /\ Collecting(x)'
    BY <2>1, <2>2 DEF Equipped, Progress, Collecting, PutSteps, Admitted
  <2>4. inflight' = inflight + Weight(x.pc) - Weight(call[i].pc) /\ inflight' <= Ceiling
    BY <1>1, <2>2, PlaceWeights, GaugeType DEF CompleteSteps
  <2> QED BY <1>1, <2>1, <2>2, <2>3, <2>4, OnlyHandler
<1> QED BY <1>2, <1>3 DEF HashStaging

\* The copy holds the bytes its key was made of, whoever wrote them.
LEMMA CompleteCopies ==
    ASSUME UploadAssumption, Inv, NEW i \in Calls, Copy(i)
    PROVE  Inv'
<1>1. /\ call[i].pc = "copy" /\ creating = "open" /\ (Works \/ Fails) /\ call[i].pc \in CompleteSteps
      /\ UNCHANGED <<creating, rows, multipart, parts, staging, events, inflight>>
      /\ call[i].object \in Files /\ (Goto(i, "clean") \/ End(i))
      /\ Goto(i, "clean") => End(i) \/ (staging # None /\ assets' = assets \cup {<<call[i].object, staging>>})
      /\ assets' = assets \/ (staging # None /\ assets' = assets \cup {<<call[i].object, staging>>})
  BY CallAt DEF Copy, Handled, Equipped, CompleteSteps
<1>2. UNCHANGED <<sess, chunk, landed, metered>>
  BY <1>1 DEF rows, events
<1>3. staging # None => /\ staging = call[i].object /\ call[i].object \in Objects
                        /\ <<call[i].object, staging>> \in Files \X Files
  BY <1>1, KnownObjects, NoneIsNothing DEF Inv, OneObject
<1>4. PICK x \in Records :
             /\ call' = [call EXCEPT ![i] = x] /\ x.pc \in {"idle"} \cup CompleteSteps \cup CancelSteps
             /\ x.object \in Objects \cup {None}
             /\ \/ x = NoCall /\ x.pc = "idle" /\ End(i)
                \/ x.pc = "clean" /\ x.object = call[i].object /\ Goto(i, "clean")
  BY <1>1, NextRecord DEF CompleteSteps
<1>5. x.pc = "clean" => <<x.object, x.object>> \in assets'
  <2>1. x.pc = "clean" => ~End(i)
    BY <1>4, CallAt, NoCallShape DEF End
  <2> QED BY <1>1, <1>3, <1>4, <2>1
<1>6. Typed' /\ Evolves
  BY <1>1, <1>2, <1>3, FaultsGrow DEF Typed, Evolves, Inv, TypeOK
<1>7. Stored' /\ CompletedIsAnnounced' /\ CancelledIsCollected'
  BY <1>1, <1>2, <1>6, SessionKept
<1>8. Equipped(x)
  BY <1>1, <1>4 DEF Equipped, PutSteps, Admitted
<1>9. Progress(x)' /\ Collecting(x)'
  BY <1>4, <1>5 DEF Progress, Collecting
<1>10. \A a \in assets' : a \in assets \/ (a[1] \in Objects /\ a[2] \in Objects)
  BY <1>1, <1>3
<1> QED BY <1>1, <1>2, <1>4, <1>6, <1>7, <1>8, <1>9, <1>10, KnownObjects, SessionMoves

\* The staging object goes away, at the end of assemble or for cancel.
LEMMA StagingDeleted ==
    ASSUME UploadAssumption, Inv, NEW i \in Calls, DeleteStaging(i) \/ CollectStaging(i)
    PROVE  Inv'
<1>1. /\ creating = "open" /\ (Works \/ Fails) /\ call[i].pc \in {"clean", "delete"}
      /\ call[i].pc \in CompleteSteps \cup CancelSteps
      /\ UNCHANGED <<creating, rows, multipart, parts, assets, events, inflight>>
      /\ staging' \in {staging, None}
      /\ call[i].pc = "clean" => Goto(i, "record")
      /\ call[i].pc = "delete" => (Goto(i, "cancel") /\ staging' = None) \/ End(i)
  BY CallAt DEF DeleteStaging, CollectStaging, CompleteSteps, CancelSteps
<1>2. UNCHANGED <<sess, chunk, landed, metered>> /\ Handled(call[i])
  BY <1>1, CallAt DEF rows, events
<1>3. PICK x \in Records :
             /\ call' = [call EXCEPT ![i] = x] /\ x.pc \in {"idle"} \cup CompleteSteps \cup CancelSteps
             /\ x.object \in Objects \cup {None}
             /\ \/ x = NoCall /\ x.pc = "idle"
                \/ x.pc = "record" /\ x.object = call[i].object /\ call[i].pc = "clean"
                \/ x.pc = "cancel" /\ staging' = None /\ call[i].pc = "delete"
  <2>1. "record" \in CompleteSteps /\ "cancel" \in CancelSteps
    BY DEF CompleteSteps, CancelSteps
  <2>2. CASE call[i].pc = "clean"
    BY <1>1, <2>1, <2>2, NextRecord
  <2>3. CASE call[i].pc = "delete" /\ End(i)
    BY <2>1, <2>3, NoCallShape DEF End
  <2>4. CASE call[i].pc = "delete" /\ Goto(i, "cancel") /\ staging' = None
    BY <2>1, <2>4, MovesOn, KnownObjects, PlaceWeights
  <2> QED BY <1>1, <2>2, <2>3, <2>4
<1>4. Typed' /\ Evolves
  BY <1>1, <1>2, FaultsGrow DEF Typed, Evolves, Inv, TypeOK
<1>5. Stored' /\ CompletedIsAnnounced' /\ CancelledIsCollected'
  BY <1>1, <1>2, <1>4, SessionKept
<1>6. Equipped(x)
  BY <1>2, <1>3 DEF Handled, Equipped, PutSteps, Admitted
<1>7. Progress(x)' /\ Collecting(x)'
  BY <1>1, <1>2, <1>3 DEF Handled, Progress, Collecting
<1>8. staging' \in Objects \cup {None} /\ sess'.object \in Objects \cup {None}
  BY <1>1, <1>2, KnownObjects
<1> QED BY <1>1, <1>2, <1>3, <1>4, <1>5, <1>6, <1>7, <1>8, SessionMoves

LEMMA CompleteRecords ==
    ASSUME UploadAssumption, Inv, NEW i \in Calls, SetSessionAssembled(i)
    PROVE  Inv'
<1>1. /\ call[i].pc = "record" /\ creating = "open" /\ (Works \/ Fails) /\ call[i].pc \in CompleteSteps
      /\ UNCHANGED <<creating, chunk, bucket, events, inflight>> /\ call[i].object \in Files
      /\ <<call[i].object, call[i].object>> \in assets
  BY CallAt DEF SetSessionAssembled, Handled, Equipped, Progress, CompleteSteps
<1>2. UNCHANGED <<multipart, parts, staging, assets, landed, metered>>
  BY <1>1 DEF bucket, events
<1>3. /\ sess' = sess \/ (sess'.object = call[i].object /\ sess'.state = "ASSEMBLED")
      /\ sess' \in [state : {"ABSENT", "ACTIVE", "ASSEMBLED", "COMPLETED", "CANCELLED"},
                    object : Files \cup {None}]
      /\ (Goto(i, "landed") /\ sess'.object = call[i].object) \/ End(i)
  BY <1>1 DEF SetSessionAssembled, Inv, TypeOK
<1>4. PICK x \in Records :
             /\ call' = [call EXCEPT ![i] = x] /\ x.pc \in {"idle"} \cup CompleteSteps \cup CancelSteps
             /\ x.object \in Objects \cup {None}
             /\ \/ x = NoCall /\ x.pc = "idle"
                \/ x.pc = "landed" /\ x.object = call[i].object /\ sess'.object = call[i].object
  <2>1. CASE End(i)
    BY <2>1, NoCallShape DEF End
  <2>2. CASE Goto(i, "landed") /\ sess'.object = call[i].object
    BY <2>2, MovesOn, KnownObjects, PlaceWeights DEF CompleteSteps
  <2> QED BY <1>3, <2>1, <2>2
<1>5. Typed' /\ Evolves
  BY <1>1, <1>2, <1>3, NoneIsNothing, FaultsGrow DEF Typed, Evolves, Inv, TypeOK
<1>6. Stored'
  BY <1>1, <1>2, <1>3, NoneIsNothing DEF Inv, Stored
<1>7. CompletedIsAnnounced' /\ CancelledIsCollected'
  BY <1>1, <1>2, <1>3, <1>5 DEF Inv, CompletedIsAnnounced, CancelledIsCollected, Evolves
<1>8. Equipped(x)
  BY <1>1, <1>4 DEF Equipped, PutSteps, Admitted
<1>9. Progress(x)' /\ Collecting(x)'
  BY <1>1, <1>2, <1>4, NoneIsNothing DEF Progress, Collecting
<1>10. staging' \in Objects \cup {None} /\ sess'.object \in Objects \cup {None}
  BY <1>2, <1>3, KnownObjects
<1> QED BY <1>1, <1>2, <1>4, <1>5, <1>6, <1>7, <1>8, <1>9, <1>10, SessionMoves

\* Announcing and metering.
LEMMA CompleteAnnounces ==
    ASSUME UploadAssumption, Inv, NEW i \in Calls, PublishLanded(i) \/ MeterCompleted(i)
    PROVE  Inv'
<1>1. /\ call[i].pc \in {"landed", "meter"} /\ creating = "open" /\ Works /\ call[i].pc \in CompleteSteps
      /\ UNCHANGED <<creating, rows, bucket, inflight>> /\ call[i].object \in Files
      /\ <<call[i].object, call[i].object>> \in assets /\ sess.object # None
      /\ call[i].pc = "meter" => call[i].object \in landed
  BY CallAt DEF PublishLanded, MeterCompleted, Handled, Equipped, Progress, CompleteSteps, Works
<1>2. /\ landed' \in {landed, landed \cup {call[i].object}} /\ metered' \in {metered, TRUE}
      /\ UNCHANGED <<sess, chunk, multipart, parts, staging, assets>>
      /\ \/ End(i)
         \/ Goto(i, "meter") /\ call[i].object \in landed'
         \/ Goto(i, "finish") /\ metered' = TRUE /\ call[i].object \in landed'
  BY <1>1 DEF PublishLanded, MeterCompleted, rows, bucket
<1>3. PICK x \in Records :
             /\ call' = [call EXCEPT ![i] = x] /\ x.pc \in {"idle"} \cup CompleteSteps \cup CancelSteps
             /\ x.object \in Objects \cup {None}
             /\ \/ x = NoCall /\ x.pc = "idle"
                \/ x.pc = "meter" /\ x.object = call[i].object /\ x.object \in landed'
                \/ x.pc = "finish" /\ x.object = call[i].object /\ metered' = TRUE /\ x.object \in landed'
  <2>1. CASE End(i)
    BY <2>1, NoCallShape DEF End
  <2>2. CASE Goto(i, "meter") /\ call[i].object \in landed'
    BY <2>2, MovesOn, KnownObjects, PlaceWeights DEF CompleteSteps
  <2>3. CASE Goto(i, "finish") /\ metered' = TRUE /\ call[i].object \in landed'
    BY <2>3, MovesOn, KnownObjects, PlaceWeights DEF CompleteSteps
  <2> QED BY <1>2, <2>1, <2>2, <2>3
<1>4. Typed' /\ Evolves
  <2>1. metered' \in BOOLEAN /\ (metered => metered')
    <3>1. metered \in BOOLEAN /\ (metered' = metered \/ metered' = TRUE)
      BY <1>2 DEF Inv, TypeOK
    <3> QED BY <3>1, Zenon
  <2>2. landed' \subseteq Files /\ landed \subseteq landed' /\ faults' \in Nat /\ (faults' = 0 => faults = 0)
    BY <1>1, <1>2, FaultsGrow DEF Inv, TypeOK
  <2>3. Typed'
    BY <1>2, <2>1, <2>2 DEF Typed, Inv, TypeOK
  <2>4. Evolves
    BY <1>2, <2>1, <2>2 DEF Evolves
  <2> QED BY <2>3, <2>4
<1>5. Stored' /\ CompletedIsAnnounced' /\ CancelledIsCollected'
  <2>1. \A o \in landed' : o \in landed \/ <<o, o>> \in assets'
    BY <1>1, <1>2
  <2> QED BY <1>1, <1>2, <1>4, <2>1, SessionKept
<1>6. Equipped(x)
  BY <1>1, <1>3 DEF Equipped, PutSteps, Admitted
<1>7. Progress(x)' /\ Collecting(x)'
  BY <1>1, <1>2, <1>3 DEF Progress, Collecting
<1>8. /\ staging' \in Objects \cup {None} /\ sess'.object \in Objects \cup {None}
      /\ landed' \subseteq landed \cup Objects
  BY <1>1, <1>2, KnownObjects, NoneIsNothing
<1> QED BY <1>1, <1>2, <1>3, <1>4, <1>5, <1>6, <1>7, <1>8, SessionMoves

\* The last statement of complete and of cancel.
LEMMA SessionEnds ==
    ASSUME UploadAssumption, Inv, NEW i \in Calls, SetCompleted(i) \/ SetCancelled(i)
    PROVE  Inv'
<1>1. /\ creating = "open" /\ call[i].pc \in CompleteSteps \cup CancelSteps /\ (Works \/ Fails) /\ End(i)
      /\ UNCHANGED <<creating, chunk, bucket, events, inflight>>
      /\ \/ sess' = sess
         \/ call[i].pc = "finish" /\ sess' = [sess EXCEPT !.state = "COMPLETED"]
         \/ call[i].pc = "cancel" /\ sess' = [sess EXCEPT !.state = "CANCELLED"]
  BY CallAt DEF SetCompleted, SetCancelled, SetSessionState, CompleteSteps, CancelSteps
<1>2. UNCHANGED <<multipart, parts, staging, assets, landed, metered>>
  BY <1>1 DEF bucket, events
<1>3. /\ sess'.object = sess.object
      /\ sess' \in [state : {"ABSENT", "ACTIVE", "ASSEMBLED", "COMPLETED", "CANCELLED"},
                    object : Files \cup {None}]
      /\ \/ sess'.state = sess.state
         \/ call[i].pc = "finish" /\ sess'.state = "COMPLETED"
         \/ call[i].pc = "cancel" /\ sess'.state = "CANCELLED"
  BY <1>1 DEF Inv, TypeOK
<1>4. Typed' /\ Evolves
  BY <1>1, <1>2, <1>3, FaultsGrow DEF Typed, Evolves, Inv, TypeOK
<1>5. Stored'
  BY <1>2, <1>3 DEF Inv, Stored
<1>6. CompletedIsAnnounced'
  <2>1. call[i].pc = "finish" => metered /\ sess.object \in landed
    BY CallAt, KnownObjects, NoneIsNothing DEF Inv, Handled, Equipped, Progress, OneObject
  <2> QED BY <1>2, <1>3, <2>1 DEF Inv, CompletedIsAnnounced
<1>7. CancelledIsCollected'
  <2>1. call[i].pc = "cancel" /\ faults' = 0 => multipart = "gone" /\ staging = None
    BY <1>1, CallAt, FaultsGrow DEF Handled, Collecting
  <2> QED BY <1>1, <1>2, <1>3, <1>4, <2>1 DEF Inv, CancelledIsCollected, Evolves
<1>8. /\ call' = [call EXCEPT ![i] = NoCall] /\ Equipped(NoCall) /\ Progress(NoCall)' /\ Collecting(NoCall)'
      /\ NoCall \in Records /\ NoCall.pc \in {"idle"} \cup CompleteSteps \cup CancelSteps /\ NoCall.object = None
  BY <1>1, NoCallShape DEF End, Handled
<1>9. staging' \in Objects \cup {None} /\ sess'.object \in Objects \cup {None}
  BY <1>2, <1>3, KnownObjects
<1> QED BY <1>1, <1>2, <1>4, <1>5, <1>6, <1>7, <1>8, <1>9, SessionMoves

LEMMA CompleteStep ==
    ASSUME UploadAssumption, Inv, NEW i \in Calls, Complete(i)
    PROVE  Inv'
BY CompleteBegins, CompleteVerifies, CompleteAssembles, StagingLookedAt, CompleteHashes, CompleteCopies,
   StagingDeleted, CompleteRecords, CompleteAnnounces, SessionEnds DEF Complete

-----------------------------------------------------------------------------
(* handleCancel.                                                           *)

LEMMA CancelBegins ==
    ASSUME UploadAssumption, Inv, NEW i \in Calls, CancelUpload(i)
    PROVE  Inv'
<1>1. PICK p \in {"abort", "reabort"} : Goto(i, p)
  BY DEF CancelUpload
<1>2. /\ Works /\ creating = "open" /\ UNCHANGED <<creating, rows, bucket, events>>
      /\ inflight' = inflight /\ call[i].pc = "idle"
  BY DEF CancelUpload, Free, Works
<1>3. UNCHANGED <<sess, chunk, multipart, parts, staging, assets>> /\ Recorded'
  BY <1>2 DEF rows, bucket, Inv, Recorded
<1>4. p \in CancelSteps /\ p \in Places /\ p \notin PutSteps
  BY PlaceWeights DEF CancelSteps
<1>5. inflight' = inflight + Weight(p) - Weight(call[i].pc) /\ inflight' <= Ceiling
  BY <1>2, <1>4, PlaceWeights, GaugeType
<1> QED BY <1>1, <1>2, <1>3, <1>4, <1>5, HandlerGoes DEF Inv, TypeOK

LEMMA CancelAborts ==
    ASSUME UploadAssumption, Inv, NEW i \in Calls, AbortMultipart(i)
    PROVE  Inv'
<1>1. /\ creating = "open" /\ call[i].pc \in CancelSteps /\ (Works \/ Fails)
      /\ UNCHANGED <<creating, rows, parts, staging, assets, events, inflight>>
      /\ multipart' \in {multipart, "gone"}
      /\ End(i) \/ (Goto(i, "look") /\ multipart' = "gone")
  BY CallAt DEF AbortMultipart, CancelSteps
<1>2. UNCHANGED <<sess, chunk, landed, metered>>
  BY <1>1 DEF rows, events
<1>3. PICK x \in Records :
             /\ call' = [call EXCEPT ![i] = x] /\ x.pc \in {"idle"} \cup CompleteSteps \cup CancelSteps
             /\ x.object \in Objects \cup {None}
             /\ (x = NoCall /\ x.pc = "idle") \/ (x.pc = "look" /\ multipart' = "gone")
  <2>1. CASE End(i)
    BY <2>1, NoCallShape DEF End
  <2>2. CASE Goto(i, "look") /\ multipart' = "gone"
    BY <2>2, MovesOn, KnownObjects, PlaceWeights DEF CancelSteps
  <2> QED BY <1>1, <2>1, <2>2
<1>4. Typed' /\ Evolves
  BY <1>1, <1>2, FaultsGrow DEF Typed, Evolves, Inv, TypeOK
<1>5. Stored' /\ CompletedIsAnnounced' /\ CancelledIsCollected'
  BY <1>1, <1>2, <1>4, SessionKept
<1>6. Equipped(x) /\ Progress(x)' /\ Collecting(x)'
  BY <1>3 DEF Equipped, Progress, Collecting, PutSteps, Admitted
<1>7. staging' \in Objects \cup {None} /\ sess'.object \in Objects \cup {None}
  BY <1>1, <1>2, KnownObjects
<1> QED BY <1>1, <1>2, <1>3, <1>4, <1>5, <1>6, <1>7, SessionMoves

LEMMA CancelStep ==
    ASSUME UploadAssumption, Inv, NEW i \in Calls, CancelSession(i)
    PROVE  Inv'
BY CancelBegins, CancelAborts, StagingLookedAt, StagingDeleted, SessionEnds DEF CancelSession

-----------------------------------------------------------------------------
(* handleCreate, a crash, and the whole.                                   *)

\* Without handlers and objects the invariant is about handleCreate alone.
LEMMA QuietSession ==
    ASSUME UploadAssumption, Inv, creating # "open", UNCHANGED <<chunk, parts, staging, assets, events, inflight, call>>,
           Works \/ Fails, creating' \in {"start", "persist", "meter", "rollback", "drop", "open", "over"},
           multipart' \in {"none", "open", "gone"}, multipart = "gone" => multipart' = "gone",
           sess' \in [state : {"ABSENT", "ACTIVE", "CANCELLED"}, object : {sess.object}] \/ sess' = sess,
           creating' = "start" => multipart' = "none" /\ sess'.state = "ABSENT",
           creating' \in {"persist", "meter", "rollback", "drop"} => multipart' = "open",
           creating' = "persist" => sess'.state = "ABSENT",
           creating' \in {"meter", "rollback"} => sess'.state = "ACTIVE",
           CancelledIsCollected'
    PROVE  Inv'
<1>1. landed' = landed /\ metered' = metered /\ faults' \in Nat
  BY FaultsGrow DEF events
<1>2. /\ sess'.object = sess.object /\ sess'.object \in Files \cup {None}
      /\ sess' \in [state : {"ABSENT", "ACTIVE", "ASSEMBLED", "COMPLETED", "CANCELLED"},
                    object : Files \cup {None}]
      /\ sess'.state \in {"ABSENT", "ACTIVE", "CANCELLED"} \/ sess' = sess
  BY DEF Inv, TypeOK
<1>3. TypeOK'
  BY <1>1, <1>2 DEF Inv, TypeOK
<1>4. \A i \in Calls : call[i].pc = "idle" /\ call'[i] = call[i]
  BY DEF Inv, Opening
<1>5. Objects' = Objects
  BY <1>1, <1>2 DEF Objects
<1>6. Fresh' /\ OneObject' /\ Recorded' /\ Opening'
  <2>1. Fresh' /\ OneObject' /\ Recorded'
    BY <1>5 DEF Inv, Fresh, OneObject, Recorded
  <2> QED BY <1>4, <2>1 DEF Opening
<1>7. Stored' /\ CompletedIsAnnounced'
  BY <1>1, <1>2 DEF Inv, Stored, CompletedIsAnnounced
<1>8. \A i \in Calls : Handled(call[i])'
  BY <1>4 DEF Handled, Equipped, Progress, Collecting, PutSteps, Admitted
<1>9. InflightIsExact'
  BY DEF Inv, InflightIsExact
<1> QED BY <1>3, <1>6, <1>7, <1>8, <1>9 DEF Inv

\* Nothing is in the bucket while handleCreate runs.
LEMMA CreateStep ==
    ASSUME UploadAssumption, Inv, Create
    PROVE  Inv'
<1>0. /\ creating \in {"start", "persist", "meter", "rollback", "drop"} => staging = None
      /\ sess \in [state : {"ABSENT", "ACTIVE", "ASSEMBLED", "COMPLETED", "CANCELLED"}, object : Files \cup {None}]
      /\ creating \in {"persist", "meter", "rollback", "drop"} => multipart = "open"
      /\ creating = "start" => multipart = "none" /\ sess.state = "ABSENT"
      /\ creating = "persist" => sess.state = "ABSENT"
      /\ creating \in {"meter", "rollback"} => sess.state = "ACTIVE"
  <2>1. multipart # "gone" => staging = None
    BY KnownObjects DEF Inv, Fresh, Objects
  <2> QED BY <2>1 DEF Inv, Opening, TypeOK
<1>1. Fails => faults' # 0
  BY DEF Fails, Inv, TypeOK
<1>2. CASE CreateMultipart
  <2>1. /\ creating = "start" /\ UNCHANGED <<sess, chunk, parts, staging, assets, events, inflight, call>>
        /\ (Works \/ Fails) /\ sess'.state = "ABSENT" /\ creating' \in {"persist", "over"}
    BY <1>0, <1>2 DEF CreateMultipart, rows
  <2>2. CancelledIsCollected'
    BY <2>1 DEF CancelledIsCollected
  <2> QED BY <1>0, <1>2, <2>1, <2>2, QuietSession DEF CreateMultipart
<1>3. CASE CreateSession
  <2>1. /\ creating = "persist" /\ UNCHANGED <<chunk, parts, staging, assets, events, inflight, call>>
        /\ (Works \/ Fails) /\ creating' \in {"meter", "over"} /\ multipart' \in {"open", "gone"}
        /\ creating' = "meter" => multipart' = "open" /\ sess' = [sess EXCEPT !.state = "ACTIVE"]
        /\ sess' = sess \/ sess' = [sess EXCEPT !.state = "ACTIVE"]
    BY <1>0, <1>3 DEF CreateSession, SetSessionState
  <2>2. /\ sess' = sess \/ sess' \in [state : {"ABSENT", "ACTIVE", "CANCELLED"}, object : {sess.object}]
        /\ sess'.state \in {"ABSENT", "ACTIVE"} /\ (creating' = "meter" => sess'.state = "ACTIVE")
    BY <1>0, <2>1
  <2>3. CancelledIsCollected'
    BY <2>2 DEF CancelledIsCollected
  <2> QED BY <1>0, <2>1, <2>2, <2>3, QuietSession
<1>4. CASE MeterCreated
  <2>1. /\ creating = "meter" /\ UNCHANGED <<sess, chunk, multipart, parts, staging, assets, events, inflight, call>>
        /\ Works /\ creating' \in {"open", "rollback"}
    BY <1>4 DEF MeterCreated, rows, bucket, Works
  <2>2. CancelledIsCollected'
    BY <1>0, <2>1 DEF CancelledIsCollected
  <2> QED BY <1>0, <2>1, <2>2, QuietSession
<1>5. CASE RollbackState
  <2>1. /\ creating = "rollback"
        /\ UNCHANGED <<chunk, multipart, parts, staging, assets, events, inflight, call>>
        /\ (Works /\ creating' = "drop") \/ (Fails /\ creating' = "over")
        /\ sess' = sess \/ sess' = [sess EXCEPT !.state = "CANCELLED"]
    BY <1>5 DEF RollbackState, SetSessionState, bucket
  <2>2. sess' = sess \/ sess' \in [state : {"ABSENT", "ACTIVE", "CANCELLED"}, object : {sess.object}]
    BY <1>0, <2>1
  <2>3. CancelledIsCollected'
    BY <1>1, <2>1 DEF CancelledIsCollected
  <2> QED BY <1>0, <2>1, <2>2, <2>3, QuietSession
<1>6. CASE RollbackAbort
  <2>1. /\ creating = "drop" /\ UNCHANGED <<sess, chunk, parts, staging, assets, events, inflight, call>>
        /\ (Works /\ multipart' = "gone") \/ (Fails /\ multipart' \in {"open", "gone"})
        /\ creating' = "over"
    BY <1>6 DEF RollbackAbort, rows
  <2>2. CancelledIsCollected'
    BY <1>0, <1>1, <2>1 DEF CancelledIsCollected
  <2> QED BY <1>0, <2>1, <2>2, QuietSession
<1> QED BY <1>2, <1>3, <1>4, <1>5, <1>6 DEF Create

\* A crash loses the handlers and their place, not what they achieved.
LEMMA CrashStep ==
    ASSUME UploadAssumption, Inv, Crash
    PROVE  Inv'
<1>1. /\ UNCHANGED <<sess, chunk, multipart, parts, staging, assets, landed, metered>>
      /\ faults' \in Nat /\ faults' # 0 /\ inflight' = 0
      /\ creating' = IF creating = "open" THEN "open" ELSE "over"
      /\ call' = [i \in Calls |-> NoCall]
  BY DEF Crash, Fails, rows, bucket, events, Inv, TypeOK
<1>2. call' \in [Calls -> Records] /\ \A i \in Calls : call'[i] = NoCall
  BY <1>1, NoCallShape
<1>3. TypeOK'
  BY <1>1, <1>2 DEF Inv, TypeOK, Records, Places
<1>4. Objects' \subseteq Objects
  BY <1>1, <1>2, NoCallShape DEF Objects
<1>5. Fresh' /\ OneObject' /\ Recorded'
  BY <1>1, <1>4 DEF Inv, Fresh, OneObject, Recorded
<1>6. Opening'
  BY <1>1, <1>2, NoCallShape DEF Opening
<1>7. Stored' /\ CompletedIsAnnounced' /\ CancelledIsCollected'
  BY <1>1 DEF Inv, Stored, CompletedIsAnnounced, CancelledIsCollected
<1>8. \A i \in Calls : Handled(call[i])'
  <2> SUFFICES ASSUME NEW i \in Calls PROVE Handled(call[i])'
    OBVIOUS
  <2>1. call'[i].pc = "idle"
    BY <1>2, NoCallShape
  <2> QED BY <2>1 DEF Handled, Equipped, Progress, Collecting, PutSteps, Admitted
<1>9. InflightIsExact'
  <2>1. Held' = {}
    BY <1>2, NoCallShape DEF Held, Admitted
  <2> QED BY <1>1, <2>1, FS_EmptySet DEF InflightIsExact, Held, UploadAssumption
<1> QED BY <1>3, <1>5, <1>6, <1>7, <1>8, <1>9 DEF Inv

LEMMA Initially ==
    ASSUME UploadAssumption, Init
    PROVE  Inv
<1>1. /\ \A i \in Calls : call[i] = NoCall /\ call[i].pc = "idle" /\ call[i].object = None
      /\ call \in [Calls -> Records]
  BY NoCallShape DEF Init
<1>2. sess.state = "ABSENT" /\ sess.object = None
  BY DEF Init, NoSession
<1>3. TypeOK
  BY <1>1 DEF Init, NoSession, TypeOK, Records, Places
<1>4. Objects = {}
  BY <1>1, <1>2 DEF Init, Objects
<1>5. Fresh /\ OneObject /\ Recorded
  BY <1>4 DEF Init, Fresh, OneObject, Recorded
<1>6. Opening /\ Stored /\ CompletedIsAnnounced /\ CancelledIsCollected
  BY <1>1, <1>2 DEF Init, Opening, Stored, CompletedIsAnnounced, CancelledIsCollected
<1>7. \A i \in Calls : Handled(call[i])
  BY <1>1 DEF Handled, Equipped, Progress, Collecting, PutSteps, Admitted
<1>8. InflightIsExact
  <2>1. Held = {}
    BY <1>1 DEF Held, Admitted
  <2> QED BY <2>1, FS_EmptySet DEF Init, InflightIsExact, Held, UploadAssumption
<1> QED BY <1>3, <1>5, <1>6, <1>7, <1>8 DEF Inv

LEMMA Steps ==
    ASSUME UploadAssumption, Inv, [Next]_vars
    PROVE  Inv'
<1>1. CASE Next
  BY <1>1, CreateStep, PutStep, CompleteStep, CancelStep, CrashStep DEF Next
<1>2. CASE UNCHANGED vars
  <2>1. /\ UNCHANGED <<creating, sess, chunk, multipart, parts, staging, assets, landed, metered, inflight, call, faults>>
    BY <1>2 DEF vars, rows, bucket, events
  <2>2. TypeOK' /\ Recorded' /\ Opening' /\ Stored'
    BY <2>1 DEF Inv, TypeOK, Recorded, Opening, Stored
  <2>3. Objects' = Objects
    BY <2>1 DEF Objects
  <2>4. Fresh' /\ OneObject'
    BY <2>1, <2>3 DEF Inv, Fresh, OneObject
  <2>5. \A i \in Calls : Handled(call[i])'
    BY <2>1 DEF Inv, Handled, Equipped, Progress, Collecting
  <2>6. CompletedIsAnnounced' /\ CancelledIsCollected' /\ InflightIsExact'
    BY <2>1 DEF Inv, CompletedIsAnnounced, CancelledIsCollected, InflightIsExact
  <2> QED BY <2>2, <2>4, <2>5, <2>6 DEF Inv
<1> QED BY <1>1, <1>2

LEMMA Invariance == Spec => []Inv
<1>1. Init => Inv
  BY Initially, UploadAssumption
<1>2. Inv /\ [Next]_vars => Inv'
  BY Steps, UploadAssumption
<1> QED BY <1>1, <1>2, PTL DEF Spec

-----------------------------------------------------------------------------
(* The theorems.                                                           *)

\* What is announced as landed is in the bucket under the key of its own
\* bytes, and a session lands one object only, for any number of handlers
\* that assemble it at once and any failures.
THEOREM LandsOneStoredObject == Spec => []LandedIsStored
<1>1. Inv => LandedIsStored
  <2> SUFFICES ASSUME Inv PROVE Cardinality(landed) <= 1
    BY DEF Inv, Stored, LandedIsStored
  <2>1. \A a, b \in landed : a = b
    BY NoneIsNothing, UploadAssumption DEF Inv, TypeOK, OneObject, Objects
  <2>2. landed = {} \/ \E a : landed = {a}
    BY <2>1
  <2> QED BY <2>2, FS_EmptySet, FS_Singleton
<1> QED BY <1>1, Invariance, PTL

\* A session is completed only after its object was announced and billed.
THEOREM CompletionIsAnnounced == Spec => []CompletedIsAnnounced
<1>1. Inv => CompletedIsAnnounced
  BY DEF Inv
<1> QED BY <1>1, Invariance, PTL

\* A cancelled session leaves neither an open multipart nor a staging object,
\* whatever other handlers were doing, unless a call failed.
THEOREM CancelCollects == Spec => []CancelledIsCollected
<1>1. Inv => CancelledIsCollected
  BY DEF Inv
<1> QED BY <1>1, Invariance, PTL

\* The gauge is exact on every path and never over its ceiling.
THEOREM GaugeIsExact == Spec => []InflightIsExact
<1>1. Inv => InflightIsExact
  BY DEF Inv
<1> QED BY <1>1, Invariance, PTL

\* No late failure reopens a chunk that is stored.
THEOREM DoneChunksStay == Spec => DoneIsKept
<1>1. Inv /\ [Next]_vars => [\A c \in Chunks : chunk[c].state = "DONE" => chunk'[c].state = "DONE"]_vars
  <2> SUFFICES ASSUME Inv, Next, NEW c \in Chunks, chunk[c].state = "DONE"
               PROVE  chunk'[c].state = "DONE"
    OBVIOUS
  <2>1. \/ chunk' = chunk
        \/ \E i \in Calls : ClaimChunk(i) \/ MarkChunkRetry(i) \/ MarkChunkDone(i)
    BY DEF Next, Create, CreateMultipart, CreateSession, MeterCreated, RollbackState, RollbackAbort, Put, PutChunk,
           TryAcquire, ReadBody, UploadPart, Complete, CompleteUpload, VerifyChunks, CompleteMultipart, CheckStaging,
           HashStaging, Copy, DeleteStaging, SetSessionAssembled, PublishLanded, MeterCompleted, SetCompleted,
           CancelSession, CancelUpload, AbortMultipart, LookForStaging, CollectStaging, SetCancelled, Crash, rows
  <2>2. ASSUME NEW i \in Calls, ClaimChunk(i) \/ MarkChunkRetry(i) PROVE chunk'[c].state = "DONE"
    <3>1. \/ chunk' = chunk
          \/ /\ chunk[call[i].chunk].state # "DONE"
             /\ \E s \in {"INFLIGHT", "RETRY"} : chunk' = [chunk EXCEPT ![call[i].chunk].state = s]
      BY <2>2 DEF ClaimChunk, MarkChunkRetry
    <3> QED BY <3>1 DEF Inv, TypeOK
  <2>3. ASSUME NEW i \in Calls, MarkChunkDone(i) PROVE chunk'[c].state = "DONE"
    <3>1. \/ chunk' = chunk
          \/ chunk' = [chunk EXCEPT ![call[i].chunk] = [state |-> "DONE", etag |-> call[i].body]]
      BY <2>3 DEF MarkChunkDone
    <3> QED BY <3>1 DEF Inv, TypeOK
  <2> QED BY <2>1, <2>2, <2>3
<1> QED BY <1>1, Invariance, PTL DEF Spec, DoneIsKept

=============================================================================
