--------------------------- MODULE UploadSession ---------------------------
(***************************************************************************)
(* One upload session of services/upload: the handlers of server.go, the   *)
(* rows of postgres.go, the inflight gauge of backpressure.go, and the     *)
(* bucket that blobstore.go drives.                                        *)
(*                                                                         *)
(* Any number of handlers run at once and each takes one step per SQL      *)
(* statement, bucket call or publication.  The session id is known only    *)
(* to a client that got 201, so the other handlers start after that.  The  *)
(* retry delay that Deny and Reset keep shapes only the 429 answer.        *)
(*                                                                         *)
(* A whole file is a function from chunks to contents; its content hash    *)
(* and the key made of it are that function, and the ETag of a part is the *)
(* content of the part.                                                    *)
(***************************************************************************)
EXTENDS Integers, FiniteSets

CONSTANTS
    Chunks,     \* chunk indexes of the session
    Contents,   \* what the body of a chunk may hold
    Calls,      \* identities for concurrent handlers
    None,       \* nothing
    Ceiling,    \* UPLOAD_MAX_INFLIGHT_BYTES, in chunks
    MaxFaults   \* bound: failed store and bucket calls, and crashes

ASSUME UploadAssumption ==
    /\ IsFiniteSet(Chunks) /\ Chunks # {}
    /\ IsFiniteSet(Calls)
    /\ None \notin Chunks \cup Contents \cup [Chunks -> Contents]
    /\ Ceiling \in Nat \ {0}
    /\ MaxFaults \in Nat

VARIABLES
    creating,   \* where handleCreate is
    sess,       \* the upload_sessions row: state and object key
    chunk,      \* chunk[c]: the upload_chunks row
    multipart,  \* the multipart upload: "none", "open" or "gone"
    parts,      \* parts[c]: content of the stored part, or None
    staging,    \* the object at the staging key, or None
    assets,     \* <<key, content>> of the objects under assets/
    landed,     \* objects announced as landed
    metered,    \* has upload_completed been emitted
    inflight,   \* gauge.current, in chunks
    call,       \* call[i]: a handler
    faults      \* failures so far

rows    == <<sess, chunk>>
bucket  == <<multipart, parts, staging, assets>>
events  == <<landed, metered>>
vars    == <<creating, rows, bucket, events, inflight, call, faults>>

Files == [Chunks -> Contents]

NoSession == [state |-> "ABSENT", object |-> None]

NoCall == [pc |-> "idle", chunk |-> None, body |-> None, etags |-> None,
           object |-> None]

\* handlePutChunk once the gauge has admitted it.
Admitted == {"claim", "body", "part", "done", "retry"}

PutSteps      == {"admit"} \cup Admitted
CompleteSteps == {"chunks", "landing", "assemble", "head", "hash", "copy", "clean",
                  "record", "landed", "meter", "finish"}
CancelSteps   == {"reabort", "abort", "look", "delete", "cancel"}

TypeOK ==
    /\ creating \in {"start", "persist", "meter", "rollback", "drop", "open", "over"}
    /\ sess \in [state : {"ABSENT", "ACTIVE", "ASSEMBLED", "COMPLETED", "CANCELLED"},
                 object : Files \cup {None}]
    /\ chunk \in [Chunks -> [state : {"PENDING", "INFLIGHT", "DONE", "RETRY"},
                             etag : Contents \cup {None}]]
    /\ multipart \in {"none", "open", "gone"}
    /\ parts \in [Chunks -> Contents \cup {None}]
    /\ staging \in Files \cup {None}
    /\ assets \subseteq Files \X Files
    /\ landed \subseteq Files
    /\ metered \in BOOLEAN
    /\ inflight \in Nat
    /\ call \in [Calls -> [pc : {"idle"} \cup PutSteps \cup CompleteSteps \cup CancelSteps,
                           chunk : Chunks \cup {None}, body : Contents \cup {None},
                           etags : Files \cup {None}, object : Files \cup {None}]]
    /\ faults \in Nat

Init ==
    /\ creating = "start"
    /\ sess = NoSession
    /\ chunk = [c \in Chunks |-> [state |-> "PENDING", etag |-> None]]
    /\ multipart = "none"
    /\ parts = [c \in Chunks |-> None]
    /\ staging = None
    /\ assets = {}
    /\ landed = {}
    /\ metered = FALSE
    /\ inflight = 0
    /\ call = [i \in Calls |-> NoCall]
    /\ faults = 0

-----------------------------------------------------------------------------
(***************************************************************************)
(* Outcomes.  A call that fails may have taken effect: its answer is lost. *)
(* A publication may fail any number of times without being a fault.       *)
(***************************************************************************)
Works == UNCHANGED faults
Fails == faults < MaxFaults /\ faults' = faults + 1

Goto(i, pc) == call' = [call EXCEPT ![i].pc = pc]
End(i)      == call' = [call EXCEPT ![i] = NoCall]

\* The end of handlePutChunk with its deferred gauge.Release.
Leave(i) == End(i) /\ inflight' = inflight - 1

SetSessionState(s) == sess' = [sess EXCEPT !.state = s]

-----------------------------------------------------------------------------
(***************************************************************************)
(* handleCreate.                                                           *)
(***************************************************************************)
CreateMultipart ==
    /\ creating = "start"
    /\ \/ Works /\ multipart' = "open" /\ creating' = "persist"
       \/ Fails /\ multipart' \in {"none", "open"} /\ creating' = "over"
    /\ UNCHANGED <<rows, parts, staging, assets, events, inflight, call>>

\* CreateSession is one transaction; when it fails the multipart is aborted,
\* whatever became of the transaction.
CreateSession ==
    /\ creating = "persist"
    /\ \/ Works /\ SetSessionState("ACTIVE") /\ creating' = "meter" /\ UNCHANGED multipart
       \/ /\ Fails
          /\ sess' \in {sess, [sess EXCEPT !.state = "ACTIVE"]}
          /\ creating' = "over"
          /\ multipart' \in {"open", "gone"}
    /\ UNCHANGED <<chunk, parts, staging, assets, events, inflight, call>>

\* Emit session_created: the answer is 201, or the session is rolled back.
MeterCreated ==
    /\ creating = "meter"
    /\ creating' \in {"open", "rollback"}
    /\ UNCHANGED <<rows, bucket, events, inflight, call, faults>>

RollbackState ==
    /\ creating = "rollback"
    /\ \/ Works /\ SetSessionState("CANCELLED") /\ creating' = "drop"
       \/ Fails /\ sess' \in {sess, [sess EXCEPT !.state = "CANCELLED"]} /\ creating' = "over"
    /\ UNCHANGED <<chunk, bucket, events, inflight, call>>

RollbackAbort ==
    /\ creating = "drop"
    /\ \/ Works /\ multipart' = "gone"
       \/ Fails /\ multipart' \in {"open", "gone"}
    /\ creating' = "over"
    /\ UNCHANGED <<rows, parts, staging, assets, events, inflight, call>>

Create ==
    \/ CreateMultipart \/ CreateSession \/ MeterCreated
    \/ RollbackState \/ RollbackAbort

-----------------------------------------------------------------------------
(***************************************************************************)
(* handlePutChunk.                                                         *)
(***************************************************************************)
Free(i) == creating = "open" /\ call[i].pc = "idle"

\* The session is read once, before anything else.
PutChunk(i, c, b) ==
    /\ Free(i)
    /\ sess.state = "ACTIVE"
    /\ call' = [call EXCEPT ![i] = [NoCall EXCEPT !.pc = "admit", !.chunk = c, !.body = b]]
    /\ UNCHANGED <<creating, rows, bucket, events, inflight, faults>>

TryAcquire(i) ==
    /\ call[i].pc = "admit"
    /\ \/ inflight + 1 <= Ceiling /\ inflight' = inflight + 1 /\ Goto(i, "claim")
       \/ inflight + 1 > Ceiling /\ UNCHANGED inflight /\ End(i)
    /\ UNCHANGED <<creating, rows, bucket, events, faults>>

ClaimChunk(i) ==
    LET c == call[i].chunk
        claimed == [chunk EXCEPT ![c].state = "INFLIGHT"]
    IN
    /\ call[i].pc = "claim"
    /\ \/ chunk[c].state = "DONE" /\ Works /\ UNCHANGED chunk /\ Leave(i)
       \/ /\ chunk[c].state # "DONE"
          /\ \/ Works /\ chunk' = claimed /\ Goto(i, "body") /\ UNCHANGED inflight
             \/ Fails /\ chunk' \in {chunk, claimed} /\ Leave(i)
    /\ UNCHANGED <<creating, sess, bucket, events>>

\* The body is whole and has the announced hash, or not.
ReadBody(i) ==
    /\ call[i].pc = "body"
    /\ Goto(i, "part") \/ Goto(i, "retry")
    /\ UNCHANGED <<creating, rows, bucket, events, inflight, faults>>

UploadPart(i) ==
    LET written == [parts EXCEPT ![call[i].chunk] = call[i].body] IN
    /\ call[i].pc = "part"
    /\ \/ multipart = "open" /\ Works /\ parts' = written /\ Goto(i, "done")
       \/ multipart = "open" /\ Fails /\ parts' \in {parts, written} /\ Goto(i, "retry")
       \/ multipart # "open" /\ Works /\ UNCHANGED parts /\ Goto(i, "retry")
    /\ UNCHANGED <<creating, rows, multipart, staging, assets, events, inflight>>

\* Mutant: a late failure reopens a chunk that is DONE.
MarkChunkRetryUnguarded(i) ==
    /\ call[i].pc = "retry"
    /\ chunk' = [chunk EXCEPT ![call[i].chunk].state = "RETRY"]
    /\ Works
    /\ Leave(i)
    /\ UNCHANGED <<creating, sess, bucket, events>>

\* Mutant: the admitted bytes are returned only on success.
MarkChunkRetryLeaks(i) ==
    /\ call[i].pc = "retry"
    /\ UNCHANGED <<chunk, inflight>>
    /\ Works
    /\ End(i)
    /\ UNCHANGED <<creating, sess, bucket, events>>

\* The error of this statement is ignored.
MarkChunkRetry(i) ==
    LET c == call[i].chunk
        marked == IF chunk[c].state # "DONE"
                  THEN [chunk EXCEPT ![c].state = "RETRY"] ELSE chunk
    IN
    /\ call[i].pc = "retry"
    /\ \/ Works /\ chunk' = marked
       \/ Fails /\ UNCHANGED chunk
    /\ Leave(i)
    /\ UNCHANGED <<creating, sess, bucket, events>>

MarkChunkDone(i) ==
    LET marked == [chunk EXCEPT ![call[i].chunk] = [state |-> "DONE", etag |-> call[i].body]]
    IN
    /\ call[i].pc = "done"
    /\ \/ Works /\ chunk' = marked
       \/ Fails /\ chunk' \in {chunk, marked}
    /\ Leave(i)
    /\ UNCHANGED <<creating, sess, bucket, events>>

Put(i) ==
    \/ \E c \in Chunks, b \in Contents : PutChunk(i, c, b)
    \/ TryAcquire(i) \/ ClaimChunk(i) \/ ReadBody(i) \/ UploadPart(i)
    \/ MarkChunkRetry(i) \/ MarkChunkDone(i)

-----------------------------------------------------------------------------
(***************************************************************************)
(* handleComplete and assemble.                                            *)
(***************************************************************************)

\* A cancelled or completed session answers at once.
CompleteUpload(i) ==
    /\ Free(i)
    /\ sess.state \in {"ACTIVE", "ASSEMBLED"}
    /\ call' = [call EXCEPT ![i] = [NoCall EXCEPT
                  !.pc = IF sess.state = "ACTIVE" THEN "chunks" ELSE "landing",
                  !.object = sess.object]]
    /\ UNCHANGED <<creating, rows, bucket, events, inflight, faults>>

\* GetChunks: every chunk is DONE, or the answer lists the missing ones.  An
\* ASSEMBLED session goes through it too.
VerifyChunks(i) ==
    /\ call[i].pc \in {"chunks", "landing"}
    /\ IF \A c \in Chunks : chunk[c].state = "DONE"
       THEN call' = [call EXCEPT
              ![i].pc = IF call[i].pc = "chunks" THEN "assemble" ELSE "landed",
              ![i].etags = IF call[i].pc = "chunks"
                           THEN [c \in Chunks |-> chunk[c].etag] ELSE None]
       ELSE End(i)
    /\ UNCHANGED <<creating, rows, bucket, events, inflight, faults>>

\* The bucket completes an open multipart whose parts have the listed ETags.
CompleteMultipart(i) ==
    LET accepted == multipart = "open" /\ parts = call[i].etags
    IN
    /\ call[i].pc = "assemble"
    /\ \/ /\ accepted /\ Works
          /\ multipart' = "gone" /\ staging' = call[i].etags
          /\ Goto(i, "hash")
       \/ /\ accepted /\ Fails
          /\ \/ multipart' = "gone" /\ staging' = call[i].etags
             \/ UNCHANGED <<multipart, staging>>
          /\ Goto(i, "head")
       \/ /\ ~accepted /\ Works
          /\ UNCHANGED <<multipart, staging>>
          /\ Goto(i, "head")
    /\ UNCHANGED <<creating, rows, parts, assets, events, inflight>>

\* HeadObject after an error: a staging object of full size is good enough.
CheckStaging(i) ==
    /\ call[i].pc = "head"
    /\ \/ staging # None /\ Works /\ Goto(i, "hash")
       \/ staging = None /\ Works /\ End(i)
       \/ Fails /\ End(i)
    /\ UNCHANGED <<creating, rows, bucket, events, inflight>>

\* Mutant: the hash is minted from the chunk map, not from the bytes.
HashChunkMap(i) ==
    /\ call[i].pc = "hash"
    /\ staging # None /\ Works
    /\ call' = [call EXCEPT ![i].pc = "copy", ![i].object = call[i].etags]
    /\ UNCHANGED <<creating, rows, bucket, events, inflight>>

\* GetObject and the hash over its stream.
HashStaging(i) ==
    /\ call[i].pc = "hash"
    /\ \/ /\ staging # None /\ Works
          /\ call' = [call EXCEPT ![i].pc = "copy", ![i].object = staging]
       \/ staging = None /\ Works /\ End(i)
       \/ Fails /\ End(i)
    /\ UNCHANGED <<creating, rows, bucket, events, inflight>>

\* Copy from the staging key, as it is now, to the key of the hash.
Copy(i) ==
    LET copied == assets \cup {<<call[i].object, staging>>} IN
    /\ call[i].pc = "copy"
    /\ \/ staging # None /\ Works /\ assets' = copied /\ Goto(i, "clean")
       \/ staging # None /\ Fails /\ assets' \in {assets, copied} /\ End(i)
       \/ staging = None /\ Works /\ UNCHANGED assets /\ End(i)
    /\ UNCHANGED <<creating, rows, multipart, parts, staging, events, inflight>>

\* The staging object is deleted; an error is only logged.
DeleteStaging(i) ==
    /\ call[i].pc = "clean"
    /\ \/ Works /\ staging' = None
       \/ Fails /\ staging' \in {staging, None}
    /\ Goto(i, "record")
    /\ UNCHANGED <<creating, rows, multipart, parts, assets, events, inflight>>

SetSessionAssembled(i) ==
    LET assembled == [state |-> "ASSEMBLED", object |-> call[i].object] IN
    /\ call[i].pc = "record"
    /\ \/ Works /\ sess' = assembled /\ Goto(i, "landed")
       \/ Fails /\ sess' \in {sess, assembled} /\ End(i)
    /\ UNCHANGED <<creating, chunk, bucket, events, inflight>>

\* Mutant: a landed event that could not be published is skipped.
PublishLandedUnchecked(i) ==
    /\ call[i].pc = "landed"
    /\ landed' \in {landed, landed \cup {call[i].object}}
    /\ Goto(i, "meter")
    /\ UNCHANGED <<creating, rows, bucket, metered, inflight, faults>>

PublishLanded(i) ==
    LET published == landed \cup {call[i].object} IN
    /\ call[i].pc = "landed"
    /\ \/ landed' = published /\ Goto(i, "meter")
       \/ landed' \in {landed, published} /\ End(i)
    /\ UNCHANGED <<creating, rows, bucket, metered, inflight, faults>>

MeterCompleted(i) ==
    /\ call[i].pc = "meter"
    /\ \/ metered' = TRUE /\ Goto(i, "finish")
       \/ metered' \in {metered, TRUE} /\ End(i)
    /\ UNCHANGED <<creating, rows, bucket, landed, inflight, faults>>

SetCompleted(i) ==
    /\ call[i].pc = "finish"
    /\ \/ Works /\ SetSessionState("COMPLETED")
       \/ Fails /\ sess' \in {sess, [sess EXCEPT !.state = "COMPLETED"]}
    /\ End(i)
    /\ UNCHANGED <<creating, chunk, bucket, events, inflight>>

Complete(i) ==
    \/ CompleteUpload(i) \/ VerifyChunks(i) \/ CompleteMultipart(i)
    \/ CheckStaging(i) \/ HashStaging(i) \/ Copy(i) \/ DeleteStaging(i)
    \/ SetSessionAssembled(i) \/ PublishLanded(i) \/ MeterCompleted(i)
    \/ SetCompleted(i)

-----------------------------------------------------------------------------
(***************************************************************************)
(* handleCancel.                                                           *)
(***************************************************************************)
CancelUpload(i) ==
    /\ Free(i)
    /\ \/ sess.state = "CANCELLED" /\ Goto(i, "reabort")
       \/ sess.state \in {"ACTIVE", "ASSEMBLED"} /\ Goto(i, "abort")
    /\ UNCHANGED <<creating, rows, bucket, events, inflight, faults>>

\* A multipart that is gone counts as aborted.
AbortMultipart(i) ==
    /\ call[i].pc \in {"abort", "reabort"}
    /\ \/ /\ Works /\ multipart' = "gone"
          /\ IF call[i].pc = "abort" THEN Goto(i, "look") ELSE End(i)
       \/ Fails /\ multipart' \in {multipart, "gone"} /\ End(i)
    /\ UNCHANGED <<creating, rows, parts, staging, assets, events, inflight>>

\* Mutant: cancel collects the parts and not the staging object.
LeaveStaging(i) ==
    /\ call[i].pc = "look"
    /\ Goto(i, "cancel")
    /\ UNCHANGED <<creating, rows, bucket, events, inflight, faults>>

\* HeadObject: an error reads as no object.
LookForStaging(i) ==
    /\ call[i].pc = "look"
    /\ \/ staging # None /\ Works /\ Goto(i, "delete")
       \/ staging = None /\ Works /\ Goto(i, "cancel")
       \/ Fails /\ Goto(i, "cancel")
    /\ UNCHANGED <<creating, rows, bucket, events, inflight>>

CollectStaging(i) ==
    /\ call[i].pc = "delete"
    /\ \/ Works /\ staging' = None /\ Goto(i, "cancel")
       \/ Fails /\ staging' \in {staging, None} /\ End(i)
    /\ UNCHANGED <<creating, rows, multipart, parts, assets, events, inflight>>

\* Unconditional, whatever state the session has by now.
SetCancelled(i) ==
    /\ call[i].pc = "cancel"
    /\ \/ Works /\ SetSessionState("CANCELLED")
       \/ Fails /\ sess' \in {sess, [sess EXCEPT !.state = "CANCELLED"]}
    /\ End(i)
    /\ UNCHANGED <<creating, chunk, bucket, events, inflight>>

CancelSession(i) ==
    \/ CancelUpload(i) \/ AbortMultipart(i) \/ LookForStaging(i)
    \/ CollectStaging(i) \/ SetCancelled(i)

-----------------------------------------------------------------------------
\* The process dies and starts again: handlers and the gauge are gone.
Crash ==
    /\ Fails
    /\ creating' = IF creating = "open" THEN "open" ELSE "over"
    /\ inflight' = 0
    /\ call' = [i \in Calls |-> NoCall]
    /\ UNCHANGED <<rows, bucket, events>>

Next ==
    \/ Create
    \/ \E i \in Calls : Put(i) \/ Complete(i) \/ CancelSession(i)
    \/ Crash

Spec == Init /\ [][Next]_vars

-----------------------------------------------------------------------------
(***************************************************************************)
(* Properties.                                                             *)
(***************************************************************************)

\* What is announced as landed is in the bucket, whole, under the key of its
\* own bytes, and a session lands one object only, however many handlers
\* assemble it at once (assemble, handleComplete).
LandedIsStored ==
    /\ \A o \in landed : <<o, o>> \in assets
    /\ sess.object # None => <<sess.object, sess.object>> \in assets
    /\ Cardinality(landed) <= 1

\* A chunk recorded DONE stays DONE: the late failure of another upload of
\* the same chunk does not reopen it (ClaimChunk, MarkChunkRetry).
DoneIsKept ==
    [][\A c \in Chunks : chunk[c].state = "DONE" => chunk'[c].state = "DONE"]_vars

\* A completed session was announced and billed first, so that a client that
\* retries complete until it succeeds never loses an event (handleComplete).
CompletedIsAnnounced ==
    sess.state = "COMPLETED" => metered /\ sess.object \in landed

\* Cancelling collects the multipart and the staging object even while other
\* handlers assemble, as long as no call fails (handleCancel, and the
\* roll-back in handleCreate once it is through).
CancelledIsCollected ==
    (sess.state = "CANCELLED" /\ faults = 0 /\ creating # "drop") =>
        multipart # "open" /\ staging = None

\* The gauge counts exactly the admitted bodies and stays within the ceiling,
\* on every path out of handlePutChunk (TryAcquire, Release).
InflightIsExact ==
    /\ inflight = Cardinality({i \in Calls : call[i].pc \in Admitted})
    /\ inflight <= Ceiling

Quiet == \A i \in Calls : call[i].pc = "idle"

\* Refuted.  "object assembly failed; retry complete": once the object is in
\* its final place a session that is still ACTIVE can be completed, from its
\* multipart or from its staging object.
AssemblyCanBeRetried ==
    (Quiet /\ sess.state = "ACTIVE" /\ assets # {}) =>
        multipart = "open" \/ staging # None

=============================================================================
