------------------------ MODULE MeetingPipelineProofs ------------------------
(***************************************************************************)
(* Proofs about MeetingPipeline for any number of meetings, mics, chunks,  *)
(* rows, sessions, requests, failing stops and crashes.                    *)
(***************************************************************************)
EXTENDS MeetingPipeline, JobTableProofs

USE PipelineAssumptions, MaxJobsAssumption
USE DEF PipelineAssumptions, MaxJobsAssumption

-----------------------------------------------------------------------------
\* The inductive invariant.

Recorded(m) == status[m] \notin {"unborn", "created", "live"}

\* The worker holds a running row of the kind its handler is for, and what it has
\* left to store fits.
WorkerHolds ==
  /\ (worker.pc = "idle") <=> (worker.job = NoJob)
  /\ worker.job # NoJob => jobs[worker.job].status = "running"
  /\ worker.pc \in {"transcribing", "storing", "announcing"} =>
       jobs[worker.job].kind = "quality_pass"
  /\ worker.pc = "embedding" => jobs[worker.job].kind = "index_transcript"
  /\ worker.pc = "storing" =>
       \A k \in Mics : segments[Working][k] + worker.left[k] <= MaxAudio

\* What a process that is not serving cannot have.
PowerHolds ==
  /\ power # "up" => /\ \A m \in Meetings : ~session[m] /\ deleting[m].at = "no"
                     /\ worker.job = NoJob
  /\ power = "down" => handoff = NoMeeting

\* A session belongs to a meeting that is live or was deleted under it.  What has
\* a job, or is about to, is past its recording and has no session.
JobsArePast ==
  /\ \A m \in Meetings : session[m] => status[m] \in {"live", "deleted"}
  /\ \A j \in JobId : jobs[j].status # "absent" =>
       Recorded(jobs[j].subject) /\ ~session[jobs[j].subject]
  /\ handoff # NoMeeting => /\ status[handoff] \in {"processing", "deleted"}
                            /\ ~session[handoff]

\* A delete request that has begun ends with the row, or dies and leaves it.
DeletesExisting == \A m \in Meetings : deleting[m].at # "no" => Exists(m)

PassOnce ==
  /\ \A m \in Meetings : \A i, j \in Passes(m) : i = j
  /\ handoff # NoMeeting => Passes(handoff) = {}

\* What the index and the confidentiality of a meeting go through.
IndexHolds ==
  /\ \A m \in Meetings : status[m] = "unborn" => ~indexed[m]
  /\ worker.pc = "embedding" => ~confidential[Working]

\* A file was named in the row of its mic when its writer was opened, and the row
\* has kept the name if it is still there.
Named(m, k) == mic[m][k] \in {"named", "removed"}
RowsName ==
  \A m \in Meetings, k \in Mics :
    /\ audio[m][k] \in {0, recorded[m][k]}
    /\ audio[m][k] > 0 \/ writer[m][k] # "none" \/ k \in stray[m] => Named(m, k)

\* A pass that has failed its meeting finds no more, should it be repeated: no stray
\* writer can write before the worker has marked the job, and a crash ends them.
FailedIsOver ==
  \A m \in Meetings :
    status[m] = "failed" /\ (\E j \in Passes(m) : Pending(jobs, j)) =>
      /\ Audible(m) = {}
      /\ (stray[m] = {} \/ (worker.pc = "raising" /\ worker.job \in Passes(m)))

\* n chunks of the recording of a mic are as many as a transcript must have.
Counted(m, k, n) ==
  \/ n = recorded[m][k]
  \/ n = 0 /\ (mic[m][k] = "removed" \/ audio[m][k] # recorded[m][k])
  \/ k \in late[m]

\* What the pass counts, from the start of a transcription to its end.
PassCounts ==
  /\ worker.pc = "transcribing" => \A k \in Mics : Counted(Working, k, worker.left[k])
  /\ worker.pc \in {"transcribing", "storing"} =>
       status[Working] \in {"processing", "done", "deleted"}
  /\ worker.pc = "storing" /\ Exists(Working) =>
       \A k \in Mics : Counted(Working, k, segments[Working][k] + worker.left[k])
  /\ (worker.pc \in {"announcing", "closing"} /\ status[Working] = "done"
        /\ jobs[worker.job].kind = "quality_pass") =>
       \A k \in Mics : Counted(Working, k, segments[Working][k])

Inv ==
  /\ TypeOK /\ WorkerHolds /\ PowerHolds
  /\ JobsArePast /\ PassOnce /\ DeletesExisting /\ RowsName
  /\ LiveRowHasSession /\ FailedMeansNothingRecorded /\ FailedIsOver
  /\ NoOrphanTranscript /\ StuckOnlyByCrash /\ IndexHolds /\ ConfidentialNotIndexed
  /\ PassCounts /\ DoneMeansTranscribed

-----------------------------------------------------------------------------
\* Which steps may change what.

Framed ==
  /\ \/ status' = status
     \/ \E m \in Meetings, secret \in BOOLEAN : CreateMeeting(m, secret)
     \/ \E m \in Meetings : \/ StartMeeting(m) \/ StopMeeting(m)
                            \/ DeleteRow(m) \/ RecoverMeeting(m)
     \/ \E j \in JobId : StartPass(j)
     \/ PassDone
  /\ \/ confidential' = confidential
     \/ \E m \in Meetings, secret \in BOOLEAN : CreateMeeting(m, secret)
  /\ \/ mic' = mic
     \/ \E m \in Meetings : StartMeeting(m) \/ DeleteRow(m)
     \/ \E m \in Meetings, k \in Mics : \/ AddMic(m, k) \/ RemoveRow(m, k)
                                        \/ Feed(m, k) \/ FeedFails(m, k)
  /\ \/ playback' = playback
     \/ \E m \in Meetings, k \in Mics : Feed(m, k) \/ FeedFails(m, k)
  /\ \/ removing' = removing
     \/ \E m \in Meetings, k \in Mics : RemoveChecks(m, k) \/ RemoveRow(m, k)
     \/ Crash
  /\ \/ audio' = audio /\ recorded' = recorded /\ late' = late
     \/ \E m \in Meetings : DeleteDefault(m)
     \/ \E m \in Meetings, k \in Mics : \/ Feed(m, k) \/ StrayWrites(m, k)
                                        \/ DeleteFile(m, k)
  /\ \/ stray' = stray
     \/ \E m \in Meetings : StopFails(m) \/ DeleteDefault(m)
     \/ \E m \in Meetings, k \in Mics : StrayWrites(m, k) \/ DeleteFile(m, k)
     \/ Crash
  /\ \/ segments' = segments
     \/ \E m \in Meetings : DeleteRow(m)
     \/ AsrEnds \/ (\E k \in Mics : StoreSegment(k))
  /\ \/ indexed' = indexed
     \/ \E m \in Meetings : DeleteIndex(m)
     \/ \E j \in JobId : StartIndex(j)
     \/ StoreChunks
  /\ \/ session' = session
     \/ \E m \in Meetings : \/ StartMeeting(m) \/ StopMeeting(m) \/ StopFails(m)
     \/ Crash
  /\ \/ writer' = writer
     \/ \E m \in Meetings : \/ StopMeeting(m) \/ StopFails(m) \/ DeleteDefault(m)
     \/ \E m \in Meetings, k \in Mics : \/ Feed(m, k) \/ FeedFails(m, k)
                                        \/ DeleteFile(m, k)
     \/ Crash
  /\ \/ handoff' = handoff
     \/ \E m \in Meetings : StopMeeting(m) \/ RecoverMeeting(m)
     \/ EnqueuePass \/ Crash
  /\ \/ deleting' = deleting
     \/ \E m \in Meetings : DeleteReads(m) \/ Deletes(m)
     \/ Crash
  /\ \/ jobs' = jobs
     \/ \E j \in JobId : StartPass(j) \/ StartIndex(j)
     \/ EnqueuePass \/ EnqueueIndex \/ EndJob \/ Serve
  /\ \/ worker' = worker
     \/ \E j \in JobId : StartPass(j) \/ StartIndex(j)
     \/ AsrFails \/ EmbedFails \/ StoreChunks
     \/ AsrEnds \/ (\E k \in Mics : StoreSegment(k)) \/ PassDone \/ EnqueueIndex
     \/ EndJob \/ Crash
  /\ power' = power \/ Crash \/ Boot \/ Serve
  /\ crashes' = crashes \/ Crash
  /\ unstopped' = unstopped \/ (\E m \in Meetings : StopFails(m))

LEMMA Frame ==
  ASSUME [Next]_vars
  PROVE  Framed
<1> USE DEF Framed, queue, rows, micRows, disk, live, proc
<1>1. CASE UNCHANGED vars
  BY <1>1 DEF vars
<1>2. ASSUME NEW m \in Meetings, NEW secret \in BOOLEAN, CreateMeeting(m, secret)
      PROVE  Framed
  BY <1>2 DEF CreateMeeting
<1>3. ASSUME NEW m \in Meetings, NEW k \in Mics,
             \/ AddMic(m, k) \/ RemoveChecks(m, k) \/ RemoveRow(m, k)
             \/ Feed(m, k) \/ FeedFails(m, k) \/ StrayWrites(m, k)
      PROVE  Framed
  BY <1>3 DEF AddMic, RemoveChecks, RemoveRow, Feed, FeedFails, StrayWrites
<1>4. ASSUME NEW m \in Meetings, StartMeeting(m) \/ StopMeeting(m) \/ StopFails(m)
      PROVE  Framed
  BY <1>4 DEF StartMeeting, StopMeeting, StopFails
<1>5. ASSUME NEW m \in Meetings, DeleteReads(m) \/ Deletes(m) PROVE Framed
  <2>1. CASE DeleteReads(m)
    BY <2>1 DEF DeleteReads
  <2>2. CASE Deletes(m) /\ (DeleteChecks(m) \/ DeleteRefused(m))
    BY <2>2 DEF DeleteChecks, DeleteRefused
  <2>3. CASE Deletes(m) /\ DeleteIndex(m)
    BY <2>3 DEF DeleteIndex
  <2>4. CASE Deletes(m) /\ DeleteDefault(m)
    BY <2>4 DEF DeleteDefault, Unlink
  <2>5. CASE Deletes(m) /\ \E k \in Mics : DeleteFile(m, k)
    BY <2>5 DEF DeleteFile, Unlink
  <2>6. CASE Deletes(m) /\ DeleteRow(m)
    BY <2>6 DEF DeleteRow
  <2>. QED  BY <1>5, <2>1, <2>2, <2>3, <2>4, <2>5, <2>6 DEF Deletes
<1>6. CASE Handlers
  BY <1>6 DEF Handlers, StartPass, StartIndex, AsrFails, AsrEnds, StoreSegment, PassDone,
              EnqueueIndex, EmbedFails, StoreChunks, EndJob
<1>7. CASE EnqueuePass \/ Crash \/ Startup
  BY <1>7 DEF EnqueuePass, Startup, Crash, RecoverMeeting, Boot, Serve
<1>. QED  BY <1>1, <1>2, <1>3, <1>4, <1>5, <1>6, <1>7 DEF Next

-----------------------------------------------------------------------------
\* What a step does to the journal.

\* No step loses a row or changes what it is about, and a step that inserts one
\* inserts the pass of the meeting handed over or the index job of the meeting
\* the worker is at.
RowsKept ==
  /\ jobs' \in Table
  /\ \A i \in JobId : jobs[i].status # "absent" =>
       /\ jobs'[i].status # "absent"
       /\ jobs'[i].kind = jobs[i].kind
       /\ jobs'[i].subject = jobs[i].subject

NewRows ==
  /\ \A i, j \in JobId : (/\ jobs[i].status = "absent" /\ jobs'[i].status # "absent"
                         /\ jobs[j].status = "absent" /\ jobs'[j].status # "absent")
                       => i = j
  /\ \A i \in JobId : jobs[i].status = "absent" /\ jobs'[i].status # "absent" =>
       /\ jobs'[i].status = "queued"
       /\ \/ /\ EnqueuePass
             /\ jobs'[i].kind = "quality_pass" /\ jobs'[i].subject = handoff
          \/ /\ EnqueueIndex
             /\ jobs'[i].kind = "index_transcript" /\ jobs'[i].subject = Working

\* What the worker and the journal hold.
LEMMA JobTypes ==
  ASSUME TypeOK
  PROVE  /\ jobs \in Table /\ handoff \in Meetings \cup {NoMeeting}
         /\ worker.job \in JobId \cup {NoJob} /\ worker.left \in [Mics -> 0 .. MaxAudio]
         /\ worker = [pc |-> worker.pc, job |-> worker.job, left |-> worker.left]
BY DEF TypeOK, WorkerStates

\* A working handler's row and its meeting.
LEMMA WorkingIsMeeting ==
  ASSUME TypeOK, WorkerHolds, worker.pc # "idle"
  PROVE  /\ worker.job \in JobId
         /\ jobs[worker.job].status = "running"
         /\ Working = jobs[worker.job].subject
         /\ Working \in Meetings
<1>1. worker.job \in JobId /\ jobs[worker.job].status = "running" /\ worker.job # NoJob
  BY JobTypes DEF WorkerHolds
<1>. QED  BY <1>1, RowProperties, JobTypes DEF Working, Meetings

LEMMA JournalStep ==
  ASSUME TypeOK, WorkerHolds, [Next]_vars
  PROVE  RowsKept /\ NewRows
<1> USE DEF RowsKept, NewRows
<1>0. jobs \in Table /\ handoff \in Meetings \cup {NoMeeting}
  BY JobTypes
<1>1. CASE EnqueuePass
  <2>1. PICK j \in JobId : /\ IsNextId(jobs, j)
                           /\ jobs' = Inserted(jobs, j, "quality_pass", handoff)
    BY <1>1 DEF EnqueuePass
  <2>2. "quality_pass" \in Kinds /\ handoff \in Subjects
    BY <1>0, <1>1 DEF EnqueuePass, Kinds, Meetings
  <2>. QED  BY <1>0, <1>1, <2>1, <2>2, NextIdProperties, InsertedProperties
<1>2. CASE EnqueueIndex
  <2>1. PICK j \in JobId : /\ IsNextId(jobs, j)
                           /\ jobs' = Inserted(jobs, j, "index_transcript", Working)
    BY <1>2 DEF EnqueueIndex
  <2>2. "index_transcript" \in Kinds /\ Working \in Subjects
    BY <1>2, WorkingIsMeeting DEF EnqueueIndex, Kinds, Meetings
  <2>. QED  BY <1>0, <1>2, <2>1, <2>2, NextIdProperties, InsertedProperties
<1>3. ASSUME NEW j \in JobId, NEW kind, Take(j, kind) PROVE RowsKept /\ NewRows
  <2>1. jobs[j].status = "queued" /\ "running" \in Statuses
    BY <1>3, NextJobProperties DEF Take, Statuses
  <2>. QED  BY <1>0, <1>3, <2>1, MarkedProperties DEF Take
<1>4. CASE EndJob
  <2>1. /\ worker.job \in JobId
        /\ jobs[worker.job].status # "absent"
        /\ "done" \in Statuses /\ "failed" \in Statuses
    BY <1>4, WorkingIsMeeting DEF EndJob, Statuses
  <2>2. PICK st \in {"done", "failed"} : jobs' = Marked(jobs, worker.job, st)
    BY <1>4 DEF EndJob
  <2>3. st \in Statuses /\ st # "absent"
    BY <2>1
  <2>. QED  BY <1>0, <2>1, <2>2, <2>3, MarkedProperties
<1>5. CASE Serve
  BY <1>0, <1>5, RequeuedProperties DEF Serve
<1>6. CASE jobs' = jobs
  BY <1>0, <1>6
<1>7. [Next]_vars => \/ EnqueuePass \/ EnqueueIndex \/ EndJob \/ Serve \/ jobs' = jobs
                     \/ \E j \in JobId : StartPass(j) \/ StartIndex(j)
  BY Frame DEF Framed
<1>. QED
  BY <1>1, <1>2, <1>3, <1>4, <1>5, <1>6, <1>7 DEF StartPass, StartIndex

-----------------------------------------------------------------------------
\* Types.

LEMMA WorkerTypes ==
  ASSUME TypeOK, WorkerHolds, [Next]_vars
  PROVE  worker' \in WorkerStates
<1> DEFINE Pc == {"idle", "transcribing", "storing", "announcing", "embedding",
                  "closing", "raising"}
<1>0. /\ worker \in WorkerStates /\ jobs \in Table
      /\ audio \in [Meetings -> [Mics -> 0 .. MaxAudio]]
  BY DEF TypeOK
<1>1. /\ Silence \in [Mics -> 0 .. MaxAudio]
      /\ worker.job \in JobId \cup {NoJob} /\ worker.left \in [Mics -> 0 .. MaxAudio]
  BY <1>0 DEF Silence, WorkerStates
<1>2. ASSUME NEW pc \in Pc, NEW j \in JobId \cup {NoJob}, NEW left \in [Mics -> 0 .. MaxAudio],
             worker' = [pc |-> pc, job |-> j, left |-> left]
      PROVE  worker' \in WorkerStates
  BY <1>2 DEF WorkerStates
<1>3. ASSUME NEW pc \in Pc, NEW j \in JobId \cup {NoJob}
      PROVE  At(pc, j) \in WorkerStates
  BY <1>1, <1>3 DEF At, WorkerStates
<1>4. Idle \in WorkerStates
  BY <1>1 DEF Idle, WorkerStates
<1>5. ASSUME NEW j \in JobId, StartPass(j) PROVE worker' \in WorkerStates
  <2> DEFINE left == [k \in Mics |-> IF k \in Audible(jobs[j].subject)
                                       THEN audio[jobs[j].subject][k] ELSE 0]
  <2>1. jobs[j].subject \in Meetings
    BY <1>0, <1>5, NextJobProperties, RowProperties DEF StartPass, Take, Meetings
  <2>2. left \in [Mics -> 0 .. MaxAudio]
    BY <1>0, <2>1
  <2>3. \/ worker' \in {At("closing", j), At("raising", j)}
        \/ worker' = [At("transcribing", j) EXCEPT !.left = left]
    BY <1>5 DEF StartPass
  <2>4. [At("transcribing", j) EXCEPT !.left = left] \in WorkerStates
    BY <2>2 DEF At, WorkerStates
  <2>. QED  BY <1>3, <2>3, <2>4
<1>6. ASSUME NEW j \in JobId, StartIndex(j) PROVE worker' \in WorkerStates
  BY <1>3, <1>6 DEF StartIndex
<1>7. CASE AsrFails \/ EmbedFails \/ StoreChunks \/ EndJob \/ Crash
  BY <1>1, <1>3, <1>4, <1>7 DEF AsrFails, EmbedFails, StoreChunks, EndJob, Crash
<1>8. CASE AsrEnds \/ PassDone \/ EnqueueIndex
  <2>1. PICK pc \in Pc : worker' = [worker EXCEPT !.pc = pc]
    BY <1>8 DEF AsrEnds, PassDone, EnqueueIndex
  <2>. QED  BY <1>0, <2>1 DEF WorkerStates
<1>9. ASSUME NEW k \in Mics, StoreSegment(k) PROVE worker' \in WorkerStates
  <2>1. CASE worker' = At("raising", worker.job)
    BY <1>1, <1>3, <2>1
  <2>2. CASE worker' = [worker EXCEPT !.left[k] = @ - 1]
    <3>1. [worker.left EXCEPT ![k] = @ - 1] \in [Mics -> 0 .. MaxAudio]
      BY <1>1, <1>9 DEF StoreSegment
    <3>. QED  BY <1>0, <2>2, <3>1 DEF WorkerStates
  <2>. QED  BY <1>9, <2>1, <2>2 DEF StoreSegment
<1>10. [Next]_vars =>
         \/ worker' = worker
         \/ \E j \in JobId : StartPass(j) \/ StartIndex(j)
         \/ AsrFails \/ EmbedFails \/ StoreChunks
         \/ AsrEnds \/ (\E k \in Mics : StoreSegment(k)) \/ PassDone \/ EnqueueIndex
         \/ EndJob \/ Crash
  BY Frame DEF Framed
<1>. QED  BY <1>0, <1>5, <1>6, <1>7, <1>8, <1>9, <1>10

LEMMA DiskTypes ==
  ASSUME TypeOK, [Next]_vars
  PROVE  /\ audio' \in [Meetings -> [Mics -> 0 .. MaxAudio]]
         /\ recorded' \in [Meetings -> [Mics -> 0 .. MaxAudio]]
         /\ late' \in [Meetings -> SUBSET Mics]
         /\ stray' \in [Meetings -> SUBSET Mics]
<1> DEFINE Counts == [Meetings -> [Mics -> 0 .. MaxAudio]]
           Sets == [Meetings -> SUBSET Mics]
           Typed == audio' \in Counts /\ recorded' \in Counts /\ late' \in Sets
                    /\ stray' \in Sets
<1>0. audio \in Counts /\ recorded \in Counts /\ late \in Sets /\ stray \in Sets
  BY DEF TypeOK
<1>1. ASSUME NEW m \in Meetings, NEW k \in Mics,
             audio[m][k] < MaxAudio,
             audio' = [audio EXCEPT ![m][k] = @ + 1],
             recorded' = [recorded EXCEPT ![m][k] = audio[m][k] + 1]
      PROVE  audio' \in Counts /\ recorded' \in Counts
  <2>1. audio[m][k] + 1 \in 0 .. MaxAudio
    BY <1>0, <1>1
  <2>2. /\ [audio[m] EXCEPT ![k] = @ + 1] \in [Mics -> 0 .. MaxAudio]
        /\ [recorded[m] EXCEPT ![k] = audio[m][k] + 1] \in [Mics -> 0 .. MaxAudio]
    BY <1>0, <2>1
  <2>. QED  BY <1>0, <1>1, <2>2
<1>2. ASSUME NEW m \in Meetings, NEW k \in Mics, Feed(m, k) PROVE Typed
  BY <1>0, <1>1, <1>2 DEF Feed
<1>3. ASSUME NEW m \in Meetings, NEW k \in Mics, StrayWrites(m, k) PROVE Typed
  BY <1>0, <1>1, <1>3 DEF StrayWrites
<1>4. ASSUME NEW m \in Meetings, NEW ks, Unlink(m, ks) PROVE Typed
  <2>1. [k \in Mics |-> IF k \in ks THEN 0 ELSE audio[m][k]] \in [Mics -> 0 .. MaxAudio]
    BY <1>0
  <2>. QED  BY <1>0, <1>4, <2>1 DEF Unlink
<1>5. ASSUME NEW m \in Meetings, StopFails(m) PROVE Typed
  BY <1>0, <1>5 DEF StopFails
<1>6. CASE Crash
  BY <1>0, <1>6 DEF Crash
<1>7. /\ \/ audio' = audio /\ recorded' = recorded /\ late' = late
         \/ \E m \in Meetings : DeleteDefault(m)
         \/ \E m \in Meetings, k \in Mics : \/ Feed(m, k) \/ StrayWrites(m, k)
                                            \/ DeleteFile(m, k)
      /\ \/ stray' = stray
         \/ \E m \in Meetings : StopFails(m) \/ DeleteDefault(m)
         \/ \E m \in Meetings, k \in Mics : StrayWrites(m, k) \/ DeleteFile(m, k)
         \/ Crash
  BY Frame DEF Framed
<1>. QED
  BY <1>0, <1>2, <1>3, <1>4, <1>5, <1>6, <1>7 DEF DeleteDefault, DeleteFile

LEMMA RegistryTypes ==
  ASSUME TypeOK, [Next]_vars
  PROVE  /\ mic' \in [Meetings -> [Mics -> {"unborn", "silent", "named", "removed"}]]
         /\ playback' \in [Meetings -> Mics \cup {NoMic}]
         /\ removing' \in [Meetings -> SUBSET Mics]
         /\ writer' \in [Meetings -> [Mics -> {"none", "open", "unlinked"}]]
<1> DEFINE MicRows == [Meetings -> [Mics -> {"unborn", "silent", "named", "removed"}]]
           Writers == [Meetings -> [Mics -> {"none", "open", "unlinked"}]]
<1>0. /\ mic \in MicRows /\ playback \in [Meetings -> Mics \cup {NoMic}]
      /\ removing \in [Meetings -> SUBSET Mics] /\ writer \in Writers
  BY DEF TypeOK
<1>1. ASSUME NEW m \in Meetings, NEW k \in Mics,
             NEW st \in {"unborn", "silent", "named", "removed"},
             mic' = [mic EXCEPT ![m][k] = st]
      PROVE  mic' \in MicRows
  <2>1. [mic[m] EXCEPT ![k] = st] \in [Mics -> {"unborn", "silent", "named", "removed"}]
    BY <1>0
  <2>. QED  BY <1>0, <1>1, <2>1
<1>2. ASSUME NEW m \in Meetings, StartMeeting(m) PROVE mic' \in MicRows
  BY <1>0, <1>1, <1>2 DEF StartMeeting, HasMic
<1>3. ASSUME NEW m \in Meetings, NEW k \in Mics, AddMic(m, k) \/ RemoveRow(m, k)
      PROVE  mic' \in MicRows
  BY <1>1, <1>3 DEF AddMic, RemoveRow
<1>4. ASSUME NEW m \in Meetings, DeleteRow(m) PROVE mic' \in MicRows
  BY <1>0, <1>4 DEF DeleteRow
<1>5. ASSUME NEW m \in Meetings, NEW k \in Mics, Opened(m, k)
      PROVE  /\ mic' \in MicRows /\ writer' \in Writers
             /\ playback' \in [Meetings -> Mics \cup {NoMic}]
  <2>1. CASE UNCHANGED <<mic, playback, writer>>
    BY <1>0, <2>1
  <2>2. CASE /\ mic' = [mic EXCEPT ![m][k] = "named"]
             /\ playback' = [playback EXCEPT ![m] = IF @ = NoMic THEN k ELSE @]
             /\ writer' = [writer EXCEPT ![m][k] = "open"]
    <3>1. [writer[m] EXCEPT ![k] = "open"] \in [Mics -> {"none", "open", "unlinked"}]
      BY <1>0
    <3>2. writer' \in Writers
      BY <1>0, <2>2, <3>1
    <3>3. playback' \in [Meetings -> Mics \cup {NoMic}]
      BY <1>0, <2>2
    <3>. QED  BY <1>1, <2>2, <3>2, <3>3
  <2>. QED  BY <1>5, <2>1, <2>2 DEF Opened
<1>6. ASSUME NEW m \in Meetings, NEW ks, Unlink(m, ks) PROVE writer' \in Writers
  <2>1. [k \in Mics |-> IF k \in ks /\ writer[m][k] = "open"
                          THEN "unlinked" ELSE writer[m][k]]
          \in [Mics -> {"none", "open", "unlinked"}]
    BY <1>0
  <2>. QED  BY <1>0, <1>6, <2>1 DEF Unlink
<1>7. ASSUME NEW m \in Meetings, EndSession(m) PROVE writer' \in Writers
  BY <1>0, <1>7 DEF EndSession
<1>8. Crash => writer' \in Writers /\ removing' \in [Meetings -> SUBSET Mics]
  BY DEF Crash
<1>9. ASSUME NEW m \in Meetings, NEW k \in Mics, RemoveChecks(m, k) \/ RemoveRow(m, k)
      PROVE  removing' \in [Meetings -> SUBSET Mics]
  <2>1. removing[m] \cup {k} \in SUBSET Mics /\ removing[m] \ {k} \in SUBSET Mics
    BY <1>0
  <2>2. \/ removing' = [removing EXCEPT ![m] = removing[m] \cup {k}]
        \/ removing' = [removing EXCEPT ![m] = removing[m] \ {k}]
    BY <1>0, <1>9 DEF RemoveChecks, RemoveRow
  <2>. QED  BY <1>0, <2>1, <2>2
<1>10. /\ \/ mic' = mic
          \/ \E m \in Meetings : StartMeeting(m) \/ DeleteRow(m)
          \/ \E m \in Meetings, k \in Mics : \/ AddMic(m, k) \/ RemoveRow(m, k)
                                             \/ Feed(m, k) \/ FeedFails(m, k)
       /\ \/ playback' = playback
          \/ \E m \in Meetings, k \in Mics : Feed(m, k) \/ FeedFails(m, k)
       /\ \/ removing' = removing
          \/ \E m \in Meetings, k \in Mics : RemoveChecks(m, k) \/ RemoveRow(m, k)
          \/ Crash
       /\ \/ writer' = writer
          \/ \E m \in Meetings : \/ StopMeeting(m) \/ StopFails(m) \/ DeleteDefault(m)
          \/ \E m \in Meetings, k \in Mics : \/ Feed(m, k) \/ FeedFails(m, k)
                                             \/ DeleteFile(m, k)
          \/ Crash
  BY Frame DEF Framed
<1>11. ASSUME NEW m \in Meetings, NEW k \in Mics, Feed(m, k) \/ FeedFails(m, k)
       PROVE  Opened(m, k)
  BY <1>11 DEF Feed, FeedFails
<1>12. ASSUME NEW m \in Meetings, StopMeeting(m) \/ StopFails(m) PROVE EndSession(m)
  BY <1>12 DEF StopMeeting, StopFails
<1>13. ASSUME NEW m \in Meetings, DeleteDefault(m) \/ (\E k \in Mics : DeleteFile(m, k))
       PROVE  \E ks : Unlink(m, ks)
  BY <1>13 DEF DeleteDefault, DeleteFile
<1>14. mic' \in MicRows
  BY <1>0, <1>2, <1>3, <1>4, <1>5, <1>10, <1>11
<1>15. writer' \in Writers
  BY <1>0, <1>5, <1>6, <1>7, <1>8, <1>10, <1>11, <1>12, <1>13
<1>. QED  BY <1>0, <1>5, <1>8, <1>9, <1>10, <1>11, <1>14, <1>15

LEMMA DeletingTypes ==
  ASSUME TypeOK, [Next]_vars
  PROVE  deleting' \in [Meetings -> Deletions]
<1>0. /\ deleting \in [Meetings -> Deletions]
      /\ playback \in [Meetings -> Mics \cup {NoMic}]
  BY DEF TypeOK
<1>1. Undisturbed \in Deletions
  BY DEF Undisturbed, Deletions
<1>2. Crash => deleting' \in [Meetings -> Deletions]
  BY <1>1 DEF Crash
<1>3. ASSUME NEW m \in Meetings, NEW d \in Deletions, deleting' = [deleting EXCEPT ![m] = d]
      PROVE  deleting' \in [Meetings -> Deletions]
  BY <1>0, <1>3
<1>4. ASSUME NEW m \in Meetings, DeleteReads(m)
      PROVE  deleting' \in [Meetings -> Deletions]
  <2>1. [Undisturbed EXCEPT !.at = "read", !.default = playback[m]] \in Deletions
    BY <1>0 DEF Undisturbed, Deletions
  <2>. QED  BY <1>3, <1>4, <2>1 DEF DeleteReads
<1>5. ASSUME NEW m \in Meetings, DeleteChecks(m) \/ DeleteIndex(m)
      PROVE  deleting' \in [Meetings -> Deletions]
  <2>1. /\ [deleting[m] EXCEPT !.at = "checked"] \in Deletions
        /\ [deleting[m] EXCEPT !.at = "unindexed"] \in Deletions
    BY <1>0 DEF Deletions
  <2>. QED  BY <1>0, <1>1, <1>3, <1>5, <2>1 DEF DeleteChecks, DeleteIndex
<1>6. ASSUME NEW m \in Meetings, DeleteDefault(m)
      PROVE  deleting' \in [Meetings -> Deletions]
  <2> DEFINE files == {k \in Mics : mic[m][k] = "named"}
  <2>1. [deleting[m] EXCEPT !.at = "unlinking", !.files = files] \in Deletions
    BY <1>0 DEF Deletions
  <2>. QED  BY <1>0, <1>6, <2>1 DEF DeleteDefault
<1>7. ASSUME NEW m \in Meetings, NEW k \in Mics, DeleteFile(m, k)
      PROVE  deleting' \in [Meetings -> Deletions]
  <2>1. [deleting[m] EXCEPT !.files = @ \ {k}] \in Deletions
    BY <1>0 DEF Deletions
  <2>. QED  BY <1>0, <1>7, <2>1 DEF DeleteFile
<1>8. ASSUME NEW m \in Meetings, DeleteRefused(m) \/ DeleteRow(m)
      PROVE  deleting' \in [Meetings -> Deletions]
  BY <1>1, <1>3, <1>8 DEF DeleteRefused, DeleteRow
<1>9. \/ deleting' = deleting
      \/ \E m \in Meetings : DeleteReads(m) \/ Deletes(m)
      \/ Crash
  BY Frame DEF Framed
<1>. QED
  BY <1>0, <1>2, <1>4, <1>5, <1>6, <1>7, <1>8, <1>9 DEF Deletes

LEMMA RowTypes ==
  ASSUME TypeOK, WorkerHolds, [Next]_vars
  PROVE  /\ status' \in [Meetings -> MeetingStates]
         /\ confidential' \in [Meetings -> BOOLEAN]
         /\ segments' \in [Meetings -> [Mics -> 0 .. MaxAudio]]
         /\ indexed' \in [Meetings -> BOOLEAN]
<1>0. /\ status \in [Meetings -> MeetingStates] /\ confidential \in [Meetings -> BOOLEAN]
      /\ segments \in [Meetings -> [Mics -> 0 .. MaxAudio]]
      /\ indexed \in [Meetings -> BOOLEAN]
      /\ worker.left \in [Mics -> 0 .. MaxAudio]
      /\ Silence \in [Mics -> 0 .. MaxAudio]
  BY DEF TypeOK, WorkerStates, Silence
<1>1. status' \in [Meetings -> MeetingStates]
  <2>1. ASSUME NEW m, NEW s \in MeetingStates
        PROVE  WithStatus(m, s) \in [Meetings -> MeetingStates]
    BY <1>0 DEF WithStatus
  <2>2. \/ status' = status
        \/ \E m, s : s \in MeetingStates /\ status' = [status EXCEPT ![m] = s]
        \/ \E m, s : s \in MeetingStates /\ status' = WithStatus(m, s)
    <3>1. ASSUME NEW m \in Meetings, NEW secret \in BOOLEAN, CreateMeeting(m, secret)
          PROVE  status' = [status EXCEPT ![m] = "created"]
      BY <3>1 DEF CreateMeeting
    <3>2. ASSUME NEW m \in Meetings,
                 StartMeeting(m) \/ DeleteRow(m) \/ RecoverMeeting(m)
          PROVE  \E s \in MeetingStates : status' = [status EXCEPT ![m] = s]
      BY <3>2 DEF StartMeeting, DeleteRow, RecoverMeeting, MeetingStates
    <3>3. ASSUME NEW m \in Meetings, StopMeeting(m)
          PROVE  status' = WithStatus(m, "processing")
      BY <3>3 DEF StopMeeting
    <3>4. ASSUME NEW j \in JobId, StartPass(j)
          PROVE  status' = status \/ status' = WithStatus(jobs[j].subject, "failed")
      BY <3>4 DEF StartPass
    <3>5. PassDone => status' = WithStatus(Working, "done")
      BY DEF PassDone
    <3>6. "created" \in MeetingStates /\ "processing" \in MeetingStates
          /\ "failed" \in MeetingStates /\ "done" \in MeetingStates
      BY DEF MeetingStates
    <3>7. \/ status' = status
          \/ \E m \in Meetings, secret \in BOOLEAN : CreateMeeting(m, secret)
          \/ \E m \in Meetings : \/ StartMeeting(m) \/ StopMeeting(m)
                                 \/ DeleteRow(m) \/ RecoverMeeting(m)
          \/ \E j \in JobId : StartPass(j)
          \/ PassDone
      BY Frame DEF Framed
    <3>. QED  BY <3>1, <3>2, <3>3, <3>4, <3>5, <3>6, <3>7
  <2>. QED  BY <1>0, <2>1, <2>2
<1>2. confidential' \in [Meetings -> BOOLEAN]
  <2>1. \/ confidential' = confidential
        \/ \E m \in Meetings, secret \in BOOLEAN : CreateMeeting(m, secret)
    BY Frame DEF Framed
  <2>. QED  BY <1>0, <2>1 DEF CreateMeeting
<1>3. segments' \in [Meetings -> [Mics -> 0 .. MaxAudio]]
  <2>1. ASSUME NEW m \in Meetings, NEW s \in [Mics -> 0 .. MaxAudio],
               segments' = [segments EXCEPT ![m] = s]
        PROVE  segments' \in [Meetings -> [Mics -> 0 .. MaxAudio]]
    BY <1>0, <2>1
  <2>2. ASSUME NEW k \in Mics, StoreSegment(k), segments' # segments
        PROVE  segments' \in [Meetings -> [Mics -> 0 .. MaxAudio]]
    <3>1. /\ worker.pc = "storing" /\ worker.left[k] > 0
          /\ segments' = [segments EXCEPT ![Working][k] = @ + 1]
      BY <2>2 DEF StoreSegment
    <3>2. Working \in Meetings /\ segments[Working][k] + worker.left[k] <= MaxAudio
      BY <3>1, WorkingIsMeeting DEF WorkerHolds
    <3>3. segments[Working][k] + 1 \in 0 .. MaxAudio
      BY <1>0, <3>1, <3>2
    <3>4. [segments[Working] EXCEPT ![k] = @ + 1] \in [Mics -> 0 .. MaxAudio]
      BY <1>0, <3>2, <3>3
    <3>. QED  BY <1>0, <3>1, <3>2, <3>4
  <2>3. ASSUME AsrEnds PROVE segments' \in [Meetings -> [Mics -> 0 .. MaxAudio]]
    BY <1>0, <2>3 DEF AsrEnds
  <2>4. \/ segments' = segments
        \/ \E m \in Meetings : DeleteRow(m)
        \/ AsrEnds \/ (\E k \in Mics : StoreSegment(k))
    BY Frame DEF Framed
  <2>. QED  BY <1>0, <2>1, <2>2, <2>3, <2>4 DEF DeleteRow
<1>4. indexed' \in [Meetings -> BOOLEAN]
  <2>1. \/ indexed' = indexed
        \/ \E m \in Meetings : DeleteIndex(m)
        \/ \E j \in JobId : StartIndex(j)
        \/ StoreChunks
    BY Frame DEF Framed
  <2>. QED  BY <1>0, <2>1 DEF DeleteIndex, StartIndex, StoreChunks
<1>. QED  BY <1>1, <1>2, <1>3, <1>4

LEMMA TypeStep == Inv /\ [Next]_vars => TypeOK'
<1> SUFFICES ASSUME Inv, [Next]_vars PROVE TypeOK'
  OBVIOUS
<1>0. TypeOK /\ WorkerHolds /\ jobs' \in Table
  BY JournalStep DEF Inv, RowsKept
<1>1. session' \in [Meetings -> BOOLEAN]
  <2>1. \/ session' = session
        \/ \E m \in Meetings : StartMeeting(m) \/ StopMeeting(m) \/ StopFails(m)
        \/ Crash
    BY Frame DEF Framed
  <2>2. session \in [Meetings -> BOOLEAN]
    BY <1>0 DEF TypeOK
  <2>. QED  BY <2>1, <2>2 DEF StartMeeting, StopMeeting, StopFails, EndSession, Crash
<1>2. handoff' \in Meetings \cup {NoMeeting}
  <2>1. \/ handoff' = handoff
        \/ \E m \in Meetings : StopMeeting(m) \/ RecoverMeeting(m)
        \/ EnqueuePass \/ Crash
    BY Frame DEF Framed
  <2>. QED
    BY <1>0, <2>1, JobTypes DEF StopMeeting, RecoverMeeting, EnqueuePass, Crash
<1>3. /\ power' \in {"down", "recovering", "up"}
      /\ crashes' \in 0 .. MaxCrashes
      /\ unstopped' \subseteq Meetings
  <2>1. /\ power' = power \/ Crash \/ Boot \/ Serve
        /\ crashes' = crashes \/ Crash
        /\ unstopped' = unstopped \/ (\E m \in Meetings : StopFails(m))
    BY Frame DEF Framed
  <2>2. /\ power \in {"down", "recovering", "up"} /\ crashes \in 0 .. MaxCrashes
        /\ unstopped \subseteq Meetings
    BY <1>0 DEF TypeOK
  <2>. QED  BY <2>1, <2>2 DEF Crash, Boot, Serve, StopFails
<1>. QED
  BY <1>0, <1>1, <1>2, <1>3, WorkerTypes, DiskTypes, RegistryTypes, DeletingTypes,
     RowTypes DEF TypeOK

-----------------------------------------------------------------------------
\* The worker's hold on its row.

\* A handler that goes on keeps its meeting.
LEMMA WorkingKept ==
  ASSUME TypeOK, WorkerHolds, [Next]_vars, worker.pc # "idle",
         worker'.job = worker.job
  PROVE  Working' = Working /\ jobs'[worker'.job].kind = jobs[worker.job].kind
<1>1. worker.job \in JobId /\ jobs[worker.job].status # "absent" /\ worker.job # NoJob
  BY WorkingIsMeeting DEF JobId, NoJob
<1>. QED  BY <1>1, JournalStep DEF RowsKept, Working

\* A step of the worker that begins nothing leaves the row running.
LEMMA RunningKept ==
  ASSUME TypeOK, WorkerHolds, EnqueueIndex \/ EnqueuePass \/ jobs' = jobs,
         NEW j \in JobId, jobs[j].status = "running"
  PROVE  jobs'[j].status = "running"
<1>1. ASSUME NEW i \in JobId, NEW k \in Kinds, NEW s \in Subjects, IsNextId(jobs, i),
             jobs' = Inserted(jobs, i, k, s)
      PROVE  jobs'[j].status = "running"
  BY <1>1, NextIdProperties, InsertedProperties, JobTypes
<1>2. CASE EnqueueIndex
  <2>1. "index_transcript" \in Kinds /\ Working \in Subjects
    BY <1>2, WorkingIsMeeting DEF EnqueueIndex, Kinds, Meetings
  <2>. QED  BY <1>1, <1>2, <2>1 DEF EnqueueIndex
<1>3. CASE EnqueuePass
  <2>1. "quality_pass" \in Kinds /\ handoff \in Subjects
    BY <1>3, JobTypes DEF EnqueuePass, Kinds, Meetings
  <2>. QED  BY <1>1, <1>3, <2>1 DEF EnqueuePass
<1>. QED  BY <1>2, <1>3

\* What a step does to a transcript.
LEMMA SegmentsStep ==
  ASSUME TypeOK, WorkerHolds, [Next]_vars, NEW m \in Meetings
  PROVE  \/ segments'[m] = segments[m]
         \/ DeleteRow(m) /\ segments'[m] = Silence
         \/ AsrEnds /\ m = Working /\ segments'[m] = Silence
         \/ \E k \in Mics : /\ StoreSegment(k) /\ m = Working /\ Exists(m)
                            /\ segments'[m] = [segments[m] EXCEPT ![k] = @ + 1]
<1>0. segments \in [Meetings -> [Mics -> 0 .. MaxAudio]]
  BY DEF TypeOK
<1>1. \/ segments' = segments
      \/ \E n \in Meetings : DeleteRow(n)
      \/ AsrEnds \/ (\E k \in Mics : StoreSegment(k))
  BY Frame DEF Framed
<1>2. ASSUME NEW n \in Meetings, DeleteRow(n)
      PROVE  segments'[m] = segments[m] \/ (n = m /\ segments'[m] = Silence)
  BY <1>0, <1>2 DEF DeleteRow
<1>3. CASE AsrEnds
  <2>1. Working \in Meetings
    BY <1>3, WorkingIsMeeting DEF AsrEnds
  <2>. QED  BY <1>0, <1>3, <2>1 DEF AsrEnds
<1>4. ASSUME NEW k \in Mics, StoreSegment(k)
      PROVE  \/ segments'[m] = segments[m]
             \/ /\ m = Working /\ Exists(m)
                /\ segments'[m] = [segments[m] EXCEPT ![k] = @ + 1]
  <2>1. Working \in Meetings
    BY <1>4, WorkingIsMeeting DEF StoreSegment
  <2>. QED  BY <1>0, <1>4, <2>1 DEF StoreSegment
<1>. QED  BY <1>1, <1>2, <1>3, <1>4

LEMMA WorkerStep == Inv /\ [Next]_vars => WorkerHolds'
<1> SUFFICES ASSUME Inv, [Next]_vars PROVE WorkerHolds'
  OBVIOUS
<1>0. /\ TypeOK /\ WorkerHolds /\ PowerHolds /\ RowsKept
      /\ jobs \in Table /\ jobs' \in Table
      /\ segments \in [Meetings -> [Mics -> 0 .. MaxAudio]]
      /\ worker.left \in [Mics -> 0 .. MaxAudio]
      /\ worker = [pc |-> worker.pc, job |-> worker.job, left |-> worker.left]
  BY JournalStep, JobTypes DEF Inv, TypeOK, RowsKept
\* Steps that are not the worker's.
<1>1. ASSUME worker' = worker, EnqueuePass \/ jobs' = jobs,
             worker.pc = "storing" => ~AsrEnds /\ \A k \in Mics : ~StoreSegment(k)
      PROVE  WorkerHolds'
  <2>1. CASE worker.pc = "idle"
    BY <1>0, <1>1, <2>1 DEF WorkerHolds
  <2>2. CASE worker.pc # "idle"
    <3>1. /\ Working' = Working /\ Working \in Meetings
          /\ worker.job \in JobId /\ worker.job # NoJob
          /\ jobs'[worker.job].status = "running"
          /\ jobs'[worker.job].kind = jobs[worker.job].kind
      BY <1>0, <1>1, <2>2, WorkingKept, WorkingIsMeeting, RunningKept DEF JobId, NoJob
    <3>2. worker.pc = "storing" => segments'[Working] \in {segments[Working], Silence}
      BY <1>0, <1>1, <3>1, SegmentsStep
    <3>3. worker.pc = "storing" =>
            \A k \in Mics : segments'[Working][k] + worker.left[k] <= MaxAudio
      BY <1>0, <3>1, <3>2 DEF Silence, WorkerHolds
    <3>. QED  BY <1>0, <1>1, <3>1, <3>3 DEF WorkerHolds
  <2>. QED  BY <2>1, <2>2
\* Steps of a handler that leave the journal alone or insert the index job.
<1>2. ASSUME NEW pc \in {"storing", "announcing", "closing", "raising"},
             worker.pc # "idle", worker'.pc = pc, worker'.job = worker.job,
             EnqueueIndex \/ jobs' = jobs,
             pc \in {"storing", "announcing"} =>
                jobs[worker.job].kind = "quality_pass",
             pc = "storing" =>
                \A k \in Mics : segments'[Working][k] + worker'.left[k] <= MaxAudio
      PROVE  WorkerHolds'
  <2>1. /\ Working' = Working
        /\ worker.job \in JobId /\ worker.job # NoJob
        /\ jobs'[worker.job].status = "running"
        /\ jobs'[worker.job].kind = jobs[worker.job].kind
    BY <1>0, <1>2, WorkingKept, WorkingIsMeeting, RunningKept DEF JobId, NoJob
  <2>. QED  BY <1>2, <2>1 DEF WorkerHolds
<1>3. ASSUME NEW j \in JobId, NEW kind, Take(j, kind), worker'.job = j,
             worker'.pc \in {"transcribing", "embedding", "closing", "raising"},
             worker'.pc = "transcribing" => kind = "quality_pass",
             worker'.pc = "embedding" => kind = "index_transcript"
      PROVE  WorkerHolds'
  <2>1. jobs[j].status = "queued" /\ "running" \in Statuses /\ j # NoJob
    BY <1>3, NextJobProperties DEF Take, Statuses, JobId, NoJob
  <2>2. jobs'[j].status = "running" /\ jobs'[j].kind = kind
    BY <1>0, <1>3, <2>1, MarkedProperties DEF Take
  <2>. QED  BY <1>3, <2>1, <2>2 DEF WorkerHolds
<1>4. CASE worker' = Idle
  BY <1>4 DEF WorkerHolds, Idle
<1>5. ASSUME NEW j \in JobId, StartPass(j) PROVE WorkerHolds'
  <2>1. worker'.job = j /\ worker'.pc \in {"transcribing", "closing", "raising"}
    BY <1>5 DEF StartPass, At
  <2>. QED  BY <1>3, <1>5, <2>1 DEF StartPass
<1>6. ASSUME NEW j \in JobId, StartIndex(j) PROVE WorkerHolds'
  <2>1. worker'.job = j /\ worker'.pc \in {"embedding", "closing"}
    BY <1>6 DEF StartIndex, At
  <2>. QED  BY <1>3, <1>6, <2>1 DEF StartIndex
<1>7. CASE AsrFails \/ EmbedFails \/ StoreChunks
  <2>1. /\ worker.pc # "idle" /\ worker'.job = worker.job /\ jobs' = jobs
        /\ worker'.pc \in {"closing", "raising"}
    BY <1>7 DEF AsrFails, EmbedFails, StoreChunks, At, rows, micRows, disk, live, proc
  <2>. QED  BY <1>2, <2>1
<1>8. CASE AsrEnds
  <2>1. /\ worker.pc = "transcribing" /\ jobs' = jobs
        /\ worker'.pc = "storing" /\ worker'.job = worker.job
        /\ worker'.left = worker.left
    BY <1>0, <1>8 DEF AsrEnds
  <2>2. Working \in Meetings /\ jobs[worker.job].kind = "quality_pass"
    BY <1>0, <2>1, WorkingIsMeeting DEF WorkerHolds
  <2>3. \A k \in Mics : segments'[Working][k] + worker'.left[k] <= MaxAudio
    BY <1>0, <1>8, <2>1, <2>2 DEF AsrEnds, Silence
  <2>. QED  BY <1>2, <2>1, <2>2, <2>3
<1>9. ASSUME NEW k \in Mics, StoreSegment(k) PROVE WorkerHolds'
  <2>1. /\ worker.pc = "storing" /\ jobs' = jobs
        /\ jobs[worker.job].kind = "quality_pass" /\ Working \in Meetings
        /\ \A i \in Mics : segments[Working][i] + worker.left[i] <= MaxAudio
    BY <1>0, <1>9, WorkingIsMeeting DEF StoreSegment, WorkerHolds
  <2>2. CASE Exists(Working)
    <3>1. /\ worker'.pc = "storing" /\ worker'.job = worker.job
          /\ worker'.left = [worker.left EXCEPT ![k] = @ - 1]
          /\ segments'[Working] = [segments[Working] EXCEPT ![k] = @ + 1]
      BY <1>0, <1>9, <2>1, <2>2 DEF StoreSegment
    <3>2. \A i \in Mics : segments'[Working][i] + worker'.left[i] <= MaxAudio
      BY <1>0, <2>1, <3>1
    <3>. QED  BY <1>2, <2>1, <3>1, <3>2
  <2>3. CASE ~Exists(Working)
    <3>1. worker'.pc = "raising" /\ worker'.job = worker.job
      BY <1>9, <2>3 DEF StoreSegment, At
    <3>. QED  BY <1>2, <2>1, <3>1
  <2>. QED  BY <2>2, <2>3
<1>10. CASE PassDone
  <2>1. /\ worker.pc = "storing" /\ jobs' = jobs
        /\ worker'.pc = "announcing" /\ worker'.job = worker.job
    BY <1>0, <1>10 DEF PassDone
  <2>. QED  BY <1>0, <1>2, <2>1 DEF WorkerHolds
<1>11. CASE EnqueueIndex
  <2>1. worker.pc # "idle" /\ worker'.pc = "closing" /\ worker'.job = worker.job
    BY <1>0, <1>11 DEF EnqueueIndex
  <2>. QED  BY <1>2, <1>11, <2>1
<1>12. CASE EndJob \/ Crash
  BY <1>4, <1>12 DEF EndJob, Crash
<1>13. CASE Serve
  <2>1. worker.pc = "idle" /\ worker' = worker
    BY <1>0, <1>13 DEF PowerHolds, WorkerHolds, Serve
  <2>. QED  BY <1>0, <2>1 DEF WorkerHolds
<1>14. /\ \/ jobs' = jobs
          \/ \E j \in JobId : StartPass(j) \/ StartIndex(j)
          \/ EnqueuePass \/ EnqueueIndex \/ EndJob \/ Serve
       /\ \/ worker' = worker
          \/ \E j \in JobId : StartPass(j) \/ StartIndex(j)
          \/ AsrFails \/ EmbedFails \/ StoreChunks
          \/ AsrEnds \/ (\E k \in Mics : StoreSegment(k)) \/ PassDone \/ EnqueueIndex
          \/ EndJob \/ Crash
  BY Frame DEF Framed
<1>. QED
  BY <1>1, <1>5, <1>6, <1>7, <1>8, <1>9, <1>10, <1>11, <1>12, <1>13, <1>14

-----------------------------------------------------------------------------
\* What a process that is not serving cannot have.

LEMMA PowerStep == Inv /\ [Next]_vars => PowerHolds'
<1> SUFFICES ASSUME Inv, [Next]_vars PROVE PowerHolds'
  OBVIOUS
<1>0. TypeOK /\ WorkerHolds /\ PowerHolds
  BY DEF Inv
<1>1. CASE Crash
  BY <1>1 DEF PowerHolds, Crash, Idle, Undisturbed
<1>2. ASSUME power' = "up" PROVE PowerHolds'
  BY <1>2 DEF PowerHolds
<1>3. CASE power # "up" /\ ~Crash /\ power' # "up"
  <2>1. /\ \A m \in Meetings : ~session[m] /\ deleting[m].at = "no"
        /\ worker.job = NoJob /\ worker.pc = "idle"
        /\ power = "down" => handoff = NoMeeting
    BY <1>0, <1>3 DEF PowerHolds, WorkerHolds
  <2>2. session' = session
    <3>1. ASSUME NEW m \in Meetings, StartMeeting(m) \/ StopMeeting(m) \/ StopFails(m)
          PROVE  power = "up"
      BY <3>1 DEF StartMeeting, StopMeeting, StopFails, LoopFree
    <3>. QED  BY <1>3, <3>1, Frame DEF Framed
  <2>3. deleting' = deleting
    <3>1. ASSUME NEW m \in Meetings, DeleteReads(m) PROVE power = "up"
      BY <3>1 DEF DeleteReads
    <3>2. ASSUME NEW m \in Meetings, Deletes(m) PROVE deleting[m].at # "no"
      BY <3>2 DEF Deletes, DeleteChecks, DeleteIndex, DeleteDefault, DeleteFile,
                  DeleteRefused, DeleteRow
    <3>. QED  BY <1>3, <2>1, <3>1, <3>2, Frame DEF Framed
  <2>4. worker' = worker
    <3>1. ASSUME NEW j \in JobId, StartPass(j) \/ StartIndex(j) PROVE power = "up"
      BY <3>1 DEF StartPass, StartIndex, Take, LoopFree
    <3>2. \/ AsrFails \/ EmbedFails \/ StoreChunks \/ AsrEnds
          \/ (\E k \in Mics : StoreSegment(k)) \/ PassDone \/ EnqueueIndex \/ EndJob
          => worker.pc # "idle"
      BY DEF AsrFails, EmbedFails, StoreChunks, AsrEnds, StoreSegment, PassDone,
             EnqueueIndex, EndJob
    <3>. QED  BY <1>3, <2>1, <3>1, <3>2, Frame DEF Framed
  <2>5. power' = "down" => handoff' = NoMeeting
    <3>1. power' = "down" => power = "down"
      BY <1>3, Frame DEF Framed, Boot, Serve
    <3>2. ASSUME NEW m \in Meetings, StopMeeting(m) \/ RecoverMeeting(m)
          PROVE  power # "down"
      BY <3>2 DEF StopMeeting, RecoverMeeting, LoopFree
    <3>3. EnqueuePass => power # "down"
      BY DEF EnqueuePass
    <3>. QED  BY <1>3, <2>1, <3>1, <3>2, <3>3, Frame DEF Framed
  <2>. QED  BY <2>1, <2>2, <2>3, <2>4, <2>5 DEF PowerHolds
<1>4. power = "up" => Crash \/ power' = "up"
  BY Frame DEF Framed, Boot, Serve
<1>. QED  BY <1>1, <1>2, <1>3, <1>4

-----------------------------------------------------------------------------
\* What has a job is past its recording.

\* No step brings a recording back: what is past it stays so, and stays without a
\* session.
LEMMA PastKept ==
  ASSUME Inv, [Next]_vars, NEW m \in Meetings, Recorded(m), ~session[m]
  PROVE  Recorded(m)' /\ ~session'[m]
<1>0. /\ status \in [Meetings -> MeetingStates] /\ session \in [Meetings -> BOOLEAN]
      /\ TypeOK /\ WorkerHolds /\ status[m] \notin {"unborn", "created", "live"}
      /\ jobs \in Table
  BY DEF Inv, TypeOK, Recorded
<1>1. ~session'[m]
  <2>1. ASSUME NEW n \in Meetings, StartMeeting(n) \/ StopMeeting(n) \/ StopFails(n)
        PROVE  session'[m] = session[m] /\ n # m
    BY <1>0, <2>1 DEF StartMeeting, MayStart, StopMeeting, StopFails, EndSession
  <2>. QED  BY <2>1, Frame DEF Framed, Crash
<1>2. Recorded(m)'
  <2>1. ASSUME NEW n \in Meetings, NEW secret \in BOOLEAN, CreateMeeting(n, secret)
        PROVE  status'[m] = status[m]
    BY <1>0, <2>1 DEF CreateMeeting
  <2>2. ASSUME NEW n \in Meetings, StartMeeting(n) \/ RecoverMeeting(n)
        PROVE  status'[m] = status[m]
    BY <1>0, <2>2 DEF StartMeeting, MayStart, RecoverMeeting
  <2>3. ASSUME NEW n \in Meetings, StopMeeting(n)
        PROVE  status'[m] = status[m]
    BY <1>0, <2>3 DEF StopMeeting, EndSession, WithStatus
  <2>4. ASSUME NEW n \in Meetings, DeleteRow(n)
        PROVE  status'[m] \in {status[m], "deleted"}
    BY <1>0, <2>4 DEF DeleteRow
  <2>5. ASSUME NEW j \in JobId, StartPass(j)
        PROVE  status'[m] \in {status[m], "failed"}
    BY <1>0, <2>5 DEF StartPass, WithStatus
  <2>6. PassDone => status'[m] \in {status[m], "done"}
    BY <1>0 DEF PassDone, WithStatus
  <2>7. \/ status' = status
        \/ \E n \in Meetings, secret \in BOOLEAN : CreateMeeting(n, secret)
        \/ \E n \in Meetings : \/ StartMeeting(n) \/ StopMeeting(n)
                               \/ DeleteRow(n) \/ RecoverMeeting(n)
        \/ \E j \in JobId : StartPass(j)
        \/ PassDone
    BY Frame DEF Framed
  <2>. QED  BY <1>0, <2>1, <2>2, <2>3, <2>4, <2>5, <2>6, <2>7 DEF Recorded
<1>. QED  BY <1>1, <1>2

\* What is handed over was handed over before, or its session ends or is found dead
\* in this step.
LEMMA HandoffStep ==
  ASSUME Inv, [Next]_vars, handoff' # NoMeeting, handoff' # handoff
  PROVE  /\ handoff' \in Meetings
         /\ ~Recorded(handoff') \/ session[handoff']
         /\ jobs' = jobs
         /\ status'[handoff'] \in {"processing", "deleted"}
         /\ ~session'[handoff']
<1> DEFINE Goal ==
     /\ handoff' \in Meetings
     /\ ~Recorded(handoff') \/ session[handoff']
     /\ jobs' = jobs
     /\ status'[handoff'] \in {"processing", "deleted"}
     /\ ~session'[handoff']
<1>0. /\ JobsArePast /\ PowerHolds
      /\ status \in [Meetings -> MeetingStates] /\ session \in [Meetings -> BOOLEAN]
  BY DEF Inv, TypeOK
<1>1. ASSUME NEW m \in Meetings, StopMeeting(m) PROVE Goal
  <2>1. /\ handoff' = m /\ session[m] /\ ~session'[m] /\ jobs' = jobs
        /\ status' = WithStatus(m, "processing")
    BY <1>0, <1>1 DEF StopMeeting, EndSession, queue
  <2>2. status[m] \in {"live", "deleted"}
    BY <1>0, <2>1 DEF JobsArePast
  <2>3. status'[m] \in {"processing", "deleted"}
    BY <1>0, <2>1, <2>2 DEF WithStatus, Exists
  <2>. QED  BY <2>1, <2>3
<1>2. ASSUME NEW m \in Meetings, RecoverMeeting(m), handoff' # NoMeeting PROVE Goal
  <2>1. /\ handoff' = m /\ status[m] = "live" /\ status'[m] = "processing"
        /\ jobs' = jobs /\ session' = session
    BY <1>0, <1>2 DEF RecoverMeeting, queue, live
  <2>2. ~session[m]
    BY <1>0, <1>2 DEF RecoverMeeting, PowerHolds
  <2>. QED  BY <2>1, <2>2 DEF Recorded
<1>3. \/ handoff' = handoff \/ handoff' = NoMeeting
      \/ \E m \in Meetings : StopMeeting(m) \/ RecoverMeeting(m)
  BY Frame DEF Framed, EnqueuePass, Crash
<1>. QED  BY <1>1, <1>2, <1>3

\* A meeting handed over stays processing until its pass is in the journal, or goes.
LEMMA HandoffKept ==
  ASSUME Inv, [Next]_vars, handoff # NoMeeting, handoff' = handoff
  PROVE  status'[handoff] \in {"processing", "deleted"} /\ ~session'[handoff]
<1>0. /\ handoff \in Meetings /\ ~session[handoff] /\ Recorded(handoff)
      /\ status[handoff] \in {"processing", "deleted"}
      /\ status \in [Meetings -> MeetingStates] /\ WorkerHolds /\ TypeOK
  BY DEF Inv, TypeOK, JobsArePast, Recorded
<1>1. ASSUME NEW n \in Meetings, NEW secret \in BOOLEAN, CreateMeeting(n, secret)
      PROVE  status'[handoff] = status[handoff]
  BY <1>0, <1>1 DEF CreateMeeting
<1>2. ASSUME NEW n \in Meetings,
             StartMeeting(n) \/ StopMeeting(n) \/ RecoverMeeting(n)
      PROVE  FALSE
  BY <1>2 DEF StartMeeting, StopMeeting, LoopFree, RecoverMeeting
<1>3. ASSUME NEW n \in Meetings, DeleteRow(n)
      PROVE  status'[handoff] \in {status[handoff], "deleted"}
  BY <1>0, <1>3 DEF DeleteRow
<1>4. ASSUME NEW j \in JobId, StartPass(j) PROVE FALSE
  BY <1>4 DEF StartPass, Take, LoopFree
<1>5. PassDone => status'[handoff] = status[handoff]
  <2>1. ASSUME PassDone, Working = handoff PROVE FALSE
    <3>1. worker.job \in Passes(handoff)
      BY <1>0, <2>1, WorkingIsMeeting DEF PassDone, Passes, JobsOf, WorkerHolds
    <3>. QED  BY <3>1 DEF Inv, PassOnce
  <2>. QED  BY <1>0, <2>1 DEF PassDone, WithStatus
<1>6. \/ status' = status
      \/ \E n \in Meetings, secret \in BOOLEAN : CreateMeeting(n, secret)
      \/ \E n \in Meetings : \/ StartMeeting(n) \/ StopMeeting(n)
                             \/ DeleteRow(n) \/ RecoverMeeting(n)
      \/ \E j \in JobId : StartPass(j)
      \/ PassDone
  BY Frame DEF Framed
<1>. QED  BY <1>0, <1>1, <1>2, <1>3, <1>4, <1>5, <1>6, PastKept

\* A session belongs to a meeting that is live or was deleted under it.
LEMMA SessionStep ==
  ASSUME Inv, [Next]_vars, NEW m \in Meetings, session'[m]
  PROVE  status'[m] \in {"live", "deleted"}
<1>0. /\ JobsArePast /\ WorkerHolds /\ TypeOK /\ PowerHolds /\ jobs \in Table
      /\ status \in [Meetings -> MeetingStates] /\ session \in [Meetings -> BOOLEAN]
  BY DEF Inv, TypeOK
<1>1. ASSUME NEW n \in Meetings, StartMeeting(n)
      PROVE  \/ session[m] /\ status'[m] = status[m]
             \/ status'[m] = "live"
  BY <1>0, <1>1 DEF StartMeeting
<1>2. ASSUME ~\E n \in Meetings : StartMeeting(n)
      PROVE  session[m] /\ ~StopMeeting(m) /\ ~StopFails(m)
  <2>1. ASSUME NEW n \in Meetings, StopMeeting(n) \/ StopFails(n)
        PROVE  session[m] /\ n # m
    BY <1>0, <2>1 DEF StopMeeting, StopFails, EndSession
  <2>. QED  BY <1>2, <2>1, Frame DEF Framed, Crash
<1>3. ASSUME session[m], ~StopMeeting(m), ~\E n \in Meetings : StartMeeting(n)
      PROVE  status'[m] \in {status[m], "deleted"}
  <2>0. status[m] \in {"live", "deleted"}
    BY <1>0, <1>3 DEF JobsArePast
  <2>1. ASSUME NEW n \in Meetings, NEW secret \in BOOLEAN, CreateMeeting(n, secret)
        PROVE  status'[m] = status[m]
    BY <1>0, <2>0, <2>1 DEF CreateMeeting
  <2>2. ASSUME NEW n \in Meetings, StopMeeting(n) PROVE status'[m] = status[m]
    BY <1>0, <1>3, <2>2 DEF StopMeeting, WithStatus
  <2>3. ASSUME NEW n \in Meetings, DeleteRow(n)
        PROVE  status'[m] \in {status[m], "deleted"}
    BY <1>0, <2>3 DEF DeleteRow
  <2>4. ASSUME NEW n \in Meetings, RecoverMeeting(n) PROVE FALSE
    BY <1>0, <1>3, <2>4 DEF RecoverMeeting, PowerHolds
  <2>5. ASSUME NEW j \in JobId, StartPass(j) PROVE status'[m] = status[m]
    <3>1. jobs[j].status # "absent"
      BY <2>5, NextJobProperties DEF StartPass, Take
    <3>2. jobs[j].subject \in Meetings /\ jobs[j].subject # m
      BY <1>0, <1>3, <3>1, RowProperties DEF JobsArePast, Meetings
    <3>. QED  BY <1>0, <2>5, <3>2 DEF StartPass, WithStatus
  <2>6. PassDone => status'[m] = status[m]
    <3>1. PassDone => Working \in Meetings /\ Working # m
      BY <1>0, <1>3, WorkingIsMeeting DEF PassDone, JobsArePast
    <3>. QED  BY <1>0, <3>1 DEF PassDone, WithStatus
  <2>7. \/ status' = status
        \/ \E n \in Meetings, secret \in BOOLEAN : CreateMeeting(n, secret)
        \/ \E n \in Meetings : \/ StartMeeting(n) \/ StopMeeting(n)
                               \/ DeleteRow(n) \/ RecoverMeeting(n)
        \/ \E j \in JobId : StartPass(j)
        \/ PassDone
    BY Frame DEF Framed
  <2>. QED  BY <1>3, <2>1, <2>2, <2>3, <2>4, <2>5, <2>6, <2>7
<1>. QED  BY <1>0, <1>1, <1>2, <1>3 DEF JobsArePast

LEMMA PastStep == Inv /\ [Next]_vars => JobsArePast'
<1> SUFFICES ASSUME Inv, [Next]_vars PROVE JobsArePast'
  OBVIOUS
<1>0. /\ TypeOK /\ WorkerHolds /\ JobsArePast /\ RowsKept /\ NewRows
      /\ jobs \in Table /\ handoff \in Meetings \cup {NoMeeting}
  BY JournalStep, JobTypes DEF Inv
<1>1. ASSUME NEW j \in JobId, jobs'[j].status # "absent"
      PROVE  (Recorded(jobs[j].subject) /\ ~session[jobs[j].subject])'
  <2>1. CASE jobs[j].status # "absent"
    <3>1. jobs'[j].subject = jobs[j].subject /\ jobs[j].subject \in Meetings
      BY <1>0, <2>1, RowProperties DEF RowsKept, Meetings
    <3>2. Recorded(jobs[j].subject) /\ ~session[jobs[j].subject]
      BY <1>0, <2>1 DEF JobsArePast
    <3>3. status'[jobs[j].subject] \notin {"unborn", "created", "live"}
          /\ ~session'[jobs[j].subject]
      BY <3>1, <3>2, PastKept DEF Recorded
    <3>. QED  BY <3>1, <3>3 DEF Recorded
  <2>2. CASE jobs[j].status = "absent"
    <3>1. \/ handoff # NoMeeting /\ jobs'[j].subject = handoff
          \/ worker.pc = "announcing" /\ jobs'[j].subject = Working
      BY <1>0, <1>1, <2>2 DEF NewRows, EnqueuePass, EnqueueIndex
    <3>2. PICK m \in Meetings : /\ jobs'[j].subject = m
                                /\ Recorded(m) /\ ~session[m]
      BY <1>0, <3>1, WorkingIsMeeting DEF JobsArePast, Recorded
    <3>3. status'[m] \notin {"unborn", "created", "live"} /\ ~session'[m]
      BY <3>2, PastKept DEF Recorded
    <3>. QED  BY <3>2, <3>3 DEF Recorded
  <2>. QED  BY <2>1, <2>2
<1>2. handoff' # NoMeeting =>
        status'[handoff'] \in {"processing", "deleted"} /\ ~session'[handoff']
  BY HandoffStep, HandoffKept
<1>. QED  BY <1>1, <1>2, SessionStep DEF JobsArePast

-----------------------------------------------------------------------------
\* One pass per meeting.

\* A pass that is in the journal now was there before, or is the one of the
\* meeting handed over.
LEMMA PassesStep ==
  ASSUME Inv, [Next]_vars, NEW m, NEW i \in Passes(m)'
  PROVE  \/ i \in Passes(m)
         \/ jobs[i].status = "absent" /\ EnqueuePass /\ m = handoff
<1> USE DEF Passes, JobsOf
<1>1. i \in JobId /\ jobs'[i].status # "absent"
      /\ jobs'[i].kind = "quality_pass" /\ jobs'[i].subject = m
  OBVIOUS
<1>2. RowsKept /\ NewRows
  BY JournalStep DEF Inv
<1>3. CASE jobs[i].status # "absent"
  BY <1>1, <1>2, <1>3 DEF RowsKept
<1>4. CASE jobs[i].status = "absent"
  BY <1>1, <1>2, <1>4 DEF NewRows
<1>. QED  BY <1>3, <1>4

LEMMA PassStep == Inv /\ [Next]_vars => PassOnce'
<1> SUFFICES ASSUME Inv, [Next]_vars PROVE PassOnce'
  OBVIOUS
<1>0. JobsArePast /\ PassOnce /\ RowsKept /\ NewRows
  BY JournalStep DEF Inv
<1>1. ASSUME NEW m \in Meetings, NEW i \in Passes(m)', NEW j \in Passes(m)'
      PROVE  i = j
  <2>1. CASE i \in Passes(m) /\ j \in Passes(m)
    BY <1>0, <2>1 DEF PassOnce
  <2>2. CASE EnqueuePass /\ m = handoff
    <3>1. Passes(m) = {}
      BY <1>0, <2>2 DEF PassOnce, EnqueuePass
    <3>2. /\ jobs[i].status = "absent" /\ jobs'[i].status # "absent" /\ i \in JobId
          /\ jobs[j].status = "absent" /\ jobs'[j].status # "absent" /\ j \in JobId
      BY <3>1, PassesStep DEF Passes, JobsOf
    <3>. QED  BY <1>0, <3>2 DEF NewRows
  <2>. QED  BY <2>1, <2>2, PassesStep
<1>2. ASSUME handoff' # NoMeeting, NEW i \in Passes(handoff)' PROVE FALSE
  <2>1. ~EnqueuePass
    BY <1>2 DEF EnqueuePass
  <2>2. i \in Passes(handoff')
    BY <1>2, <2>1, PassesStep
  <2>3. CASE handoff' = handoff
    BY <1>0, <1>2, <2>2, <2>3 DEF PassOnce
  <2>4. CASE handoff' # handoff
    <3>1. ~Recorded(handoff') \/ session[handoff']
      BY <1>2, <2>4, HandoffStep
    <3>2. i \in JobId /\ jobs[i].status # "absent" /\ jobs[i].subject = handoff'
      BY <2>2 DEF Passes, JobsOf
    <3>. QED  BY <1>0, <3>1, <3>2 DEF JobsArePast
  <2>. QED  BY <2>3, <2>4
<1>. QED  BY <1>1, <1>2 DEF PassOnce

-----------------------------------------------------------------------------
\* What a step does to a meeting's row, and which step it is.

StatusMoves(m) ==
  \/ /\ \E secret \in BOOLEAN : CreateMeeting(m, secret)
     /\ status[m] = "unborn" /\ status'[m] = "created"
  \/ StartMeeting(m) /\ status[m] = "created" /\ status'[m] = "live"
  \/ StopMeeting(m) /\ status[m] = "live" /\ status'[m] = "processing"
  \/ DeleteRow(m) /\ Exists(m) /\ status'[m] = "deleted"
  \/ /\ \E j \in JobId : StartPass(j) /\ jobs[j].subject = m
     /\ Audible(m) = {}
     /\ worker'.pc = "raising"
     /\ status[m] \in {"processing", "done"} /\ status'[m] = "failed"
  \/ /\ PassDone /\ m = Working
     /\ status[m] = "processing" /\ status'[m] = "done"
  \/ /\ RecoverMeeting(m) /\ status[m] = "live"
     /\ status'[m] = (IF Audible(m) = {} THEN "failed" ELSE "processing")

LEMMA StatusStep ==
  ASSUME Inv, [Next]_vars, NEW m \in Meetings, status'[m] # status[m]
  PROVE  StatusMoves(m)
<1>0. /\ TypeOK /\ JobsArePast /\ WorkerHolds /\ PassCounts /\ DeletesExisting
      /\ status \in [Meetings -> MeetingStates] /\ jobs \in Table
  BY DEF Inv, TypeOK
<1>1. ASSUME NEW n \in Meetings, NEW secret \in BOOLEAN, CreateMeeting(n, secret)
      PROVE  StatusMoves(m)
  <2>1. n = m /\ status[m] = "unborn" /\ status'[m] = "created"
    BY <1>0, <1>1 DEF CreateMeeting
  <2>. QED  BY <1>1, <2>1 DEF StatusMoves
<1>2. ASSUME NEW n \in Meetings, StartMeeting(n) PROVE StatusMoves(m)
  <2>1. n = m /\ status[m] = "created" /\ status'[m] = "live"
    BY <1>0, <1>2 DEF StartMeeting, MayStart
  <2>. QED  BY <1>2, <2>1 DEF StatusMoves
<1>3. ASSUME NEW n \in Meetings, StopMeeting(n) PROVE StatusMoves(m)
  <2>1. n = m /\ status[m] \in {"live", "deleted"} /\ Exists(m)
        /\ status'[m] = "processing"
    BY <1>0, <1>3 DEF StopMeeting, EndSession, WithStatus, JobsArePast
  <2>. QED  BY <1>3, <2>1 DEF StatusMoves, Exists
<1>4. ASSUME NEW n \in Meetings, DeleteRow(n) PROVE StatusMoves(m)
  <2>1. n = m /\ Exists(m) /\ status'[m] = "deleted"
    BY <1>0, <1>4 DEF DeleteRow, DeletesExisting
  <2>. QED  BY <1>4, <2>1 DEF StatusMoves
<1>5. ASSUME NEW j \in JobId, StartPass(j) PROVE StatusMoves(m)
  <2>1. jobs[j].status # "absent"
    BY <1>5, NextJobProperties DEF StartPass, Take
  <2>2. jobs[j].subject \in Meetings /\ Recorded(jobs[j].subject)
    BY <1>0, <2>1, RowProperties DEF JobsArePast, Meetings
  <2>3. /\ status' = WithStatus(jobs[j].subject, "failed")
        /\ Audible(jobs[j].subject) = {} /\ worker' = At("raising", j)
    BY <1>5 DEF StartPass
  <2>4. jobs[j].subject = m /\ Exists(m) /\ status'[m] = "failed"
    BY <1>0, <2>2, <2>3 DEF WithStatus
  <2>5. status[m] \in {"processing", "done"}
    BY <1>0, <2>2, <2>4 DEF Recorded, Exists, MeetingStates
  <2>. QED  BY <1>5, <2>3, <2>4, <2>5 DEF StatusMoves, At
<1>6. CASE PassDone
  <2>1. Working \in Meetings /\ status[Working] \in {"processing", "done", "deleted"}
    BY <1>0, <1>6, WorkingIsMeeting DEF PassDone, PassCounts
  <2>2. m = Working /\ status[m] = "processing" /\ status'[m] = "done"
    BY <1>0, <1>6, <2>1 DEF PassDone, WithStatus, Exists
  <2>. QED  BY <1>6, <2>2 DEF StatusMoves
<1>7. ASSUME NEW n \in Meetings, RecoverMeeting(n) PROVE StatusMoves(m)
  <2>1. n = m /\ status[m] = "live"
        /\ status'[m] = (IF Audible(m) = {} THEN "failed" ELSE "processing")
    BY <1>0, <1>7 DEF RecoverMeeting
  <2>. QED  BY <1>7, <2>1 DEF StatusMoves
<1>8. \/ status' = status
      \/ \E n \in Meetings, secret \in BOOLEAN : CreateMeeting(n, secret)
      \/ \E n \in Meetings : \/ StartMeeting(n) \/ StopMeeting(n) \/ DeleteRow(n)
                             \/ RecoverMeeting(n)
      \/ \E j \in JobId : StartPass(j)
      \/ PassDone
  BY Frame DEF Framed
<1>. QED  BY <1>1, <1>2, <1>3, <1>4, <1>5, <1>6, <1>7, <1>8

-----------------------------------------------------------------------------
\* What a step does to the recording of a mic, to its row and to its writers.

LEMMA AudioStep ==
  ASSUME TypeOK, [Next]_vars, NEW m \in Meetings, NEW k \in Mics
  PROVE  /\ late[m] \subseteq late'[m]
         /\ \/ audio'[m][k] \in {0, audio[m][k]} /\ recorded'[m][k] = recorded[m][k]
            \/ /\ Feed(m, k) \/ (StrayWrites(m, k) /\ k \in late'[m])
               /\ audio'[m][k] = audio[m][k] + 1 /\ recorded'[m][k] = audio'[m][k]
<1> DEFINE Goal ==
     /\ late[m] \subseteq late'[m]
     /\ \/ audio'[m][k] \in {0, audio[m][k]} /\ recorded'[m][k] = recorded[m][k]
        \/ /\ Feed(m, k) \/ (StrayWrites(m, k) /\ k \in late'[m])
           /\ audio'[m][k] = audio[m][k] + 1 /\ recorded'[m][k] = audio'[m][k]
<1>0. /\ audio \in [Meetings -> [Mics -> 0 .. MaxAudio]]
      /\ recorded \in [Meetings -> [Mics -> 0 .. MaxAudio]]
      /\ late \in [Meetings -> SUBSET Mics]
  BY DEF TypeOK
<1>1. ASSUME NEW n \in Meetings, NEW i \in Mics,
             audio' = [audio EXCEPT ![n][i] = @ + 1],
             recorded' = [recorded EXCEPT ![n][i] = audio[n][i] + 1]
      PROVE  IF n = m /\ i = k
             THEN audio'[m][k] = audio[m][k] + 1 /\ recorded'[m][k] = audio'[m][k]
             ELSE audio'[m][k] = audio[m][k] /\ recorded'[m][k] = recorded[m][k]
  BY <1>0, <1>1
<1>2. ASSUME NEW n \in Meetings, NEW i \in Mics, Feed(n, i) PROVE Goal
  <2>1. late' = late
    BY <1>2 DEF Feed
  <2>. QED  BY <1>1, <1>2, <2>1 DEF Feed
<1>3. ASSUME NEW n \in Meetings, NEW i \in Mics, StrayWrites(n, i) PROVE Goal
  <2>1. late[m] \subseteq late'[m] /\ (n = m => i \in late'[m])
    BY <1>0, <1>3 DEF StrayWrites
  <2>. QED  BY <1>1, <1>3, <2>1 DEF StrayWrites
<1>4. ASSUME NEW n \in Meetings, NEW ks, Unlink(n, ks) PROVE Goal
  BY <1>0, <1>4 DEF Unlink
<1>5. CASE audio' = audio /\ recorded' = recorded /\ late' = late
  BY <1>5
<1>6. \/ audio' = audio /\ recorded' = recorded /\ late' = late
      \/ \E n \in Meetings : DeleteDefault(n)
      \/ \E n \in Meetings, i \in Mics : Feed(n, i) \/ StrayWrites(n, i) \/ DeleteFile(n, i)
  BY Frame DEF Framed
<1>. QED  BY <1>2, <1>3, <1>4, <1>5, <1>6 DEF DeleteDefault, DeleteFile

LEMMA MicStep ==
  ASSUME TypeOK, [Next]_vars, NEW m \in Meetings, NEW k \in Mics
  PROVE  /\ mic[m][k] = "removed" => mic'[m][k] = "removed"
         /\ Named(m, k) => Named(m, k)'
         /\ mic'[m][k] = "named" => mic[m][k] = "named" \/ session[m]
<1> DEFINE Goal ==
     /\ mic[m][k] = "removed" => mic'[m][k] = "removed"
     /\ Named(m, k) => Named(m, k)'
     /\ mic'[m][k] = "named" => mic[m][k] = "named" \/ session[m]
<1> USE DEF Named
<1>0. mic \in [Meetings -> [Mics -> {"unborn", "silent", "named", "removed"}]]
  BY DEF TypeOK
<1>1. ASSUME NEW n \in Meetings, NEW i \in Mics, mic[n][i] = "unborn",
             mic' = [mic EXCEPT ![n][i] = "silent"]
      PROVE  Goal
  BY <1>0, <1>1
<1>2. ASSUME NEW n \in Meetings, StartMeeting(n) PROVE Goal
  BY <1>1, <1>2 DEF StartMeeting, HasMic
<1>3. ASSUME NEW n \in Meetings, NEW i \in Mics, AddMic(n, i) PROVE Goal
  BY <1>1, <1>3 DEF AddMic
<1>4. ASSUME NEW n \in Meetings, NEW i \in Mics, RemoveRow(n, i) PROVE Goal
  BY <1>0, <1>4 DEF RemoveRow
<1>5. ASSUME NEW n \in Meetings, NEW i \in Mics, Feed(n, i) \/ FeedFails(n, i) PROVE Goal
  <2>1. session[n] /\ Opened(n, i)
    BY <1>5 DEF Feed, FeedFails
  <2>. QED  BY <1>0, <2>1 DEF Opened, Present
<1>6. ASSUME NEW n \in Meetings, DeleteRow(n) PROVE Goal
  BY <1>0, <1>6 DEF DeleteRow
<1>7. \/ mic' = mic
      \/ \E n \in Meetings : StartMeeting(n) \/ DeleteRow(n)
      \/ \E n \in Meetings, i \in Mics : \/ AddMic(n, i) \/ RemoveRow(n, i)
                                         \/ Feed(n, i) \/ FeedFails(n, i)
  BY Frame DEF Framed
<1>. QED  BY <1>2, <1>3, <1>4, <1>5, <1>6, <1>7

LEMMA WriterStep ==
  ASSUME TypeOK, [Next]_vars, NEW m \in Meetings, NEW k \in Mics,
         writer'[m][k] # "none"
  PROVE  writer[m][k] # "none" \/ Opened(m, k)
<1>0. writer \in [Meetings -> [Mics -> {"none", "open", "unlinked"}]]
  BY DEF TypeOK
<1>1. ASSUME NEW n \in Meetings, NEW i \in Mics, Opened(n, i)
      PROVE  writer[m][k] # "none" \/ Opened(m, k)
  BY <1>0, <1>1 DEF Opened
<1>2. ASSUME NEW n \in Meetings, NEW ks, Unlink(n, ks)
      PROVE  writer[m][k] # "none"
  BY <1>0, <1>2 DEF Unlink
<1>3. ASSUME NEW n \in Meetings, EndSession(n) PROVE writer[m][k] # "none"
  BY <1>0, <1>3 DEF EndSession
<1>4. \/ writer' = writer
      \/ \E n \in Meetings : \/ StopMeeting(n) \/ StopFails(n) \/ DeleteDefault(n)
      \/ \E n \in Meetings, i \in Mics : Feed(n, i) \/ FeedFails(n, i) \/ DeleteFile(n, i)
      \/ Crash
  BY Frame DEF Framed
<1>5. ASSUME NEW n \in Meetings, NEW i \in Mics, Feed(n, i) \/ FeedFails(n, i)
      PROVE  Opened(n, i)
  BY <1>5 DEF Feed, FeedFails
<1>6. ~Crash
  BY DEF Crash
<1>. QED
  BY <1>1, <1>2, <1>3, <1>4, <1>5, <1>6
     DEF StopMeeting, StopFails, DeleteDefault, DeleteFile

LEMMA StrayStep ==
  ASSUME TypeOK, [Next]_vars, NEW m \in Meetings, NEW k \in stray'[m]
  PROVE  k \in stray[m] \/ (StopFails(m) /\ k \in Mics /\ writer[m][k] = "open")
<1>0. stray \in [Meetings -> SUBSET Mics]
  BY DEF TypeOK
<1>1. ASSUME NEW n \in Meetings, StopFails(n)
      PROVE  k \in stray[m] \/ (StopFails(m) /\ k \in Mics /\ writer[m][k] = "open")
  <2>1. PICK others : /\ \A i \in others : i \in Mics /\ writer[n][i] = "open"
                      /\ stray' = [stray EXCEPT ![n] = @ \cup others]
    BY <1>1 DEF StopFails
  <2>. QED  BY <1>0, <1>1, <2>1
<1>2. ASSUME NEW n \in Meetings, NEW ks, stray' = [stray EXCEPT ![n] = @ \ ks]
      PROVE  k \in stray[m]
  BY <1>0, <1>2
<1>3. ~Crash
  BY DEF Crash
<1>4. \/ stray' = stray
      \/ \E n \in Meetings : StopFails(n) \/ DeleteDefault(n)
      \/ \E n \in Meetings, i \in Mics : StrayWrites(n, i) \/ DeleteFile(n, i)
      \/ Crash
  BY Frame DEF Framed
<1>5. ASSUME NEW n \in Meetings, NEW i \in Mics, StrayWrites(n, i)
      PROVE  stray' = [stray EXCEPT ![n] = @ \ {i}]
  BY <1>5 DEF StrayWrites
<1>6. ASSUME NEW n \in Meetings, DeleteDefault(n) \/ (\E i \in Mics : DeleteFile(n, i))
      PROVE  \E ks : stray' = [stray EXCEPT ![n] = @ \ ks]
  BY <1>6 DEF DeleteDefault, DeleteFile, Unlink
<1>. QED  BY <1>1, <1>2, <1>3, <1>4, <1>5, <1>6

LEMMA NamesStep == Inv /\ [Next]_vars => RowsName'
<1> SUFFICES ASSUME Inv, [Next]_vars, NEW m \in Meetings, NEW k \in Mics
             PROVE  /\ audio'[m][k] \in {0, recorded'[m][k]}
                    /\ audio'[m][k] > 0 \/ writer'[m][k] # "none" \/ k \in stray'[m]
                         => Named(m, k)'
  BY DEF RowsName
<1>0. /\ TypeOK /\ audio[m][k] \in 0 .. MaxAudio /\ audio[m][k] \in {0, recorded[m][k]}
      /\ audio[m][k] > 0 \/ writer[m][k] # "none" \/ k \in stray[m] => Named(m, k)
  BY DEF Inv, RowsName, TypeOK
<1>1. audio'[m][k] \in {0, recorded'[m][k]}
  BY <1>0, AudioStep
<1>2. Opened(m, k) => Named(m, k)'
  <2>1. mic \in [Meetings -> [Mics -> {"unborn", "silent", "named", "removed"}]]
    BY <1>0 DEF TypeOK
  <2>. QED  BY <1>0, <2>1, MicStep DEF Opened, Named
<1>3. audio'[m][k] > 0 => audio[m][k] > 0 \/ Opened(m, k) \/ k \in stray[m]
  BY <1>0, AudioStep DEF Feed, StrayWrites
<1>. QED  BY <1>0, <1>1, <1>2, <1>3, MicStep, WriterStep, StrayStep

LEMMA DeletesStep == Inv /\ [Next]_vars => DeletesExisting'
<1> SUFFICES ASSUME Inv, [Next]_vars, NEW m \in Meetings, deleting'[m].at # "no"
             PROVE  Exists(m)'
  BY DEF DeletesExisting
<1>0. /\ DeletesExisting /\ deleting \in [Meetings -> Deletions]
  BY DEF Inv, TypeOK
<1>1. ~DeleteRow(m)
  BY <1>0 DEF DeleteRow, Undisturbed
<1>2. Exists(m) => Exists(m)'
  BY <1>1, StatusStep DEF StatusMoves, Exists
<1>3. deleting[m].at # "no" \/ DeleteReads(m)
  <2>1. ASSUME NEW n \in Meetings, DeleteReads(n)
        PROVE  deleting[m].at # "no" \/ DeleteReads(m)
    BY <1>0, <2>1 DEF DeleteReads
  <2>2. ASSUME NEW n \in Meetings, Deletes(n)
        PROVE  deleting[m].at # "no"
    <3>1. deleting[n].at # "no"
      BY <2>2 DEF Deletes, DeleteChecks, DeleteIndex, DeleteDefault, DeleteFile,
                  DeleteRefused, DeleteRow
    <3>2. n # m => deleting'[m] = deleting[m]
      <4>1. CASE DeleteChecks(n) \/ DeleteIndex(n)
        BY <1>0, <4>1 DEF DeleteChecks, DeleteIndex
      <4>2. CASE DeleteDefault(n)
        BY <1>0, <4>2 DEF DeleteDefault
      <4>3. CASE \E k \in Mics : DeleteFile(n, k)
        BY <1>0, <4>3 DEF DeleteFile
      <4>4. CASE DeleteRefused(n) \/ DeleteRow(n)
        BY <1>0, <4>4 DEF DeleteRefused, DeleteRow
      <4>. QED  BY <2>2, <4>1, <4>2, <4>3, <4>4 DEF Deletes
    <3>. QED  BY <3>1, <3>2
  <2>3. Crash => deleting'[m].at = "no"
    BY DEF Crash, Undisturbed
  <2>4. \/ deleting' = deleting
        \/ \E n \in Meetings : DeleteReads(n) \/ Deletes(n)
        \/ Crash
    BY Frame DEF Framed
  <2>. QED  BY <2>1, <2>2, <2>3, <2>4
<1>. QED  BY <1>0, <1>2, <1>3 DEF DeletesExisting, DeleteReads

-----------------------------------------------------------------------------
\* Sessions, failures, transcripts, jobs and the row.

LEMMA LiveStep == Inv /\ [Next]_vars => LiveRowHasSession'
<1> SUFFICES ASSUME Inv, [Next]_vars, power' = "up", NEW m \in Meetings,
                    status'[m] = "live"
             PROVE  session'[m] \/ m \in unstopped'
  BY DEF LiveRowHasSession
<1>0. /\ LiveRowHasSession /\ session \in [Meetings -> BOOLEAN]
      /\ status \in [Meetings -> MeetingStates]
  BY DEF Inv, TypeOK
<1>1. CASE status[m] # "live"
  <2>1. StartMeeting(m)
    BY <1>1, StatusStep DEF StatusMoves
  <2>. QED  BY <1>0, <2>1 DEF StartMeeting
<1>2. CASE status[m] = "live" /\ power = "up"
  <2>1. session[m] \/ m \in unstopped
    BY <1>0, <1>2 DEF LiveRowHasSession
  <2>2. unstopped \subseteq unstopped'
    BY Frame DEF Framed, StopFails
  <2>3. session[m] => session'[m] \/ StopMeeting(m) \/ StopFails(m)
    <3>1. \/ session' = session
          \/ \E n \in Meetings : StartMeeting(n) \/ StopMeeting(n) \/ StopFails(n)
          \/ Crash
      BY Frame DEF Framed
    <3>2. ASSUME NEW n \in Meetings, StartMeeting(n), session[m] PROVE session'[m]
      BY <1>0, <3>2 DEF StartMeeting
    <3>3. ASSUME NEW n \in Meetings, StopMeeting(n) \/ StopFails(n), n # m
          PROVE  session'[m] = session[m]
      BY <1>0, <3>3 DEF StopMeeting, StopFails, EndSession
    <3>4. ~Crash
      BY DEF Crash
    <3>. QED  BY <3>1, <3>2, <3>3, <3>4
  <2>4. ~StopMeeting(m)
    BY <1>0, <1>2 DEF StopMeeting, WithStatus, Exists
  <2>5. StopFails(m) => m \in unstopped'
    BY DEF StopFails
  <2>. QED  BY <2>1, <2>2, <2>3, <2>4, <2>5
<1>3. CASE power # "up"
  <2>1. Serve
    BY <1>3, Frame DEF Framed, Crash, Boot
  <2>. QED  BY <2>1 DEF Serve, rows
<1>. QED  BY <1>1, <1>2, <1>3

\* A meeting that has failed gets no more recording but from stray writers.
LEMMA FailedStep == Inv /\ [Next]_vars => FailedMeansNothingRecorded'
<1> SUFFICES ASSUME Inv, [Next]_vars, NEW m \in Meetings, status'[m] = "failed",
                    NEW k \in Mics, audio'[m][k] > 0, k \notin late'[m]
             PROVE  mic'[m][k] = "removed"
  BY DEF FailedMeansNothingRecorded
<1>0. /\ TypeOK /\ JobsArePast /\ FailedMeansNothingRecorded /\ RowsName
      /\ audio[m][k] \in 0 .. MaxAudio
  BY DEF Inv, TypeOK
<1>1. CASE status[m] = "failed"
  <2>1. ~session[m]
    BY <1>0, <1>1 DEF JobsArePast
  <2>2. audio[m][k] > 0 /\ k \notin late[m]
    BY <1>0, <2>1, AudioStep DEF Feed
  <2>. QED  BY <1>0, <1>1, <2>2, MicStep DEF FailedMeansNothingRecorded
<1>2. CASE status[m] # "failed"
  <2>1. /\ Audible(m) = {}
        /\ (\E j \in JobId : StartPass(j)) \/ RecoverMeeting(m)
    BY <1>2, StatusStep DEF StatusMoves
  <2>2. audio' = audio /\ mic' = mic
    BY <2>1 DEF StartPass, RecoverMeeting, disk, micRows
  <2>. QED  BY <1>0, <2>1, <2>2 DEF Audible, RowsName, Named
<1>. QED  BY <1>1, <1>2

\* A settled job stays settled.
LEMMA PendingStep ==
  ASSUME Inv, [Next]_vars, NEW j \in JobId, jobs[j].status # "absent", Pending(jobs', j)
  PROVE  Pending(jobs, j)
<1> USE DEF Pending
<1>0. TypeOK /\ WorkerHolds /\ jobs \in Table /\ handoff \in Meetings \cup {NoMeeting}
  BY JobTypes DEF Inv
<1>1. CASE EnqueuePass \/ EnqueueIndex
  <2>1. PICK i \in JobId, k \in Kinds, s \in Subjects :
          IsNextId(jobs, i) /\ jobs' = Inserted(jobs, i, k, s)
    <3>1. "quality_pass" \in Kinds /\ "index_transcript" \in Kinds
      BY DEF Kinds
    <3>2. EnqueuePass => handoff \in Subjects
      BY <1>0 DEF EnqueuePass, Meetings
    <3>3. EnqueueIndex => Working \in Subjects
      BY <1>0, WorkingIsMeeting DEF EnqueueIndex, Meetings
    <3>. QED  BY <1>1, <3>1, <3>2, <3>3 DEF EnqueuePass, EnqueueIndex
  <2>. QED  BY <1>0, <2>1, NextIdProperties, InsertedProperties
<1>2. ASSUME NEW i \in JobId, NEW kind, Take(i, kind) PROVE Pending(jobs, j)
  <2>1. jobs[i].status = "queued" /\ "running" \in Statuses
    BY <1>2, NextJobProperties DEF Take, Statuses
  <2>. QED  BY <1>0, <1>2, <2>1, MarkedProperties DEF Take
<1>3. CASE EndJob
  <2>1. /\ worker.job \in JobId /\ jobs[worker.job].status = "running"
        /\ "done" \in Statuses /\ "failed" \in Statuses
    BY <1>0, <1>3, WorkingIsMeeting DEF EndJob, Statuses
  <2>. QED  BY <1>0, <1>3, <2>1, MarkedProperties DEF EndJob
<1>4. CASE Serve
  BY <1>0, <1>4, RequeuedProperties DEF Serve
<1>5. \/ EnqueuePass \/ EnqueueIndex \/ EndJob \/ Serve \/ jobs' = jobs
      \/ \E i \in JobId : StartPass(i) \/ StartIndex(i)
  BY Frame DEF Framed
<1>. QED  BY <1>1, <1>2, <1>3, <1>4, <1>5 DEF StartPass, StartIndex

LEMMA OverStep == Inv /\ [Next]_vars => FailedIsOver'
<1> SUFFICES ASSUME Inv, [Next]_vars, NEW m \in Meetings, status'[m] = "failed",
                    NEW j \in Passes(m)', Pending(jobs', j)
             PROVE  /\ Audible(m)' = {}
                    /\ \/ stray'[m] = {}
                       \/ worker'.pc = "raising" /\ worker'.job \in Passes(m)'
  BY DEF FailedIsOver
<1>0. /\ TypeOK /\ WorkerHolds /\ JobsArePast /\ PassOnce /\ FailedIsOver /\ RowsKept
      /\ jobs \in Table
      /\ j \in JobId /\ jobs'[j].kind = "quality_pass" /\ jobs'[j].subject = m
      /\ stray \in [Meetings -> SUBSET Mics]
      /\ audio \in [Meetings -> [Mics -> 0 .. MaxAudio]]
  BY JournalStep DEF Inv, TypeOK, Passes, JobsOf
<1>1. CASE status[m] # "failed"
  <2>1. CASE RecoverMeeting(m) /\ status[m] = "live"
    <3>1. jobs[j].status # "absent" /\ jobs[j].subject = m
      BY <1>0, <2>1 DEF RecoverMeeting, queue, Passes, JobsOf
    <3>. QED  BY <1>0, <2>1, <3>1 DEF JobsArePast, Recorded
  <2>2. ASSUME NEW i \in JobId, StartPass(i), jobs[i].subject = m, Audible(m) = {},
               worker'.pc = "raising"
        PROVE  Audible(m)' = {} /\ worker'.job \in Passes(m)'
    <3>1. Audible(m)' = {}
      BY <2>2 DEF StartPass, Audible, micRows, disk
    <3>2. /\ worker'.job = i /\ jobs[i].status # "absent"
          /\ jobs[i].kind = "quality_pass"
      BY <2>2, NextJobProperties DEF StartPass, Take, At
    <3>. QED  BY <1>0, <2>2, <3>1, <3>2 DEF RowsKept, Passes, JobsOf
  <2>. QED  BY <1>1, <2>1, <2>2, StatusStep DEF StatusMoves
<1>2. CASE status[m] = "failed"
  <2>1. j \in Passes(m)
    <3>1. ~(EnqueuePass /\ m = handoff)
      BY <1>0, <1>2 DEF EnqueuePass, JobsArePast
    <3>. QED  BY <3>1, PassesStep
  <2>2. Pending(jobs, j) /\ ~session[m]
    BY <1>0, <1>2, <2>1, PendingStep DEF Passes, JobsOf, JobsArePast
  <2>3. /\ Audible(m) = {}
        /\ stray[m] = {} \/ (worker.pc = "raising" /\ worker.job \in Passes(m))
    BY <1>0, <1>2, <2>1, <2>2 DEF FailedIsOver
  <2>4. ASSUME NEW k \in Mics, mic'[m][k] = "named", audio'[m][k] > 0 PROVE FALSE
    <3>1. mic[m][k] = "named" /\ ~Feed(m, k)
      BY <1>0, <2>2, <2>4, MicStep DEF Feed
    <3>2. ~StrayWrites(m, k)
      BY <2>3 DEF StrayWrites, LoopFree
    <3>3. audio[m][k] > 0
      BY <1>0, <2>4, <3>1, <3>2, AudioStep
    <3>. QED  BY <2>3, <3>1, <3>3 DEF Audible
  <2>5. Audible(m)' = {}
    BY <2>4 DEF Audible
  <2>6. \A k \in stray'[m] : k \in stray[m]
    BY <1>0, <2>2, StrayStep DEF StopFails, EndSession
  <2>7. CASE worker.pc = "raising" /\ worker.job \in Passes(m)
    <3>1. CASE EndJob
      <4>1. worker.job = j
        BY <1>0, <2>1, <2>7 DEF PassOnce
      <4>2. jobs[j].status # "absent" /\ "failed" \in Statuses
        BY <2>1 DEF Passes, JobsOf, Statuses
      <4>3. jobs'[j].status = "failed"
        BY <1>0, <2>7, <3>1, <4>1, <4>2, MarkedProperties DEF EndJob
      <4>. QED  BY <4>3 DEF Pending
    <3>2. CASE Crash
      BY <2>5, <3>2 DEF Crash
    <3>3. CASE worker' = worker
      <4>1. worker.job \in Passes(m)'
        BY <1>0, <2>7 DEF RowsKept, Passes, JobsOf
      <4>. QED  BY <2>5, <2>7, <3>3, <4>1
    <3>4. \/ worker' = worker \/ EndJob \/ Crash
      BY <2>7, Frame
         DEF Framed, StartPass, StartIndex, Take, Idle, AsrFails, EmbedFails, StoreChunks,
             AsrEnds, StoreSegment, PassDone, EnqueueIndex
    <3>. QED  BY <3>1, <3>2, <3>3, <3>4
  <2>. QED  BY <2>3, <2>5, <2>6, <2>7
<1>. QED  BY <1>1, <1>2

LEMMA OrphanStep == Inv /\ [Next]_vars => NoOrphanTranscript'
<1> SUFFICES ASSUME Inv, [Next]_vars, NEW m \in Meetings, segments'[m] # Silence
             PROVE  Exists(m)'
  BY DEF NoOrphanTranscript
<1>0. TypeOK /\ WorkerHolds /\ NoOrphanTranscript
  BY DEF Inv
<1>1. ~DeleteRow(m)
  <2>1. segments \in [Meetings -> [Mics -> 0 .. MaxAudio]]
    BY <1>0 DEF TypeOK
  <2>. QED  BY <2>1 DEF DeleteRow
<1>2. Exists(m) => Exists(m)'
  BY <1>1, StatusStep DEF StatusMoves, Exists
<1>3. Exists(m)
  BY <1>0, SegmentsStep DEF NoOrphanTranscript
<1>. QED  BY <1>2, <1>3

LEMMA StuckStep == Inv /\ [Next]_vars => StuckOnlyByCrash'
<1> SUFFICES ASSUME Inv, [Next]_vars, crashes' = 0, NEW m \in Meetings,
                    status'[m] = "processing"
             PROVE  Passes(m)' # {} \/ handoff' = m
  BY DEF StuckOnlyByCrash
<1>0. /\ StuckOnlyByCrash /\ RowsKept /\ jobs \in Table /\ crashes \in 0 .. MaxCrashes
  BY JournalStep, JobTypes DEF Inv, TypeOK
<1>1. crashes = 0 /\ ~Crash
  <2>1. ~Crash
    BY <1>0 DEF Crash
  <2>. QED
    BY <2>1, Frame DEF Framed
<1>2. CASE status[m] # "processing"
  <2>1. \/ StopMeeting(m)
        \/ RecoverMeeting(m) /\ Audible(m) # {}
    BY <1>2, StatusStep DEF StatusMoves
  <2>. QED  BY <2>1 DEF StopMeeting, RecoverMeeting
<1>3. ASSUME Passes(m) # {} PROVE Passes(m)' # {}
  BY <1>0, <1>3 DEF RowsKept, Passes, JobsOf
<1>4. ASSUME handoff = m, handoff' # m PROVE Passes(m)' # {}
  <2>1. EnqueuePass
    BY <1>1, <1>4, Frame DEF Framed, Meetings, StopMeeting, LoopFree, RecoverMeeting
  <2>2. PICK j \in JobId : jobs' = Inserted(jobs, j, "quality_pass", handoff)
    BY <2>1 DEF EnqueuePass
  <2>3. "quality_pass" \in Kinds /\ handoff \in Subjects
    BY <1>4 DEF Kinds, Meetings
  <2>4. j \in Passes(m)'
    BY <1>0, <1>4, <2>2, <2>3, InsertedProperties DEF Passes, JobsOf
  <2>. QED  BY <2>4
<1>. QED  BY <1>0, <1>1, <1>2, <1>3, <1>4 DEF StuckOnlyByCrash

-----------------------------------------------------------------------------
\* The index and the confidentiality of a meeting.

LEMMA IndexStep ==
  Inv /\ [Next]_vars => IndexHolds' /\ ConfidentialNotIndexed'
<1> SUFFICES ASSUME Inv, [Next]_vars
             PROVE  IndexHolds' /\ ConfidentialNotIndexed'
  OBVIOUS
<1>0. /\ TypeOK /\ WorkerHolds /\ JobsArePast /\ IndexHolds /\ ConfidentialNotIndexed
      /\ TypeOK' /\ WorkerHolds' /\ RowsKept
      /\ confidential \in [Meetings -> BOOLEAN] /\ indexed \in [Meetings -> BOOLEAN]
      /\ worker.job \in JobId \cup {NoJob}
      /\ worker = [pc |-> worker.pc, job |-> worker.job, left |-> worker.left]
  BY TypeStep, WorkerStep, JournalStep, JobTypes DEF Inv, TypeOK
\* The sensitivity is settled at creation, and nothing is indexed before.
<1>1. ASSUME NEW m \in Meetings, status[m] # "unborn"
      PROVE  confidential'[m] = confidential[m] /\ status'[m] # "unborn"
  <2>1. \/ confidential' = confidential
        \/ \E n \in Meetings, secret \in BOOLEAN : CreateMeeting(n, secret)
    BY Frame DEF Framed
  <2>2. confidential'[m] = confidential[m]
    BY <1>0, <1>1, <2>1 DEF CreateMeeting
  <2>. QED  BY <1>1, <2>2, StatusStep DEF StatusMoves
<1>2. worker.pc # "idle" => Working \in Meetings /\ status[Working] # "unborn"
  BY <1>0, WorkingIsMeeting DEF JobsArePast, Recorded
\* Only a handler at the embedder indexes.
<1>3. ASSUME NEW m \in Meetings, indexed'[m], ~indexed[m]
      PROVE  m = Working /\ worker.pc = "embedding"
  <2>1. \/ indexed' = indexed
        \/ (\E n \in Meetings : DeleteIndex(n))
        \/ (\E j \in JobId : StartIndex(j))
        \/ StoreChunks
    BY Frame DEF Framed
  <2>. QED  BY <1>0, <1>3, <2>1 DEF DeleteIndex, StartIndex, StoreChunks
<1>4. ASSUME worker'.pc = "embedding" PROVE ~confidential'[Working']
  <2>1. CASE worker.pc = "embedding" /\ worker'.job = worker.job
    BY <1>0, <1>1, <1>2, <2>1, WorkingKept DEF IndexHolds
  <2>2. CASE \E j \in JobId : StartIndex(j)
    <3>1. PICK j \in JobId : StartIndex(j)
      BY <2>2
    <3>2. worker'.job = j /\ jobs[j].status # "absent" /\ j # NoJob
      BY <3>1, NextJobProperties DEF StartIndex, Take, At, JobId, NoJob
    <3>3. Working' = jobs[j].subject
      BY <1>0, <3>2 DEF RowsKept, Working
    <3>4. ~confidential[jobs[j].subject] /\ confidential' = confidential
      BY <1>4, <3>1 DEF StartIndex, At
    <3>. QED  BY <3>3, <3>4
  <2>3. \/ worker' = worker \/ worker'.pc # "embedding"
        \/ \E j \in JobId : StartIndex(j)
    <3>1. ASSUME AsrEnds \/ (\E k \in Mics : StoreSegment(k)) \/ PassDone \/ EnqueueIndex
          PROVE  worker'.pc # "embedding"
      BY <1>0, <3>1 DEF AsrEnds, StoreSegment, PassDone, EnqueueIndex, At
    <3>2. ASSUME NEW j \in JobId, StartPass(j) PROVE worker'.pc # "embedding"
      BY <3>2 DEF StartPass, At
    <3>3. ASSUME AsrFails \/ EmbedFails \/ StoreChunks \/ EndJob \/ Crash
          PROVE  worker'.pc # "embedding"
      BY <3>3 DEF AsrFails, EmbedFails, StoreChunks, EndJob, Crash, At, Idle
    <3>. QED
      BY <3>1, <3>2, <3>3, Frame DEF Framed
  <2>. QED  BY <1>4, <2>1, <2>2, <2>3
<1>5. ASSUME NEW m \in Meetings, status'[m] = "unborn" PROVE ~indexed'[m]
  <2>1. status[m] = "unborn"
    BY <1>1, <1>5
  <2>. QED  BY <1>0, <1>2, <1>3, <2>1 DEF IndexHolds
<1>6. ASSUME NEW m \in Meetings, confidential'[m], indexed'[m] PROVE FALSE
  <2>1. status[m] # "unborn"
    <3>1. status[m] = "unborn" => ~indexed'[m]
      BY <1>0, <1>2, <1>3 DEF IndexHolds
    <3>. QED  BY <1>6, <3>1
  <2>2. confidential[m]
    BY <1>1, <1>6, <2>1
  <2>. QED  BY <1>0, <1>3, <1>6, <2>2 DEF IndexHolds, ConfidentialNotIndexed
<1>. QED  BY <1>4, <1>5, <1>6 DEF IndexHolds, ConfidentialNotIndexed

-----------------------------------------------------------------------------
\* The transcript of a meeting that is done.

\* Counted after the step, of a meeting and a number from before it.
CountedThen(m, k, n) ==
  \/ n = recorded'[m][k]
  \/ n = 0 /\ (mic'[m][k] = "removed" \/ audio'[m][k] # recorded'[m][k])
  \/ k \in late'[m]

\* What is counted of a mic stays counted when the recording is over.
LEMMA CountedKept ==
  ASSUME Inv, [Next]_vars, NEW m \in Meetings, NEW k \in Mics, ~session[m],
         NEW n, Counted(m, k, n)
  PROVE  CountedThen(m, k, n)
<1>0. /\ TypeOK /\ audio[m][k] \in {0, recorded[m][k]}
      /\ audio[m][k] \in Nat
  BY DEF Inv, TypeOK, RowsName
<1>1. ~Feed(m, k)
  BY DEF Feed
<1>2. /\ mic[m][k] = "removed" => mic'[m][k] = "removed"
      /\ late[m] \subseteq late'[m]
      /\ \/ audio'[m][k] \in {0, audio[m][k]} /\ recorded'[m][k] = recorded[m][k]
         \/ k \in late'[m]
  BY <1>0, <1>1, AudioStep, MicStep
<1>. QED  BY <1>0, <1>2 DEF Counted, CountedThen

\* The meeting of a working handler, and what is counted of it.
LEMMA WorkingCounts ==
  ASSUME Inv, [Next]_vars, worker.pc # "idle"
  PROVE  /\ Working \in Meetings /\ worker.job \in JobId
         /\ Recorded(Working) /\ ~session[Working]
         /\ \A k \in Mics : segments[Working][k] \in Nat /\ worker.left[k] \in Nat
         /\ worker = [pc |-> worker.pc, job |-> worker.job, left |-> worker.left]
<1>0. /\ TypeOK /\ WorkerHolds /\ JobsArePast
      /\ segments \in [Meetings -> [Mics -> 0 .. MaxAudio]]
      /\ worker.left \in [Mics -> 0 .. MaxAudio]
      /\ worker = [pc |-> worker.pc, job |-> worker.job, left |-> worker.left]
  BY JobTypes DEF Inv, TypeOK
<1>1. /\ Working \in Meetings /\ worker.job \in JobId
      /\ Recorded(Working) /\ ~session[Working]
  BY <1>0, WorkingIsMeeting DEF JobsArePast
<1>. QED  BY <1>0, <1>1 DEF Idle

LEMMA CountStep == Inv /\ [Next]_vars => PassCounts'
<1> SUFFICES ASSUME Inv, [Next]_vars PROVE PassCounts'
  OBVIOUS
<1>0. TypeOK /\ WorkerHolds /\ JobsArePast /\ PassCounts /\ TypeOK' /\ RowsKept
      /\ jobs \in Table /\ RowsName /\ FailedIsOver
      /\ status \in [Meetings -> MeetingStates]
      /\ segments \in [Meetings -> [Mics -> 0 .. MaxAudio]]
  BY TypeStep, JournalStep DEF Inv, TypeOK
\* The handler waits while others act: at worst the meeting is deleted.
<1>1. ASSUME worker' = worker PROVE PassCounts'
  <2>1. CASE worker.pc = "idle"
    BY <1>1, <2>1 DEF PassCounts
  <2>2. CASE worker.pc # "idle"
    <3>1. /\ Working' = Working
          /\ jobs'[worker'.job].kind = jobs[worker.job].kind
      BY <1>0, <1>1, <2>2, WorkingKept
    <3>2. ~AsrEnds /\ (\A k \in Mics : ~StoreSegment(k)) /\ ~PassDone
      <4>1. ~AsrEnds /\ ~PassDone
        BY <1>1, WorkingCounts, <2>2 DEF AsrEnds, PassDone
      <4>2. ASSUME NEW k \in Mics, StoreSegment(k) PROVE FALSE
        BY <1>0, <1>1, <2>2, <4>2, WorkingCounts, JobTypes DEF StoreSegment, At
      <4>. QED  BY <4>1, <4>2
    <3>3. \A j \in JobId : ~StartPass(j)
      BY <2>2 DEF StartPass, Take, Idle
    <3>4. \/ /\ status'[Working] = status[Working]
             /\ segments'[Working] = segments[Working]
          \/ status'[Working] = "deleted"
      <4>1. status'[Working] \in {status[Working], "deleted"}
        BY <2>2, <3>2, <3>3, WorkingCounts, StatusStep DEF StatusMoves, Recorded
      <4>2. DeleteRow(Working) => status'[Working] = "deleted"
        BY <1>0, <2>2, WorkingCounts DEF DeleteRow
      <4>. QED  BY <1>0, <2>2, <3>2, <4>1, <4>2, SegmentsStep, WorkingCounts
    <3>5. ASSUME NEW k \in Mics, NEW n, Counted(Working, k, n)
          PROVE  CountedThen(Working, k, n)
      BY <2>2, <3>5, WorkingCounts, CountedKept
    <3>6. worker.pc = "transcribing" =>
            \A k \in Mics : CountedThen(Working, k, worker.left[k])
      BY <1>0, <3>5 DEF PassCounts
    <3>7. ASSUME status'[Working] # "deleted"
          PROVE  /\ segments'[Working] = segments[Working]
                 /\ worker.pc = "storing" => \A k \in Mics :
                      CountedThen(Working, k, segments[Working][k] + worker.left[k])
                 /\ (/\ worker.pc \in {"announcing", "closing"}
                     /\ status'[Working] = "done"
                     /\ jobs[worker.job].kind = "quality_pass") =>
                      \A k \in Mics : CountedThen(Working, k, segments[Working][k])
      <4>1. /\ status'[Working] = status[Working]
            /\ segments'[Working] = segments[Working]
        BY <3>4, <3>7
      <4>2. worker.pc = "storing" => Exists(Working)
        BY <1>0, <3>7, <4>1 DEF PassCounts, Exists
      <4>. QED  BY <1>0, <3>5, <4>1, <4>2 DEF PassCounts
    <3>8. worker.pc \in {"transcribing", "storing"} =>
            status'[Working] \in {"processing", "done", "deleted"}
      BY <1>0, <3>4 DEF PassCounts
    <3>. QED
      BY <1>1, <3>1, <3>6, <3>7, <3>8 DEF PassCounts, Exists, Counted, CountedThen
  <2>. QED  BY <2>1, <2>2
<1>2. ASSUME worker'.pc \in {"idle", "embedding", "raising"} PROVE PassCounts'
  BY <1>2 DEF PassCounts
<1>3. ASSUME worker'.pc = "closing", jobs'[worker'.job].kind = "index_transcript"
      PROVE  PassCounts'
  BY <1>3 DEF PassCounts
<1>4. ASSUME NEW j \in JobId, StartPass(j) PROVE PassCounts'
  <2>1. /\ jobs[j].status # "absent" /\ j # NoJob /\ Pending(jobs, j)
        /\ jobs[j].kind = "quality_pass"
    BY <1>4, NextJobProperties DEF StartPass, Take, JobId, NoJob, Pending
  <2>2. /\ jobs[j].subject \in Meetings /\ Recorded(jobs[j].subject)
        /\ jobs'[j].subject = jobs[j].subject
    BY <1>0, <2>1, RowProperties DEF JobsArePast, RowsKept, Meetings
  <2> DEFINE m == jobs[j].subject
  <2>3. CASE ~Exists(m) /\ worker' = At("closing", j) /\ status' = status
    <3>1. Working' = m /\ status'[m] = "deleted" /\ worker'.pc = "closing"
      BY <2>1, <2>2, <2>3 DEF Working, At, Exists, Recorded
    <3>. QED  BY <3>1 DEF PassCounts
  <2>4. CASE worker' = At("raising", j)
    BY <1>2, <2>4 DEF At
  <2>5. CASE /\ Exists(m) /\ Audible(m) # {} /\ status' = status
             /\ worker' = [At("transcribing", j) EXCEPT !.left =
                             [k \in Mics |-> IF k \in Audible(m) THEN audio[m][k] ELSE 0]]
    <3>1. /\ worker'.pc = "transcribing" /\ worker'.job = j
          /\ worker'.left = [k \in Mics |-> IF k \in Audible(m) THEN audio[m][k] ELSE 0]
      BY <2>5 DEF At
    <3>2. Working' = m
      BY <2>1, <2>2, <3>1 DEF Working
    <3>3. audio' = audio /\ recorded' = recorded /\ mic' = mic
      BY <1>4 DEF StartPass, disk, micRows
    <3>4. ASSUME NEW k \in Mics PROVE Counted(m, k, worker.left[k])'
      <4>1. /\ audio[m][k] \in 0 .. MaxAudio /\ audio[m][k] \in {0, recorded[m][k]}
            /\ audio[m][k] > 0 => mic[m][k] \in {"named", "removed"}
        BY <1>0, <2>2 DEF TypeOK, RowsName, Named
      <4>. QED  BY <2>2, <3>1, <3>3, <4>1 DEF Counted, Audible
    <3>5. status'[m] \in {"processing", "done", "deleted"}
      <4>1. j \in Passes(m)
        BY <2>1, <2>2 DEF Passes, JobsOf
      <4>2. status[m] # "failed"
        BY <1>0, <2>1, <2>2, <2>5, <4>1 DEF FailedIsOver
      <4>. QED  BY <1>0, <2>2, <2>5, <4>2 DEF Recorded, MeetingStates
    <3>6. \A k \in Mics : Counted(Working, k, worker.left[k])'
      BY <2>2, <3>2, <3>4 DEF Counted
    <3>. QED  BY <3>1, <3>2, <3>5, <3>6 DEF PassCounts
  <2>. QED  BY <1>4, <2>3, <2>4, <2>5 DEF StartPass
<1>5. ASSUME NEW j \in JobId, StartIndex(j) PROVE PassCounts'
  <2>1. /\ worker'.job = j /\ worker'.pc \in {"embedding", "closing"}
        /\ jobs[j].kind = "index_transcript" /\ jobs[j].status # "absent"
    BY <1>5, NextJobProperties DEF StartIndex, Take, At
  <2>2. jobs'[worker'.job].kind = "index_transcript"
    BY <1>0, <2>1 DEF RowsKept
  <2>. QED  BY <1>2, <1>3, <2>1, <2>2
<1>6. CASE AsrFails \/ EmbedFails \/ EndJob \/ Crash
  BY <1>2, <1>6 DEF AsrFails, EmbedFails, EndJob, Crash, At, Idle
<1>7. CASE StoreChunks
  BY <1>0, <1>3, <1>7 DEF StoreChunks, At, WorkerHolds
\* The handler goes on with what it has counted.
<1>8. CASE AsrEnds
  <2>1. /\ worker.pc = "transcribing" /\ worker'.pc = "storing"
        /\ worker'.job = worker.job /\ worker'.left = worker.left
        /\ status' = status
    BY <1>8, WorkingCounts DEF AsrEnds, rows
  <2>2. Working' = Working /\ segments'[Working] = Silence
    BY <1>0, <1>8, <2>1, WorkingKept, WorkingCounts DEF AsrEnds
  <2>3. ASSUME NEW k \in Mics
        PROVE  Counted(Working, k, segments[Working][k] + worker.left[k])'
    <3>1. Counted(Working, k, worker.left[k])
      BY <1>0, <2>1 DEF PassCounts
    <3>2. worker.left[k] \in Nat /\ segments'[Working'][k] + worker'.left[k] = worker.left[k]
      BY <2>1, <2>2, WorkingCounts DEF Silence
    <3>. QED  BY <2>1, <2>2, <3>1, <3>2, WorkingCounts, CountedKept DEF Counted, CountedThen
  <2>. QED  BY <1>0, <2>1, <2>2, <2>3 DEF PassCounts
<1>9. ASSUME NEW i \in Mics, StoreSegment(i) PROVE PassCounts'
  <2>1. CASE ~Exists(Working)
    BY <1>2, <1>9, <2>1 DEF StoreSegment, At
  <2>2. CASE Exists(Working)
    <3>1. /\ worker.pc = "storing" /\ worker'.pc = "storing"
          /\ worker'.job = worker.job
          /\ worker'.left = [worker.left EXCEPT ![i] = @ - 1]
          /\ status' = status
      BY <1>9, <2>2, WorkingCounts DEF StoreSegment
    <3>2. /\ Working' = Working
          /\ segments'[Working] = [segments[Working] EXCEPT ![i] = @ + 1]
      BY <1>0, <1>9, <2>2, <3>1, WorkingKept, WorkingCounts DEF StoreSegment
    <3>3. ASSUME NEW k \in Mics
          PROVE  Counted(Working, k, segments[Working][k] + worker.left[k])'
      <4>1. Counted(Working, k, segments[Working][k] + worker.left[k])
        BY <1>0, <2>2, <3>1 DEF PassCounts
      <4>2. segments'[Working'][k] + worker'.left[k] = segments[Working][k] + worker.left[k]
        <5>1. /\ segments[Working] \in [Mics -> 0 .. MaxAudio]
              /\ worker.left \in [Mics -> 0 .. MaxAudio]
          BY <1>0, <3>1, WorkingCounts, JobTypes
        <5>. QED  BY <3>1, <3>2, <5>1
      <4>. QED  BY <3>1, <3>2, <4>1, <4>2, WorkingCounts, CountedKept DEF Counted, CountedThen
    <3>. QED  BY <1>0, <3>1, <3>2, <3>3 DEF PassCounts
  <2>. QED  BY <2>1, <2>2
<1>10. CASE PassDone \/ EnqueueIndex
  <2>1. /\ worker.pc \in {"storing", "announcing"}
        /\ worker'.pc \in {"announcing", "closing"}
        /\ worker'.job = worker.job /\ segments' = segments
    BY <1>10, WorkingCounts DEF PassDone, EnqueueIndex, rows
  <2>2. Working' = Working /\ jobs'[worker'.job].kind = jobs[worker.job].kind
    BY <1>0, <2>1, WorkingKept
  <2>3. ASSUME status'[Working] = "done", NEW k \in Mics
        PROVE  Counted(Working, k, segments[Working][k])
    <3>1. CASE PassDone
      <4>1. worker.pc = "storing" /\ worker.left = Silence
        BY <3>1 DEF PassDone
      <4>2. Exists(Working)
        BY <1>0, <2>3, <3>1, <4>1, WorkingCounts DEF PassDone, WithStatus, Exists
      <4>3. Counted(Working, k, segments[Working][k] + worker.left[k])
        BY <1>0, <4>1, <4>2 DEF PassCounts
      <4>. QED  BY <4>1, <4>3, WorkingCounts DEF Silence
    <3>2. CASE EnqueueIndex
      BY <1>0, <2>3, <3>2 DEF EnqueueIndex, rows, PassCounts, WorkerHolds
    <3>. QED  BY <1>10, <3>1, <3>2
  <2>4. ASSUME status'[Working] = "done", NEW k \in Mics
        PROVE  Counted(Working, k, segments[Working][k])'
    BY <2>1, <2>2, <2>3, <2>4, WorkingCounts, CountedKept DEF Counted, CountedThen
  <2>. QED  BY <2>1, <2>2, <2>4 DEF PassCounts
<1>11. \/ worker' = worker
       \/ \E j \in JobId : StartPass(j) \/ StartIndex(j)
       \/ AsrFails \/ EmbedFails \/ EndJob \/ Crash \/ StoreChunks
       \/ AsrEnds \/ (\E k \in Mics : StoreSegment(k)) \/ PassDone \/ EnqueueIndex
  BY Frame DEF Framed
<1>. QED
  BY <1>1, <1>4, <1>5, <1>6, <1>7, <1>8, <1>9, <1>10, <1>11

\* A row that is not settled well stays so, until the worker closes it.
LEMMA VerdictStep ==
  ASSUME Inv, [Next]_vars, NEW j \in JobId, Pending(jobs, j) \/ jobs[j].status = "failed"
  PROVE  \/ Pending(jobs', j) \/ jobs'[j].status = "failed"
         \/ EndJob /\ worker.pc = "closing" /\ j = worker.job
<1> USE DEF Pending
<1>0. TypeOK /\ WorkerHolds /\ jobs \in Table /\ handoff \in Meetings \cup {NoMeeting}
  BY JobTypes DEF Inv
<1>1. CASE EnqueuePass \/ EnqueueIndex
  <2>1. PICK i \in JobId, k \in Kinds, s \in Subjects :
          IsNextId(jobs, i) /\ jobs' = Inserted(jobs, i, k, s)
    <3>1. "quality_pass" \in Kinds /\ "index_transcript" \in Kinds
      BY DEF Kinds
    <3>2. EnqueuePass => handoff \in Subjects
      BY <1>0 DEF EnqueuePass, Meetings
    <3>3. EnqueueIndex => Working \in Subjects
      BY <1>0, WorkingIsMeeting DEF EnqueueIndex, Meetings
    <3>. QED  BY <1>1, <3>1, <3>2, <3>3 DEF EnqueuePass, EnqueueIndex
  <2>. QED  BY <1>0, <2>1, NextIdProperties, InsertedProperties
<1>2. ASSUME NEW i \in JobId, NEW kind, Take(i, kind)
      PROVE  Pending(jobs', j) \/ jobs'[j].status = "failed"
  <2>1. jobs[i].status = "queued" /\ "running" \in Statuses
    BY <1>2, NextJobProperties DEF Take, Statuses
  <2>. QED  BY <1>0, <1>2, <2>1, MarkedProperties DEF Take
<1>3. CASE EndJob
  <2>1. /\ worker.job \in JobId /\ jobs[worker.job].status # "absent"
        /\ "done" \in Statuses /\ "failed" \in Statuses
    BY <1>0, <1>3, WorkingIsMeeting DEF EndJob, Statuses
  <2>. QED  BY <1>0, <1>3, <2>1, MarkedProperties DEF EndJob
<1>4. CASE Serve
  BY <1>0, <1>4, RequeuedProperties DEF Serve
<1>5. \/ EnqueuePass \/ EnqueueIndex \/ EndJob \/ Serve \/ jobs' = jobs
      \/ \E i \in JobId : StartPass(i) \/ StartIndex(i)
  BY Frame DEF Framed
<1>. QED  BY <1>1, <1>2, <1>3, <1>4, <1>5 DEF StartPass, StartIndex

LEMMA DoneStep == Inv /\ [Next]_vars => DoneMeansTranscribed'
<1> SUFFICES ASSUME Inv, [Next]_vars, NEW m \in Meetings, status'[m] = "done"
             PROVE  \/ \A k \in Mics : Counted(m, k, segments[m][k])'
                    \/ \E j \in Passes(m)' : \/ Pending(jobs', j)
                                             \/ jobs'[j].status = "failed"
  BY DEF DoneMeansTranscribed, Transcribed, Counted
<1>0. /\ TypeOK /\ WorkerHolds /\ JobsArePast /\ PassCounts /\ DoneMeansTranscribed
      /\ RowsKept
  BY JournalStep DEF Inv
\* While the pass of m is at work, its row is pending.
<1>1. ASSUME worker.pc \in {"transcribing", "storing"}, m = Working, jobs' = jobs
      PROVE  \E j \in Passes(m)' : Pending(jobs', j)
  BY <1>0, <1>1, WorkingIsMeeting DEF Passes, JobsOf, Pending, WorkerHolds
<1>2. CASE status[m] # "done"
  <2>1. PassDone /\ m = Working
    BY <1>2, StatusStep DEF StatusMoves
  <2>. QED  BY <1>1, <2>1 DEF PassDone
<1>3. CASE status[m] = "done" /\ \E j \in Passes(m) : \/ Pending(jobs, j)
                                                       \/ jobs[j].status = "failed"
  <2>1. PICK j \in JobId : /\ j \in Passes(m)
                           /\ Pending(jobs, j) \/ jobs[j].status = "failed"
    BY <1>3 DEF Passes, JobsOf
  <2>2. j \in Passes(m)'
    BY <1>0, <2>1 DEF Passes, JobsOf, RowsKept
  <2>3. ASSUME EndJob, worker.pc = "closing", j = worker.job, NEW k \in Mics
        PROVE  Counted(m, k, segments[m][k])'
    <3>1. Working = m /\ jobs[worker.job].kind = "quality_pass"
      BY <1>0, <2>1, <2>3, WorkingIsMeeting DEF Passes, JobsOf
    <3>2. Counted(m, k, segments[m][k]) /\ ~session[m]
      BY <1>0, <1>3, <2>3, <3>1, WorkingCounts DEF PassCounts
    <3>3. segments' = segments
      BY <2>3 DEF EndJob, rows
    <3>. QED  BY <3>2, <3>3, CountedKept DEF Counted, CountedThen
  <2>. QED  BY <2>1, <2>2, <2>3, VerdictStep
<1>4. CASE status[m] = "done" /\ \A k \in Mics : Transcribed(m, k)
  <2>1. ~session[m]
    BY <1>0, <1>4 DEF JobsArePast
  <2>2. ~DeleteRow(m)
    <3>1. status \in [Meetings -> MeetingStates]
      BY <1>0 DEF TypeOK
    <3>. QED  BY <3>1 DEF DeleteRow
  <2>3. CASE (AsrEnds \/ (\E k \in Mics : StoreSegment(k))) /\ m = Working
    <3>1. worker.pc \in {"transcribing", "storing"} /\ jobs' = jobs
      BY <2>3 DEF AsrEnds, StoreSegment
    <3>. QED  BY <1>1, <2>3, <3>1
  <2>4. CASE segments'[m] = segments[m]
    <3>1. ASSUME NEW k \in Mics PROVE Counted(m, k, segments[m][k])'
      <4>1. Counted(m, k, segments[m][k])
        BY <1>4 DEF Transcribed, Counted
      <4>. QED  BY <2>1, <2>4, <4>1, CountedKept DEF Counted, CountedThen
    <3>. QED  BY <3>1
  <2>. QED  BY <1>0, <2>2, <2>3, <2>4, SegmentsStep
<1>. QED  BY <1>0, <1>2, <1>3, <1>4 DEF DoneMeansTranscribed

-----------------------------------------------------------------------------
\* The theorems.

LEMMA InitInv == Init => Inv
<1> SUFFICES ASSUME Init PROVE Inv
  OBVIOUS
<1> USE DEF Init, Idle
<1>1. \A j \in JobId : jobs[j].status = "absent"
  BY DEF EmptyTable, NoRow
<1>2. TypeOK
  <2>1. jobs \in Table
    BY DEF Table, EmptyTable
  <2>2. /\ worker \in WorkerStates /\ crashes \in 0 .. MaxCrashes
        /\ Silence \in [Mics -> 0 .. MaxAudio] /\ Undisturbed \in Deletions
    BY DEF WorkerStates, NoJob, Silence, Undisturbed, Deletions
  <2>3. mic \in [Meetings -> [Mics -> {"unborn", "silent", "named", "removed"}]]
        /\ writer \in [Meetings -> [Mics -> {"none", "open", "unlinked"}]]
    OBVIOUS
  <2>4. /\ audio \in [Meetings -> [Mics -> 0 .. MaxAudio]]
        /\ recorded \in [Meetings -> [Mics -> 0 .. MaxAudio]]
        /\ segments \in [Meetings -> [Mics -> 0 .. MaxAudio]]
        /\ deleting \in [Meetings -> Deletions]
    BY <2>2
  <2>5. /\ status \in [Meetings -> MeetingStates] /\ confidential \in [Meetings -> BOOLEAN]
        /\ playback \in [Meetings -> Mics \cup {NoMic}]
        /\ removing \in [Meetings -> SUBSET Mics]
        /\ indexed \in [Meetings -> BOOLEAN] /\ session \in [Meetings -> BOOLEAN]
        /\ stray \in [Meetings -> SUBSET Mics] /\ late \in [Meetings -> SUBSET Mics]
    BY DEF MeetingStates
  <2>6. /\ handoff \in Meetings \cup {NoMeeting} /\ power \in {"down", "recovering", "up"}
        /\ unstopped \subseteq Meetings
    OBVIOUS
  <2> HIDE DEF Init
  <2>. QED  BY <2>1, <2>2, <2>3, <2>4, <2>5, <2>6 DEF TypeOK
<1>3. WorkerHolds /\ PowerHolds
  BY DEF WorkerHolds, PowerHolds, Undisturbed
<1>4. JobsArePast /\ PassOnce /\ DeletesExisting /\ RowsName /\ FailedIsOver
  <2>1. JobsArePast /\ PassOnce
    BY <1>1 DEF JobsArePast, PassOnce, Passes, JobsOf
  <2>2. DeletesExisting /\ RowsName /\ FailedIsOver
    BY DEF DeletesExisting, Undisturbed, RowsName, Silence, FailedIsOver
  <2>. QED  BY <2>1, <2>2
<1>5. LiveRowHasSession /\ FailedMeansNothingRecorded /\ NoOrphanTranscript
  BY DEF LiveRowHasSession, FailedMeansNothingRecorded, NoOrphanTranscript
<1>6. StuckOnlyByCrash /\ IndexHolds /\ ConfidentialNotIndexed
  BY DEF StuckOnlyByCrash, IndexHolds, ConfidentialNotIndexed
<1>7. PassCounts /\ DoneMeansTranscribed
  BY DEF PassCounts, DoneMeansTranscribed
<1>. QED  BY <1>2, <1>3, <1>4, <1>5, <1>6, <1>7 DEF Inv

LEMMA NextInv == Inv /\ [Next]_vars => Inv'
  BY TypeStep, WorkerStep, PowerStep, PastStep, PassStep, DeletesStep, LiveStep,
     FailedStep, NamesStep, OverStep, OrphanStep, StuckStep, IndexStep, CountStep, DoneStep DEF Inv

LEMMA SpecInv == Spec => []Inv
  BY InitInv, NextInv, PTL DEF Spec

\* Every variable of the pipeline keeps its type.
THEOREM TypeCorrect == Spec => []TypeOK
  BY SpecInv, PTL DEF Inv

\* However stop, recovery, deletion and crashes interleave, a meeting gets one
\* quality pass, and none before its recording is over.
THEOREM OnePassPerMeeting == Spec => []SingleQualityPass
<1>1. Inv => SingleQualityPass
  <2> SUFFICES ASSUME Inv, NEW m \in Meetings
               PROVE  /\ \A i, j \in Passes(m) : i = j
                      /\ handoff = m => Passes(m) = {}
                      /\ status[m] \in {"unborn", "created", "live"} =>
                           Passes(m) = {} /\ handoff # m
    BY DEF SingleQualityPass
  <2>1. m # NoMeeting
    BY DEF Meetings
  <2>2. status[m] \in {"unborn", "created", "live"} => Passes(m) = {} /\ handoff # m
    BY <2>1 DEF Inv, JobsArePast, Recorded, Passes, JobsOf
  <2>. QED  BY <2>1, <2>2 DEF Inv, PassOnce
<1>. QED  BY <1>1, SpecInv, PTL

\* A meeting shown as live while requests are served can be stopped, but for one
\* whose stop raised.
THEOREM LiveMeetingsCanStop == Spec => []LiveRowHasSession
  BY SpecInv, PTL DEF Inv

\* No recording is written off as failed, unless the row of its mic was removed, or
\* a writer that a raising stop left open wrote to it.
THEOREM FailedHasNoRecording == Spec => []FailedMeansNothingRecorded
  BY SpecInv, PTL DEF Inv

\* A meeting that is done has the whole recording of every mic in the transcript,
\* once, but for a mic whose row was removed, whose file a delete request that did
\* not finish had unlinked, or that a stray writer wrote to, and for a repetition of
\* the pass that is pending or has failed.
THEOREM DoneHasTranscript == Spec => []DoneMeansTranscribed
  BY SpecInv, PTL DEF Inv

\* No transcript outlives its meeting, wherever a delete request falls.
THEOREM TranscriptGoesWithMeeting == Spec => []NoOrphanTranscript
  BY SpecInv, PTL DEF Inv

\* While the process lives, a meeting in processing has its pass in the journal.
THEOREM StuckNeedsCrash == Spec => []StuckOnlyByCrash
  BY SpecInv, PTL DEF Inv

\* A confidential meeting never reaches the search index.
THEOREM ConfidentialStaysOut == Spec => []ConfidentialNotIndexed
  BY SpecInv, PTL DEF Inv

\* The row of a meeting takes no other way than the documented one.
THEOREM RowsFollowMachine == Spec => StatusMachine
<1>1. Inv /\ [Next]_vars =>
        [\A m \in Meetings :
           status'[m] # status[m] =>
             <<status[m], status'[m]>> \in
               {<<"unborn", "created">>, <<"created", "live">>, <<"live", "processing">>,
                <<"live", "failed">>, <<"processing", "done">>,
                <<"processing", "failed">>, <<"done", "failed">>}
               \cup ({"created", "live", "processing", "done", "failed"}
                       \X {"deleted"})]_vars
  <2> SUFFICES ASSUME Inv, [Next]_vars, NEW m \in Meetings, status'[m] # status[m]
               PROVE  <<status[m], status'[m]>> \in
               {<<"unborn", "created">>, <<"created", "live">>, <<"live", "processing">>,
                <<"live", "failed">>, <<"processing", "done">>,
                <<"processing", "failed">>, <<"done", "failed">>}
               \cup ({"created", "live", "processing", "done", "failed"}
                       \X {"deleted"})
    OBVIOUS
  <2>1. status[m] \in MeetingStates
    BY DEF Inv, TypeOK
  <2>2. StatusMoves(m)
    BY StatusStep
  <2>. QED  BY <2>1, <2>2 DEF StatusMoves, Exists, MeetingStates
<1>. QED  BY <1>1, SpecInv, PTL DEF Spec, StatusMachine

-----------------------------------------------------------------------------
\* The pipeline keeps the ledger's promise.

LEMMA LedgerInit == Init => Ledger!Init
  BY EmptyAccepts DEF Init, Idle, Ledger!Init, Accepted, Outcome

LEMMA LedgerStep == Inv /\ [Next]_vars => [Ledger!Next]_Ledger!vars
<1> SUFFICES ASSUME Inv, [Next]_vars PROVE [Ledger!Next]_Ledger!vars
  OBVIOUS
<1> USE DEF Ledger!vars, Accepted, Outcome
<1>0. /\ TypeOK /\ WorkerHolds /\ jobs \in Table
      /\ handoff \in Meetings \cup {NoMeeting}
      /\ worker = [pc |-> worker.pc, job |-> worker.job, left |-> worker.left]
  BY JobTypes DEF Inv
<1>1. ASSUME EnqueuePass \/ EnqueueIndex PROVE Ledger!Next
  <2>1. PICK j \in JobId, k \in Kinds, s \in Subjects :
          IsNextId(jobs, j) /\ jobs' = Inserted(jobs, j, k, s)
    <3>1. "quality_pass" \in Kinds /\ "index_transcript" \in Kinds
      BY DEF Kinds
    <3>2. EnqueuePass => handoff \in Subjects
      BY <1>0 DEF EnqueuePass, Meetings
    <3>3. EnqueueIndex => Working \in Subjects
      BY <1>0, WorkingIsMeeting DEF EnqueueIndex, Meetings
    <3>. QED  BY <1>1, <3>1, <3>2, <3>3 DEF EnqueuePass, EnqueueIndex
  <2>2. worker'.job = worker.job
    BY <1>0, <1>1 DEF EnqueuePass, EnqueueIndex
  <2>. QED  BY <1>0, <2>1, <2>2, InsertAccepts DEF Ledger!Next, Ledger!Accept
<1>2. ASSUME NEW j \in JobId, StartPass(j) \/ StartIndex(j) PROVE Ledger!Next
  <2>1. /\ jobs[j].status = "queued" /\ jobs' = Marked(jobs, j, "running")
        /\ worker.job = NoJob /\ worker'.job = j
    BY <1>2, NextJobProperties DEF StartPass, StartIndex, Take, At, Idle
  <2>. QED  BY <1>0, <2>1, StartKeeps DEF Ledger!Next, Ledger!Begin
<1>3. CASE EndJob
  <2>1. /\ worker.job \in JobId /\ Pending(jobs, worker.job) /\ worker'.job = NoJob
    BY <1>0, <1>3, WorkingIsMeeting DEF EndJob, Pending, Idle
  <2>2. PICK st \in {"done", "failed"} : jobs' = Marked(jobs, worker.job, st)
    BY <1>3 DEF EndJob
  <2>3. Ledger!Settle(worker.job, st)
    BY <1>0, <2>1, <2>2, EndSettles DEF Ledger!Settle
  <2>. QED  BY <2>1, <2>3 DEF Ledger!Next, Ledger!Outcomes
<1>4. CASE Crash
  BY <1>4 DEF Crash, Idle, Ledger!Next, Ledger!Abandon
<1>5. CASE Serve
  BY <1>0, <1>5, RequeueKeeps DEF Serve
<1>6. ASSUME jobs' = jobs, worker'.job = worker.job
      PROVE  UNCHANGED Ledger!vars
  BY <1>6
<1>7. CASE \/ AsrFails \/ EmbedFails \/ StoreChunks \/ AsrEnds
           \/ (\E k \in Mics : StoreSegment(k)) \/ PassDone
  <2>1. jobs' = jobs /\ worker'.job = worker.job
    BY <1>0, <1>7 DEF AsrFails, EmbedFails, StoreChunks, AsrEnds, StoreSegment,
                      PassDone, At
  <2>. QED  BY <1>6, <2>1
<1>8. \/ jobs' = jobs /\ worker' = worker
      \/ EnqueuePass \/ EnqueueIndex \/ EndJob \/ Crash \/ Serve
      \/ \E j \in JobId : StartPass(j) \/ StartIndex(j)
      \/ AsrFails \/ EmbedFails \/ StoreChunks \/ AsrEnds
      \/ (\E k \in Mics : StoreSegment(k)) \/ PassDone
  BY Frame DEF Framed
<1>. QED  BY <1>1, <1>2, <1>3, <1>4, <1>5, <1>6, <1>7, <1>8

\* The pipeline's handlers, crashes and recovery forget no job they were given,
\* execute one at a time and undo no outcome.
THEOREM ImplementsLedger == Spec => LedgerSpec
  BY LedgerInit, LedgerStep, SpecInv, PTL DEF Spec, LedgerSpec, Ledger!Spec
=============================================================================
