--------------------------- MODULE MeetingPipeline ---------------------------
(***************************************************************************)
(* A meeting from creation to deletion: the REST handlers of               *)
(* api/meetings.py, the live sessions and the crash recovery of            *)
(* audio/session.py, the quality pass and the index job that the single    *)
(* worker of jobs/queue.py runs, and true deletion.                        *)
(*                                                                         *)
(* Every SQL statement commits by itself, so a handler is split where a    *)
(* crash or another thread can make a difference: coroutines of the event  *)
(* loop give way only at awaits (LoopFree), `def` endpoints run on threads *)
(* and may act between any two statements.                                 *)
(***************************************************************************)
EXTENDS JobTable

CONSTANTS NoMeeting,
          Mics, NoMic,  \* bound: mic rows a meeting ever gets; no mic
          MaxLive,      \* config.max_live_meetings
          MaxAudio,     \* bound: chunks the recording of a mic can hold
          MaxRemovals,  \* bound: meetings with a mic being removed at a time
          MaxDeletes,   \* bound: meetings being deleted at a time
          MaxStopFailures, \* bound: how many meetings have a stop that raises
          MaxCrashes    \* bound: how often the process dies

ASSUME PipelineAssumptions ==
  /\ NoMeeting \notin Subjects /\ NoMic \notin Mics
  /\ MaxLive \in Nat /\ MaxAudio \in Nat
  /\ MaxRemovals \in Nat /\ MaxDeletes \in Nat
  /\ MaxStopFailures \in Nat /\ MaxCrashes \in Nat

\* Both job kinds of the pipeline carry a meeting_id.
Meetings == Subjects

VARIABLES
  status,        \* meetings.status; "unborn" before the INSERT, "deleted" after
                 \* the DELETE (ids are never used again)
  confidential,  \* meetings.sensitivity, fixed at creation
  mic,           \* per mic of a meeting: its meeting_mics row, "named" when the
                 \* row has an audio_path
  playback,      \* the mic meetings.audio_path names, or NoMic
  removing,      \* mics whose remove request has passed its check
  audio,         \* chunks in the recording of a mic on disk
  recorded,      \* history: chunks it held when last written to
  segments,      \* transcript_segments rows of the quality pass, by mic
  indexed,       \* rag_chunks holds rows of the meeting
  session,       \* there is a live session
  writer,        \* per mic: its writer in the session, and what it appends to
  stray,         \* mics with a writer that a raising stop left open, which may
                 \* still have bytes to write
  late,          \* history: mics whose recording a stray writer wrote to
  handoff,       \* the meeting whose row says processing and whose quality pass
                 \* is not enqueued yet, or NoMeeting
  deleting,      \* a delete request for the meeting: how far it has got, the
                 \* default file it read, the files it has still to unlink
  jobs, worker,  \* the journal, and the worker with the handler it awaits
  power, crashes,
  unstopped      \* history: meetings a stop request of which raised

rows  == <<status, confidential, segments, indexed>>
micRows == <<mic, playback, removing>>
disk  == <<audio, recorded, stray, late>>
live  == <<session, writer>>
queue == <<jobs, worker>>
proc  == <<power, crashes, unstopped>>

vars == <<rows, micRows, disk, live, handoff, deleting, queue, proc>>

Silence == [k \in Mics |-> 0]
Idle == [pc |-> "idle", job |-> NoJob, left |-> Silence]
At(pc, j) == [pc |-> pc, job |-> j, left |-> Silence]

Undisturbed == [at |-> "no", default |-> NoMic, files |-> {}]

Exists(m) == status[m] \notin {"unborn", "deleted"}
Sessions  == {m \in Meetings : session[m]}
Present(m, k) == mic[m][k] \in {"silent", "named"}

\* The mics recovery and the quality pass find a recording of: their row names it
\* and something is in it.
Audible(m) == {k \in Mics : mic[m][k] = "named" /\ audio[m][k] > 0}
Working   == IF worker.job = NoJob THEN NoMeeting ELSE jobs[worker.job].subject

\* UPDATE meetings SET status=s WHERE id=m: no row, no effect.
WithStatus(m, s) == IF Exists(m) THEN [status EXCEPT ![m] = s] ELSE status

\* No coroutine is between two statements without an await: the stop handler and
\* the job handlers run on the loop, so nothing else on the loop moves meanwhile.
LoopFree == /\ power = "up"
            /\ handoff = NoMeeting
            /\ worker.pc \in {"idle", "transcribing", "embedding"}

Init ==
  /\ status = [m \in Meetings |-> "unborn"]
  /\ confidential = [m \in Meetings |-> FALSE]
  /\ mic = [m \in Meetings |-> [k \in Mics |-> "unborn"]]
  /\ playback = [m \in Meetings |-> NoMic]
  /\ removing = [m \in Meetings |-> {}]
  /\ audio = [m \in Meetings |-> Silence]
  /\ recorded = [m \in Meetings |-> Silence]
  /\ segments = [m \in Meetings |-> Silence]
  /\ indexed = [m \in Meetings |-> FALSE]
  /\ session = [m \in Meetings |-> FALSE]
  /\ writer = [m \in Meetings |-> [k \in Mics |-> "none"]]
  /\ stray = [m \in Meetings |-> {}]
  /\ late = [m \in Meetings |-> {}]
  /\ handoff = NoMeeting
  /\ deleting = [m \in Meetings |-> Undisturbed]
  /\ jobs = EmptyTable
  /\ worker = Idle
  /\ power = "down"
  /\ crashes = 0
  /\ unstopped = {}

-----------------------------------------------------------------------------
\* Recording.

CreateMeeting(m, secret) ==
  /\ power = "up"
  /\ status[m] = "unborn"
  /\ status' = [status EXCEPT ![m] = "created"]
  /\ confidential' = [confidential EXCEPT ![m] = secret]
  /\ UNCHANGED <<segments, indexed, micRows, disk, live, handoff, deleting, queue, proc>>

\* The mic registry, on threads, before and during the meeting.
AddMic(m, k) ==
  /\ power = "up"
  /\ Exists(m) /\ mic[m][k] = "unborn"
  /\ mic' = [mic EXCEPT ![m][k] = "silent"]
  /\ UNCHANGED <<rows, playback, removing, disk, live, handoff, deleting, queue, proc>>

\* remove_mic refuses a mic that has a recording (a file without a chunk in it may
\* be there, and refuse it too, or have been unlinked) ...
RemoveChecks(m, k) ==
  /\ power = "up"
  /\ Cardinality({n \in Meetings : removing[n] # {}}) < MaxRemovals
  /\ Present(m, k) /\ k \notin Audible(m)
  /\ removing' = [removing EXCEPT ![m] = @ \cup {k}]
  /\ UNCHANGED <<rows, mic, playback, disk, live, handoff, deleting, queue, proc>>

\* ... and deletes the row in a second statement.
RemoveRow(m, k) ==
  /\ k \in removing[m]
  /\ mic' = [mic EXCEPT ![m][k] = "removed"]
  /\ removing' = [removing EXCEPT ![m] = @ \ {k}]
  /\ UNCHANGED <<rows, playback, disk, live, handoff, deleting, queue, proc>>

\* POST /start refuses a meeting that has been recorded.
MayStart(m) == status[m] \in {"created", "live"}

\* A meeting without a mic gets the default one.
HasMic(m) ==
  \/ /\ \E k \in Mics : Present(m, k)
     /\ UNCHANGED mic
  \/ /\ \A k \in Mics : ~Present(m, k)
     /\ \E k \in Mics : mic[m][k] = "unborn" /\ mic' = [mic EXCEPT ![m][k] = "silent"]

StartMeeting_AnyStatus(m) ==
  /\ LoopFree
  /\ Exists(m)
  /\ ~session[m] /\ Cardinality(Sessions) < MaxLive
  /\ HasMic(m)
  /\ session' = [session EXCEPT ![m] = TRUE]
  /\ status' = [status EXCEPT ![m] = "live"]
  /\ UNCHANGED <<confidential, segments, indexed, playback, removing, disk, writer,
                 handoff, deleting, queue, proc>>

\* LiveSessionManager.start, below the cap.  A second start of a
\* meeting that has a session returns that session and changes nothing.
StartMeeting(m) ==
  /\ LoopFree
  /\ MayStart(m)
  /\ ~session[m] /\ Cardinality(Sessions) < MaxLive
  /\ HasMic(m)
  /\ session' = [session EXCEPT ![m] = TRUE]
  /\ status' = [status EXCEPT ![m] = "live"]
  /\ UNCHANGED <<confidential, segments, indexed, playback, removing, disk, writer,
                 handoff, deleting, queue, proc>>

\* The first chunk of a mic opens its writer, which takes the mic's row and names
\* the file in it; the writer goes on when the row is removed.
Opened(m, k) ==
  \/ writer[m][k] # "none" /\ UNCHANGED <<mic, playback, writer>>
  \/ /\ writer[m][k] = "none" /\ Present(m, k)
     /\ mic' = [mic EXCEPT ![m][k] = "named"]
     /\ playback' = [playback EXCEPT ![m] = IF @ = NoMic THEN k ELSE @]
     /\ writer' = [writer EXCEPT ![m][k] = "open"]

\* A chunk arrives on the audio socket and is written and fsynced; a writer whose
\* file has been unlinked appends to nothing anyone can read.
Feed(m, k) ==
  /\ LoopFree
  /\ session[m]
  /\ writer[m][k] # "unlinked" /\ Opened(m, k)
  /\ audio[m][k] < MaxAudio
  /\ audio' = [audio EXCEPT ![m][k] = @ + 1]
  /\ recorded' = [recorded EXCEPT ![m][k] = audio[m][k] + 1]
  /\ UNCHANGED <<rows, removing, stray, late, session, handoff, deleting, queue, proc>>

\* On a full disk the writer stays with the chunk in its buffer, which comes with
\* the next one, or is lost.
FeedFails(m, k) ==
  /\ LoopFree
  /\ session[m]
  /\ Opened(m, k)
  /\ UNCHANGED <<rows, removing, disk, session, handoff, deleting, queue, proc>>

\* The manager has popped the session.
EndSession(m) ==
  /\ session[m]
  /\ session' = [session EXCEPT ![m] = FALSE]
  /\ writer' = [writer EXCEPT ![m] = [k \in Mics |-> "none"]]

StopMeeting_OnlyRecorded(m) ==
  /\ LoopFree
  /\ EndSession(m)
  /\ status' = WithStatus(m, "processing")
  /\ handoff' = IF \A k \in Mics : writer[m][k] = "none" THEN NoMeeting ELSE m
  /\ UNCHANGED <<confidential, segments, indexed, micRows, disk, deleting, queue, proc>>

\* LiveSessionManager.stop as far as UPDATE ... 'processing', from POST /stop or
\* from the audio socket (the only one left when the row is gone).
StopMeeting(m) ==
  /\ LoopFree
  /\ EndSession(m)
  /\ status' = WithStatus(m, "processing")
  /\ handoff' = m
  /\ UNCHANGED <<confidential, segments, indexed, micRows, disk, deleting, queue, proc>>

\* Closing the writer of a mic raises on a full disk: nothing after it is reached,
\* and the writers that come later in finish stay open.
StopFails(m) ==
  /\ LoopFree
  /\ Cardinality(unstopped) < MaxStopFailures
  /\ EndSession(m)
  /\ \E k \in Mics :
       /\ writer[m][k] # "none"
       /\ \E others \in SUBSET {j \in Mics \ {k} : writer[m][j] = "open"} :
            stray' = [stray EXCEPT ![m] = @ \cup others]
  /\ unstopped' = unstopped \cup {m}
  /\ UNCHANGED <<rows, micRows, audio, recorded, late, handoff, deleting, queue, power,
                 crashes>>

\* Python closes a stray writer when the last reference to the session goes (the
\* events socket has one), and closing flushes: after the file's end, or over what a
\* resumed writer has appended (see Recording).
StrayWrites(m, k) ==
  /\ LoopFree
  /\ k \in stray[m]
  /\ audio[m][k] < MaxAudio
  /\ audio' = [audio EXCEPT ![m][k] = @ + 1]
  /\ recorded' = [recorded EXCEPT ![m][k] = audio[m][k] + 1]
  /\ late' = [late EXCEPT ![m] = @ \cup {k}]
  /\ stray' = [stray EXCEPT ![m] = @ \ {k}]
  /\ UNCHANGED <<rows, micRows, live, handoff, deleting, queue, proc>>

\* The last statement of stop; recovery ends in the same one.
EnqueuePass ==
  /\ power \in {"up", "recovering"}
  /\ handoff # NoMeeting
  /\ \E j \in JobId : /\ IsNextId(jobs, j)
                      /\ jobs' = Inserted(jobs, j, "quality_pass", handoff)
  /\ handoff' = NoMeeting
  /\ UNCHANGED <<rows, micRows, disk, live, deleting, worker, proc>>

-----------------------------------------------------------------------------
\* Deletion, on a thread: DELETE /api/meetings/{id} and the admin removal.

NotRecording(m) == ~session[m]   \* ensure_not_recording

\* The meeting's row is read ...
DeleteReads(m) ==
  /\ power = "up"
  /\ deleting[m].at = "no"
  /\ Cardinality({n \in Meetings : deleting[n].at # "no"}) < MaxDeletes
  /\ Exists(m)
  /\ deleting' = [deleting EXCEPT ![m] = [Undisturbed EXCEPT !.at = "read",
                                                           !.default = playback[m]]]
  /\ UNCHANGED <<rows, micRows, disk, live, handoff, queue, proc>>

\* ... and the manager is asked once; 409 while there is a session.
DeleteChecks(m) ==
  /\ deleting[m].at = "read"
  /\ deleting' = IF NotRecording(m) THEN [deleting EXCEPT ![m].at = "checked"]
                                    ELSE [deleting EXCEPT ![m] = Undisturbed]
  /\ UNCHANGED <<rows, micRows, disk, live, handoff, queue, proc>>

DeleteIndex(m) ==
  /\ deleting[m].at = "checked"
  /\ indexed' = [indexed EXCEPT ![m] = FALSE]
  /\ deleting' = [deleting EXCEPT ![m].at = "unindexed"]
  /\ UNCHANGED <<status, confidential, segments, micRows, disk, live, handoff, queue, proc>>

\* Path.unlink(missing_ok=True), under whatever writer has the file open
Unlink(m, ks) ==
  /\ audio' = [audio EXCEPT ![m] = [k \in Mics |-> IF k \in ks THEN 0 ELSE @[k]]]
  /\ writer' = [writer EXCEPT ![m] =
                  [k \in Mics |-> IF k \in ks /\ @[k] = "open" THEN "unlinked" ELSE @[k]]]
  /\ stray' = [stray EXCEPT ![m] = @ \ ks]
  /\ UNCHANGED <<recorded, late, session>>

\* The default file goes first; then the rows are asked for the others.
DeleteDefault(m) ==
  /\ deleting[m].at = "unindexed"
  /\ Unlink(m, {deleting[m].default})
  /\ deleting' = [deleting EXCEPT ![m].at = "unlinking",
                                  ![m].files = {k \in Mics : mic[m][k] = "named"}]
  /\ UNCHANGED <<rows, micRows, handoff, queue, proc>>

DeleteFile(m, k) ==
  /\ deleting[m].at = "unlinking" /\ k \in deleting[m].files
  /\ Unlink(m, {k})
  /\ deleting' = [deleting EXCEPT ![m].files = @ \ {k}]
  /\ UNCHANGED <<rows, micRows, handoff, queue, proc>>

\* Where the platform does not unlink an open file, the request fails half-way.
DeleteRefused(m) ==
  /\ \E k \in Mics :
       /\ writer[m][k] = "open" \/ k \in stray[m]
       /\ \/ deleting[m].at = "unindexed" /\ k = deleting[m].default
          \/ deleting[m].at = "unlinking" /\ k \in deleting[m].files
  /\ deleting' = [deleting EXCEPT ![m] = Undisturbed]
  /\ UNCHANGED <<rows, micRows, disk, live, handoff, queue, proc>>

\* The row goes, and mics and transcript with it (ON DELETE CASCADE).
DeleteRow(m) ==
  /\ deleting[m].at = "unlinking" /\ deleting[m].files = {}
  /\ status' = [status EXCEPT ![m] = "deleted"]
  /\ segments' = [segments EXCEPT ![m] = Silence]
  /\ mic' = [mic EXCEPT ![m] = [k \in Mics |-> "removed"]]
  /\ deleting' = [deleting EXCEPT ![m] = Undisturbed]
  /\ UNCHANGED <<confidential, indexed, playback, removing, disk, live, handoff, queue,
                 proc>>

-----------------------------------------------------------------------------
\* The worker and its handlers.

\* The next job of the kind starts: the worker marks it and enters the handler.
Take(j, kind) ==
  /\ LoopFree
  /\ worker = Idle
  /\ IsNextJob(jobs, Sessions # {}, j)
  /\ jobs[j].kind = kind
  /\ jobs' = Marked(jobs, j, "running")

\* run_quality_pass up to its first await.  A meeting that is gone is not an
\* error; one without a recording is, and so is a file that a delete request
\* unlinks between exists() and pcm_size().  What is read of the files later is
\* what they hold now, or the pass raises.
StartPass(j) ==
  LET m == jobs[j].subject IN
  /\ Take(j, "quality_pass")
  /\ \/ /\ ~Exists(m)
        /\ worker' \in {At("closing", j), At("raising", j)}
        /\ UNCHANGED status
     \/ /\ Exists(m) /\ Audible(m) = {}
        /\ status' = WithStatus(m, "failed")
        /\ worker' = At("raising", j)
     \/ /\ Exists(m) /\ Audible(m) # {}
        /\ worker' = [At("transcribing", j) EXCEPT !.left =
                        [k \in Mics |-> IF k \in Audible(m) THEN audio[m][k] ELSE 0]]
        /\ UNCHANGED status
     \/ /\ deleting[m].at = "unlinking"
        /\ worker' = At("raising", j)
        /\ UNCHANGED status
  /\ UNCHANGED <<confidential, segments, indexed, micRows, disk, live, handoff, deleting,
                 proc>>

\* ASR or diarization raises: the row keeps saying processing.
AsrFails ==
  /\ LoopFree
  /\ worker.pc = "transcribing"
  /\ worker' = At("raising", worker.job)
  /\ UNCHANGED <<rows, micRows, disk, live, handoff, deleting, jobs, proc>>

AsrEnds_KeepsOldSegments ==
  /\ LoopFree
  /\ worker.pc = "transcribing"
  /\ worker' = [worker EXCEPT !.pc = "storing"]
  /\ UNCHANGED <<rows, micRows, disk, live, handoff, deleting, jobs, proc>>

\* The pass has its segments and deletes those of an earlier attempt.
AsrEnds ==
  /\ LoopFree
  /\ worker.pc = "transcribing"
  /\ worker' = [worker EXCEPT !.pc = "storing"]
  /\ segments' = [segments EXCEPT ![Working] = Silence]
  /\ UNCHANGED <<status, confidential, indexed, micRows, disk, live, handoff,
                 deleting, jobs, proc>>

StoreSegment_NoForeignKey(k) ==
  /\ worker.pc = "storing" /\ worker.left[k] > 0
  /\ segments' = [segments EXCEPT ![Working][k] = @ + 1]
  /\ worker' = [worker EXCEPT !.left[k] = @ - 1]
  /\ UNCHANGED <<status, confidential, indexed, micRows, disk, live, handoff, deleting,
                 jobs, proc>>

\* One INSERT per segment, the mics' segments mixed by their time; the foreign key
\* refuses it once the meeting is gone.
StoreSegment(k) ==
  /\ worker.pc = "storing" /\ worker.left[k] > 0
  /\ IF Exists(Working)
     THEN /\ segments' = [segments EXCEPT ![Working][k] = @ + 1]
          /\ worker' = [worker EXCEPT !.left[k] = @ - 1]
     ELSE /\ worker' = At("raising", worker.job)
          /\ UNCHANGED segments
  /\ UNCHANGED <<status, confidential, indexed, micRows, disk, live, handoff, deleting,
                 jobs, proc>>

PassDone ==
  /\ worker.pc = "storing" /\ worker.left = Silence
  /\ status' = WithStatus(Working, "done")
  /\ worker' = [worker EXCEPT !.pc = "announcing"]
  /\ UNCHANGED <<confidential, segments, indexed, micRows, disk, live, handoff,
                 deleting, jobs, proc>>

EnqueueIndex ==
  /\ worker.pc = "announcing"
  /\ \E j \in JobId : /\ IsNextId(jobs, j)
                      /\ jobs' = Inserted(jobs, j, "index_transcript", Working)
  /\ worker' = [worker EXCEPT !.pc = "closing"]
  /\ UNCHANGED <<rows, micRows, disk, live, handoff, deleting, proc>>

StartIndex_AnySensitivity(j) ==
  LET m == jobs[j].subject IN
  /\ Take(j, "index_transcript")
  /\ IF Exists(m) /\ segments[m] # Silence
     THEN /\ indexed' = [indexed EXCEPT ![m] = FALSE]
          /\ worker' = At("embedding", j)
     ELSE /\ worker' = At("closing", j)
          /\ UNCHANGED indexed
  /\ UNCHANGED <<status, confidential, segments, micRows, disk, live, handoff, deleting,
                 proc>>

\* index_transcript_job up to the await of the embedder: confidential meetings
\* and empty transcripts are left out, an earlier index is deleted first.
StartIndex(j) ==
  LET m == jobs[j].subject IN
  /\ Take(j, "index_transcript")
  /\ IF Exists(m) /\ ~confidential[m] /\ segments[m] # Silence
     THEN /\ indexed' = [indexed EXCEPT ![m] = FALSE]
          /\ worker' = At("embedding", j)
     ELSE /\ worker' = At("closing", j)
          /\ UNCHANGED indexed
  /\ UNCHANGED <<status, confidential, segments, micRows, disk, live, handoff, deleting,
                 proc>>

EmbedFails ==
  /\ LoopFree
  /\ worker.pc = "embedding"
  /\ worker' = At("raising", worker.job)
  /\ UNCHANGED <<rows, micRows, disk, live, handoff, deleting, jobs, proc>>

\* rag_chunks has no foreign key: the rows go in whatever has become of the
\* meeting since the DELETE.
StoreChunks ==
  /\ LoopFree
  /\ worker.pc = "embedding"
  /\ indexed' = [indexed EXCEPT ![Working] = TRUE]
  /\ worker' = At("closing", worker.job)
  /\ UNCHANGED <<status, confidential, segments, micRows, disk, live, handoff,
                 deleting, jobs, proc>>

\* The handler has returned or raised.
EndJob ==
  /\ worker.pc \in {"closing", "raising"}
  /\ jobs' = Marked(jobs, worker.job,
                    IF worker.pc = "closing" THEN "done" ELSE "failed")
  /\ worker' = Idle
  /\ UNCHANGED <<rows, micRows, disk, live, handoff, deleting, proc>>

-----------------------------------------------------------------------------
\* The process.

\* Power cut, kill or shutdown: the lifespan stops the queue and ends no session.
Crash ==
  /\ power # "down"
  /\ crashes < MaxCrashes
  /\ crashes' = crashes + 1
  /\ power' = "down"
  /\ session' = [m \in Meetings |-> FALSE]
  /\ writer' = [m \in Meetings |-> [k \in Mics |-> "none"]]
  /\ stray' = [m \in Meetings |-> {}]
  /\ removing' = [m \in Meetings |-> {}]
  /\ handoff' = NoMeeting
  /\ deleting' = [m \in Meetings |-> Undisturbed]
  /\ worker' = Idle
  /\ UNCHANGED <<rows, mic, playback, audio, recorded, late, jobs, unstopped>>

Boot ==
  /\ power = "down"
  /\ power' = "recovering"
  /\ UNCHANGED <<rows, micRows, disk, live, handoff, deleting, queue, crashes, unstopped>>

RecoverMeeting_FailsAll(m) ==
  /\ power = "recovering"
  /\ handoff = NoMeeting
  /\ status[m] = "live"
  /\ status' = [status EXCEPT ![m] = "failed"]
  /\ UNCHANGED <<confidential, segments, indexed, micRows, disk, live, handoff, deleting,
                 queue, proc>>

RecoverMeeting_Again(m) ==
  /\ power = "recovering"
  /\ handoff = NoMeeting
  /\ status[m] \in {"live", "processing"}
  /\ status' = [status EXCEPT ![m] = "processing"]
  /\ handoff' = m
  /\ UNCHANGED <<confidential, segments, indexed, micRows, disk, live, deleting, queue,
                 proc>>

\* recover_crashed_meetings, for one row that still says live: a recording counts
\* when a mic row names it.
RecoverMeeting(m) ==
  /\ power = "recovering"
  /\ handoff = NoMeeting
  /\ status[m] = "live"
  /\ IF Audible(m) = {}
     THEN /\ status' = [status EXCEPT ![m] = "failed"]
          /\ UNCHANGED handoff
     ELSE /\ status' = [status EXCEPT ![m] = "processing"]
          /\ handoff' = m
  /\ UNCHANGED <<confidential, segments, indexed, micRows, disk, live, deleting, queue,
                 proc>>

Serve_BeforeRecovery ==
  /\ power = "recovering"
  /\ handoff = NoMeeting
  /\ jobs' = Requeued(jobs)
  /\ power' = "up"
  /\ UNCHANGED <<rows, micRows, disk, live, handoff, deleting, worker, crashes, unstopped>>

\* queue.start() after the recovery; then the endpoints are served.
Serve ==
  /\ power = "recovering"
  /\ handoff = NoMeeting
  /\ \A m \in Meetings : status[m] # "live"
  /\ jobs' = Requeued(jobs)
  /\ power' = "up"
  /\ UNCHANGED <<rows, micRows, disk, live, handoff, deleting, worker, crashes, unstopped>>

Startup == Boot \/ (\E m \in Meetings : RecoverMeeting(m)) \/ Serve

Deletes(m) == \/ DeleteChecks(m) \/ DeleteIndex(m) \/ DeleteDefault(m)
              \/ (\E k \in Mics : DeleteFile(m, k))
              \/ DeleteRefused(m) \/ DeleteRow(m)

Handlers ==
  \/ \E j \in JobId : StartPass(j) \/ StartIndex(j)
  \/ AsrFails \/ AsrEnds \/ (\E k \in Mics : StoreSegment(k)) \/ PassDone \/ EnqueueIndex
  \/ EmbedFails \/ StoreChunks \/ EndJob

Next ==
  \/ \E m \in Meetings, secret \in BOOLEAN : CreateMeeting(m, secret)
  \/ \E m \in Meetings, k \in Mics : \/ AddMic(m, k) \/ RemoveChecks(m, k) \/ RemoveRow(m, k)
                                   \/ Feed(m, k) \/ FeedFails(m, k)
                                   \/ StrayWrites(m, k)
  \/ \E m \in Meetings : \/ StartMeeting(m) \/ StopMeeting(m) \/ StopFails(m)
                         \/ DeleteReads(m) \/ Deletes(m)
  \/ EnqueuePass
  \/ Handlers
  \/ Crash
  \/ Startup

Spec == Init /\ [][Next]_vars

\* A service that died is started again, a handler that has begun goes on, the
\* poll interval makes the worker look again, every model call ends.  Users may
\* stop doing anything at any time.
Fairness ==
  /\ WF_vars(Startup)
  /\ WF_vars(EnqueuePass)
  /\ WF_vars(Handlers)
  /\ \A m \in Meetings : WF_vars(Deletes(m))

FairSpec == Spec /\ Fairness

-----------------------------------------------------------------------------
\* Properties.

JobsOf(m, kind) ==
  {j \in JobId : /\ jobs[j].status # "absent"
                 /\ jobs[j].kind = kind /\ jobs[j].subject = m}
Passes(m) == JobsOf(m, "quality_pass")

MeetingStates ==
  {"unborn", "created", "live", "processing", "done", "failed", "deleted"}
WorkerStates ==
  [pc : {"idle", "transcribing", "storing", "announcing", "embedding", "closing",
         "raising"},
   job : JobId \cup {NoJob}, left : [Mics -> 0 .. MaxAudio]]
Deletions ==
  [at : {"no", "read", "checked", "unindexed", "unlinking"},
   default : Mics \cup {NoMic}, files : SUBSET Mics]

TypeOK ==
  /\ status \in [Meetings -> MeetingStates]
  /\ confidential \in [Meetings -> BOOLEAN]
  /\ mic \in [Meetings -> [Mics -> {"unborn", "silent", "named", "removed"}]]
  /\ playback \in [Meetings -> Mics \cup {NoMic}]
  /\ removing \in [Meetings -> SUBSET Mics]
  /\ audio \in [Meetings -> [Mics -> 0 .. MaxAudio]]
  /\ recorded \in [Meetings -> [Mics -> 0 .. MaxAudio]]
  /\ segments \in [Meetings -> [Mics -> 0 .. MaxAudio]]
  /\ indexed \in [Meetings -> BOOLEAN]
  /\ session \in [Meetings -> BOOLEAN]
  /\ writer \in [Meetings -> [Mics -> {"none", "open", "unlinked"}]]
  /\ stray \in [Meetings -> SUBSET Mics]
  /\ late \in [Meetings -> SUBSET Mics]
  /\ handoff \in Meetings \cup {NoMeeting}
  /\ deleting \in [Meetings -> Deletions]
  /\ jobs \in Table
  /\ worker \in WorkerStates
  /\ power \in {"down", "recovering", "up"}
  /\ crashes \in 0 .. MaxCrashes
  /\ unstopped \subseteq Meetings

\* A meeting is handed to the quality pass once, by stop or by recovery and never
\* by both, and not before its recording is over: two passes would overwrite each
\* other's transcript and index it twice (session.py:154-162, 188-193).
SingleQualityPass ==
  \A m \in Meetings :
    /\ \A i, j \in Passes(m) : i = j
    /\ handoff = m => Passes(m) = {}
    /\ status[m] \in {"unborn", "created", "live"} => Passes(m) = {} /\ handoff # m

\* While requests are served, a row that says live has a session, so stop can end
\* it: recovery left none behind, and the row and the session change in one step
\* of the loop - unless a stop raised half-way.  Stop does nothing to a live row
\* without a session, and no pass is queued for it before the next restart.
LiveRowHasSession ==
  power = "up" =>
    \A m \in Meetings : status[m] = "live" => session[m] \/ m \in unstopped

\* "failed" is said of a meeting only when there is no recording of it that a mic
\* row names (session.py:166-191): what is on disk all the same was recorded by a
\* mic whose row a concurrent remove_mic deleted, or came after the verdict from a
\* writer that a raising stop had left open.
FailedMeansNothingRecorded ==
  \A m \in Meetings : status[m] = "failed" =>
    \A k \in Mics : audio[m][k] > 0 => mic[m][k] = "removed" \/ k \in late[m]

\* No part of the recording of a mic is missing from its transcript, or twice in it;
\* all of it is missing only if the row was removed or a delete request that did
\* not finish had unlinked the file.
Transcribed(m, k) ==
  \/ segments[m][k] = recorded[m][k]
  \/ segments[m][k] = 0 /\ (mic[m][k] = "removed" \/ audio[m][k] # recorded[m][k])
  \/ k \in late[m]

\* "done" means that every mic is Transcribed, unless a repetition of the pass,
\* which a crash caused, is pending or has failed after it began to replace the
\* transcript (quality_pass.py:137-148).
DoneMeansTranscribed ==
  \A m \in Meetings :
    status[m] = "done" =>
      \/ \A k \in Mics : Transcribed(m, k)
      \/ \E j \in Passes(m) : Pending(jobs, j) \/ jobs[j].status = "failed"

\* Whatever a delete request and a running pass do to one another, no transcript
\* segment is left of a meeting that is gone (quality_pass.py:139-147 against
\* meetings.py:130).
NoOrphanTranscript ==
  \A m \in Meetings : segments[m] # Silence => Exists(m)

\* Without a crash no meeting says processing unless its quality pass is in the
\* journal, or is about to be: the only way to get stuck there for want of a job
\* is to die between the two statements of stop or of recovery.
StuckOnlyByCrash ==
  crashes = 0 =>
    \A m \in Meetings : status[m] = "processing" => Passes(m) # {} \/ handoff = m

\* Search never sees a confidential meeting (ingest.py:36-47).
ConfidentialNotIndexed ==
  \A m \in Meetings : confidential[m] => ~indexed[m]

\* What the row of a meeting may go through.  done -> failed is a repeated pass
\* that finds the files gone, after a delete request that died half-way.
StatusMachine ==
  [][\A m \in Meetings :
       status'[m] # status[m] =>
         <<status[m], status'[m]>> \in
           {<<"unborn", "created">>, <<"created", "live">>, <<"live", "processing">>,
            <<"live", "failed">>, <<"processing", "done">>, <<"processing", "failed">>,
            <<"done", "failed">>}
           \cup ({"created", "live", "processing", "done", "failed"} \X {"deleted"})]_vars

\* If meetings do not go on for ever, a recording whose pass is in the journal
\* gets its verdict, through any crash: a transcript, or a failure the user can
\* see, or a failed job.
StoppedMeetingSettles ==
  (<>[](Sessions = {})) =>
    \A m \in Meetings :
      (status[m] = "processing" /\ Passes(m) # {}) ~>
        (\/ status[m] \in {"done", "failed", "deleted"}
         \/ \E j \in Passes(m) : jobs[j].status = "failed")

\* The pipeline's use of the journal is the ledger's: nothing a handler does
\* forgets a job, runs two, or changes an outcome.
Accepted == AcceptedIn(jobs)
Outcome  == OutcomesIn(jobs)

Ledger == INSTANCE WorkLedger WITH
  Jobs <- JobId, NoOne <- NoJob,
  accepted <- Accepted, executing <- worker.job, outcome <- Outcome

LedgerSpec == Ledger!Spec

\* What the documentation says of this code, and the code does not keep.

\* "so the index can never outlive the meeting" (meetings.py:115-116).
IndexNeverOutlivesMeeting ==
  \A m \in Meetings : status[m] = "deleted" => ~indexed[m]

\* "True deletion core (D4): removes transcript, audio, ..." (meetings.py:107).
DeletedLeavesNoRecording ==
  \A m \in Meetings : status[m] = "deleted" => audio[m] = Silence

\* "job state is journaled, and on restart the server auto-recovers"
\* (ARCHITECTURE.md:288-291): a stopped recording has its pass in the journal.
ProcessingIsQueued ==
  \A m \in Meetings : status[m] = "processing" => Passes(m) # {} \/ handoff = m
=============================================================================
