------------------------------ MODULE JobQueue ------------------------------
(***************************************************************************)
(* The background job queue (jobs/queue.py): rows persisted in the `jobs`  *)
(* table, one asyncio worker task that takes them by priority, and the     *)
(* asyncio.Event that wakes it.  Coroutines of the event loop interleave   *)
(* only where the code awaits; `def` endpoints run on threads and may act  *)
(* between any two statements of the worker.  A crash, or a shutdown that  *)
(* cancels the worker, may fall anywhere; the rows survive it.             *)
(***************************************************************************)
EXTENDS JobTable

CONSTANTS Registered,   \* the kinds main.py registers a handler for
          MaxCrashes,   \* bound: how often the process dies
          MaxMeetings   \* bound: how many live periods there are

ASSUME QueueAssumptions ==
  /\ Registered \subseteq Kinds
  /\ MaxCrashes \in Nat
  /\ MaxMeetings \in Nat

VARIABLES
  jobs,      \* the jobs table
  phase,     \* where the worker task stands; "down" when there is none
  current,   \* the job whose handler is awaited, or NoJob
  wake,      \* the _wake event is set
  posting,   \* a thread is between the INSERT and the _wake.set() of enqueue
  live,      \* live_meeting_active()
  crashes, meetings    \* counters of the bounds

vars == <<jobs, phase, current, wake, posting, live, crashes, meetings>>
bounds == <<crashes, meetings>>

Phases == {"down",   \* before start(), including the recovery that precedes it
           "scan",   \* about to call _next_job
           "clear",  \* _next_job returned None, _wake not cleared yet
           "wait",   \* awaiting _wake with the poll interval as timeout
           "run"}    \* awaiting a handler

Init ==
  /\ jobs = EmptyTable
  /\ phase = "down"
  /\ current = NoJob
  /\ wake = FALSE
  /\ posting = FALSE
  /\ live = FALSE
  /\ crashes = 0
  /\ meetings = 0

-----------------------------------------------------------------------------
\* Callers.

\* Another coroutine runs: only while the worker awaits, or before it exists.
LoopYields == phase \in {"down", "wait", "run"}

\* Bound: a row is kept back for the quality pass of the live meeting.
Room == Cardinality(InStatus(jobs, "absent")) > (IF live THEN 1 ELSE 0)

Enqueue(kind, subject) ==
  /\ LoopYields
  /\ Room
  /\ \E j \in JobId : /\ IsNextId(jobs, j)
                      /\ jobs' = Inserted(jobs, j, kind, subject)
  /\ wake' = TRUE
  /\ UNCHANGED <<phase, current, posting, live, bounds>>

\* POST /api/admin/backup is a `def` endpoint: it inserts and wakes from a thread.
ThreadInsert(subject) ==
  /\ phase # "down"
  /\ ~posting
  /\ Room
  /\ \E j \in JobId : /\ IsNextId(jobs, j)
                      /\ jobs' = Inserted(jobs, j, "backup_snapshot", subject)
  /\ posting' = TRUE
  /\ UNCHANGED <<phase, current, wake, live, bounds>>

ThreadWake ==
  /\ posting
  /\ wake' = TRUE
  /\ posting' = FALSE
  /\ UNCHANGED <<jobs, phase, current, live, bounds>>

StartMeeting ==
  /\ LoopYields /\ phase # "down"
  /\ ~live
  /\ Room
  /\ meetings < MaxMeetings
  /\ live' = TRUE
  /\ meetings' = meetings + 1
  /\ UNCHANGED <<jobs, phase, current, wake, posting, crashes>>

\* LiveSessionManager.stop: the session is gone, the quality pass is enqueued
\* and the worker notified.
StopMeeting(subject) ==
  /\ LoopYields
  /\ live
  /\ live' = FALSE
  /\ \E j \in JobId : /\ IsNextId(jobs, j)
                      /\ jobs' = Inserted(jobs, j, "quality_pass", subject)
  /\ wake' = TRUE
  /\ UNCHANGED <<phase, current, posting, bounds>>

-----------------------------------------------------------------------------
\* The worker task, _run.

StartJob(j) ==
  /\ phase = "scan"
  /\ IsNextJob(jobs, live, j)
  /\ jobs[j].kind \in Registered
  /\ jobs' = Marked(jobs, j, "running")
  /\ current' = j
  /\ phase' = "run"
  /\ UNCHANGED <<wake, posting, live, bounds>>

\* No handler: running, then at once failed, and the loop goes round.
RefuseJob(j) ==
  /\ phase = "scan"
  /\ IsNextJob(jobs, live, j)
  /\ jobs[j].kind \notin Registered
  /\ jobs' = Marked(jobs, j, "failed")
  /\ UNCHANGED <<phase, current, wake, posting, live, bounds>>

FindNothing ==
  /\ phase = "scan"
  /\ \A j \in JobId : ~IsNextJob(jobs, live, j)
  /\ phase' = "clear"
  /\ UNCHANGED <<jobs, current, wake, posting, live, bounds>>

\* A wake-up a thread sent since FindNothing is lost here.
ClearWake ==
  /\ phase = "clear"
  /\ wake' = FALSE
  /\ phase' = "wait"
  /\ UNCHANGED <<jobs, current, posting, live, bounds>>

WakeUp ==
  /\ phase = "wait"
  /\ wake
  /\ phase' = "scan"
  /\ UNCHANGED <<jobs, current, wake, posting, live, bounds>>

PollTimeout_WithoutTimeout == FALSE /\ UNCHANGED vars

\* wait_for times out after _POLL_INTERVAL_S.
PollTimeout ==
  /\ phase = "wait"
  /\ phase' = "scan"
  /\ UNCHANGED <<jobs, current, wake, posting, live, bounds>>

\* The handler returns ("done") or raises ("failed"): the worker survives both.
HandlerEnds(status) ==
  /\ phase = "run"
  /\ jobs' = Marked(jobs, current, status)
  /\ current' = NoJob
  /\ phase' = "scan"
  /\ UNCHANGED <<wake, posting, live, bounds>>

-----------------------------------------------------------------------------
\* The process.

\* Killed, or stopped: stop() cancels the worker inside the handler, and
\* CancelledError is not caught, so the row stays running either way.
Crash ==
  /\ phase # "down"
  /\ crashes < MaxCrashes
  /\ crashes' = crashes + 1
  /\ phase' = "down"
  /\ current' = NoJob
  /\ wake' = FALSE
  /\ posting' = FALSE
  /\ live' = FALSE
  /\ UNCHANGED <<jobs, meetings>>

Start_NoRequeue ==
  /\ phase = "down"
  /\ jobs' = jobs
  /\ phase' = "scan"
  /\ UNCHANGED <<current, wake, posting, live, bounds>>

\* start(): what was mid-flight is queued again and the worker task created.
Start ==
  /\ phase = "down"
  /\ jobs' = Requeued(jobs)
  /\ phase' = "scan"
  /\ UNCHANGED <<current, wake, posting, live, bounds>>

Worker ==
  \/ \E j \in JobId : StartJob(j) \/ RefuseJob(j)
  \/ FindNothing \/ ClearWake \/ WakeUp

HandlerSettles == \E status \in {"done", "failed"} : HandlerEnds(status)

Next ==
  \/ \E kind \in Kinds, s \in Subjects : Enqueue(kind, s)
  \/ \E s \in Subjects : ThreadInsert(s) \/ StopMeeting(s)
  \/ ThreadWake \/ StartMeeting
  \/ Worker \/ PollTimeout \/ HandlerSettles
  \/ Crash \/ Start

Spec == Init /\ [][Next]_vars

\* The loop schedules its ready tasks, wait_for times out, every handler ends
\* (all model calls have timeouts) and a dead service is started again.
Fairness ==
  /\ WF_vars(Worker)
  /\ WF_vars(PollTimeout)
  /\ WF_vars(HandlerSettles)
  /\ WF_vars(Start)

FairSpec == Spec /\ Fairness

-----------------------------------------------------------------------------
\* Properties.

TypeOK ==
  /\ jobs \in Table
  /\ phase \in Phases
  /\ current \in JobId \cup {NoJob}
  /\ wake \in BOOLEAN
  /\ posting \in BOOLEAN
  /\ live \in BOOLEAN
  /\ crashes \in 0 .. MaxCrashes
  /\ meetings \in 0 .. MaxMeetings

\* "One worker - one heavy thing at a time": while the worker exists, the rows
\* marked running are exactly the one whose handler it awaits, also after a
\* crash left a row running.  A row left running would never be tried again.
RunningIsCurrent ==
  phase # "down" => InStatus(jobs, "running") =
                    (IF phase = "run" THEN {current} ELSE {})

\* No heavy job starts in a step taken while a meeting is live (queue.py:4-5).
HeavyYieldsToLive ==
  [][\A j \in JobId :
       (jobs[j].status = "queued" /\ jobs'[j].status = "running"
          /\ jobs[j].kind \in HEAVY_KINDS) => ~live]_vars

\* A row that has been inserted settles, if meetings do not go on for ever:
\* also when its wake-up was lost to the worker's clear(), and when the process
\* died while it was running.
EveryJobSettles ==
  (<>[]~live) =>
    \A j \in JobId : (jobs[j].status # "absent") ~> Settled(jobs, j)

\* The queue implements the ledger: nothing accepted is lost, at most one job
\* is executed at a time, an outcome is final.
Accepted == AcceptedIn(jobs)
Outcome  == OutcomesIn(jobs)

Ledger == INSTANCE WorkLedger WITH
  Jobs <- JobId, NoOne <- NoJob,
  accepted <- Accepted, executing <- current, outcome <- Outcome

LedgerSpec == Ledger!Spec
=============================================================================
