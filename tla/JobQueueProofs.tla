--------------------------- MODULE JobQueueProofs ---------------------------
(***************************************************************************)
(* Proofs about JobQueue for any number of rows, crashes and meetings.     *)
(***************************************************************************)
EXTENDS JobQueue, JobTableProofs

USE QueueAssumptions, MaxJobsAssumption
USE DEF QueueAssumptions, MaxJobsAssumption

-----------------------------------------------------------------------------
\* Type correctness and the worker's hold on the running row.

Inv ==
  /\ TypeOK
  /\ RunningIsCurrent
  /\ (phase = "run") <=> (current # NoJob)

LEMMA InitInv == Init => Inv
<1> SUFFICES ASSUME Init PROVE Inv
  OBVIOUS
<1>1. jobs \in Table
  BY DEF Init, Table, EmptyTable
<1>2. crashes \in 0 .. MaxCrashes /\ meetings \in 0 .. MaxMeetings
  BY DEF Init
<1>. QED
  BY <1>1, <1>2 DEF Init, Inv, TypeOK, RunningIsCurrent, Phases

LEMMA NextInv == Inv /\ [Next]_vars => Inv'
<1> SUFFICES ASSUME Inv, [Next]_vars PROVE Inv'
  OBVIOUS
<1> USE DEF Inv, TypeOK, RunningIsCurrent, Phases, NoJob, InStatus, bounds
<1>1. ASSUME NEW k \in Kinds, NEW s \in Subjects, Enqueue(k, s) PROVE Inv'
  <2>1. PICK j \in JobId : IsNextId(jobs, j) /\ jobs' = Inserted(jobs, j, k, s)
    BY <1>1 DEF Enqueue
  <2>2. jobs[j].status = "absent"
    BY <2>1 DEF IsNextId
  <2>. QED  BY <1>1, <2>1, <2>2, InsertedProperties DEF Enqueue
<1>2. ASSUME NEW s \in Subjects, ThreadInsert(s) PROVE Inv'
  <2>1. PICK j \in JobId : /\ IsNextId(jobs, j)
                           /\ jobs' = Inserted(jobs, j, "backup_snapshot", s)
    BY <1>2 DEF ThreadInsert
  <2>2. jobs[j].status = "absent" /\ "backup_snapshot" \in Kinds
    BY <2>1 DEF IsNextId, Kinds
  <2>. QED  BY <1>2, <2>1, <2>2, InsertedProperties DEF ThreadInsert
<1>3. ASSUME NEW s \in Subjects, StopMeeting(s) PROVE Inv'
  <2>1. PICK j \in JobId : /\ IsNextId(jobs, j)
                           /\ jobs' = Inserted(jobs, j, "quality_pass", s)
    BY <1>3 DEF StopMeeting
  <2>2. jobs[j].status = "absent" /\ "quality_pass" \in Kinds
    BY <2>1 DEF IsNextId, Kinds
  <2>3. jobs' \in Table /\ InStatus(jobs', "running") = InStatus(jobs, "running")
    BY <2>1, <2>2, InsertedProperties
  <2>. QED  BY <1>3, <2>3 DEF StopMeeting
<1>4. CASE ThreadWake
  BY <1>4 DEF ThreadWake
<1>5. CASE StartMeeting
  BY <1>5 DEF StartMeeting
<1>6. ASSUME NEW j \in JobId, StartJob(j) PROVE Inv'
  <2>1. jobs[j].status = "queued" /\ "running" \in Statuses /\ j # NoJob
    BY <1>6 DEF StartJob, IsNextJob, IsHead, Statuses, JobId
  <2>. QED  BY <1>6, <2>1, MarkedProperties DEF StartJob
<1>7. ASSUME NEW j \in JobId, RefuseJob(j) PROVE Inv'
  <2>1. jobs[j].status = "queued" /\ "failed" \in Statuses
    BY <1>7 DEF RefuseJob, IsNextJob, IsHead, Statuses
  <2>. QED  BY <1>7, <2>1, MarkedProperties DEF RefuseJob
<1>8. CASE FindNothing
  BY <1>8 DEF FindNothing
<1>9. CASE ClearWake
  BY <1>9 DEF ClearWake
<1>10. CASE WakeUp \/ PollTimeout
  BY <1>10 DEF WakeUp, PollTimeout
<1>11. ASSUME NEW st \in {"done", "failed"}, HandlerEnds(st) PROVE Inv'
  <2>1. /\ current \in JobId
        /\ jobs[current].status = "running"
        /\ st \in Statuses
    BY <1>11 DEF HandlerEnds, Statuses
  <2>. QED  BY <1>11, <2>1, MarkedProperties DEF HandlerEnds
<1>12. CASE Crash
  <2>1. crashes' \in 0 .. MaxCrashes
    BY <1>12 DEF Crash
  <2>. QED  BY <1>12, <2>1 DEF Crash
<1>13. CASE Start
  BY <1>13, RequeuedProperties DEF Start
<1>14. CASE UNCHANGED vars
  BY <1>14 DEF vars
<1>. QED
  BY <1>1, <1>2, <1>3, <1>4, <1>5, <1>6, <1>7, <1>8, <1>9, <1>10, <1>11, <1>12,
     <1>13, <1>14 DEF Next, Worker, HandlerSettles

LEMMA SpecInv == Spec => []Inv
  BY InitInv, NextInv, PTL DEF Spec

\* The table, the worker and the counters keep their types.
THEOREM TypeCorrect == Spec => []TypeOK
  BY SpecInv, PTL DEF Inv

\* Exactly the awaited job is marked running while the worker exists: no two
\* jobs execute at once, and a crash leaves no row behind that nobody retries.
THEOREM OneAtATime == Spec => []RunningIsCurrent
  BY SpecInv, PTL DEF Inv
-----------------------------------------------------------------------------
\* Heavy jobs and the live meeting.

\* What a step of the queue does to the status of one row.
LEMMA OnlyStartRuns ==
  ASSUME Inv, Next, NEW i \in JobId,
         jobs[i].status = "queued", jobs'[i].status = "running"
  PROVE  StartJob(i)
<1> USE DEF Inv, TypeOK, InStatus, bounds
<1>1. CASE \E k \in Kinds, s \in Subjects : Enqueue(k, s)
  <2>1. PICK j \in JobId, k \in Kinds, s \in Subjects :
               jobs' = Inserted(jobs, j, k, s)
    BY <1>1 DEF Enqueue
  <2>. QED  BY <2>1, InsertedProperties
<1>2. CASE \E s \in Subjects : ThreadInsert(s) \/ StopMeeting(s)
  <2>1. PICK j \in JobId, k \in {"backup_snapshot", "quality_pass"}, s \in Subjects :
               jobs' = Inserted(jobs, j, k, s)
    BY <1>2 DEF ThreadInsert, StopMeeting
  <2>2. k \in Kinds
    BY DEF Kinds
  <2>. QED  BY <2>1, <2>2, InsertedProperties
<1>3. CASE ThreadWake \/ StartMeeting \/ FindNothing \/ ClearWake \/ WakeUp
             \/ PollTimeout \/ Crash
  BY <1>3 DEF ThreadWake, StartMeeting, FindNothing, ClearWake, WakeUp,
              PollTimeout, Crash
<1>4. ASSUME NEW j \in JobId, StartJob(j) \/ RefuseJob(j) PROVE StartJob(i)
  <2>1. jobs[j].status = "queued"
    BY <1>4 DEF StartJob, RefuseJob, IsNextJob, IsHead
  <2>2. CASE StartJob(j)
    <3>1. jobs' = Marked(jobs, j, "running") /\ "running" \in Statuses
      BY <2>2 DEF StartJob, Statuses
    <3>2. i = j
      BY <2>1, <3>1, MarkedProperties
    <3>. QED  BY <2>2, <3>2
  <2>3. CASE RefuseJob(j)
    <3>1. jobs' = Marked(jobs, j, "failed") /\ "failed" \in Statuses
      BY <2>3 DEF RefuseJob, Statuses
    <3>. QED  BY <2>1, <3>1, MarkedProperties
  <2>. QED  BY <1>4, <2>2, <2>3
<1>5. ASSUME NEW st \in {"done", "failed"}, HandlerEnds(st) PROVE FALSE
  <2>1. /\ current \in JobId
        /\ jobs[current].status = "running"
        /\ st \in Statuses
    BY <1>5 DEF HandlerEnds, Statuses, RunningIsCurrent, NoJob
  <2>. QED  BY <1>5, <2>1, MarkedProperties DEF HandlerEnds
<1>6. CASE Start
  BY <1>6, RequeuedProperties DEF Start
<1>. QED
  BY <1>1, <1>2, <1>3, <1>4, <1>5, <1>6 DEF Next, Worker, HandlerSettles

\* However calls, wake-ups, crashes and meetings interleave, a heavy job is
\* never started in a step taken while a meeting is live.
THEOREM HeavyWaits == Spec => HeavyYieldsToLive
<1>1. Inv /\ [Next]_vars =>
        [\A j \in JobId :
           (jobs[j].status = "queued" /\ jobs'[j].status = "running"
              /\ jobs[j].kind \in HEAVY_KINDS) => ~live]_vars
  <2> SUFFICES ASSUME Inv, Next, NEW j \in JobId,
                      jobs[j].status = "queued", jobs'[j].status = "running",
                      jobs[j].kind \in HEAVY_KINDS
               PROVE  ~live
    BY DEF vars
  <2>1. StartJob(j)
    BY OnlyStartRuns
  <2>. QED  BY <2>1 DEF StartJob, IsNextJob
<1>. QED  BY <1>1, SpecInv, PTL DEF Spec, HeavyYieldsToLive

-----------------------------------------------------------------------------
\* The queue implements the ledger.

\* A step that inserts one row and leaves the worker alone accepts that row.
LEMMA InsertIsAccept ==
  ASSUME Inv, NEW j \in JobId, NEW k \in Kinds, NEW s \in Subjects,
         IsNextId(jobs, j), jobs' = Inserted(jobs, j, k, s), current' = current
  PROVE  Ledger!Accept(j)
  BY InsertAccepts DEF Inv, TypeOK, Ledger!Accept, Accepted, Outcome

LEMMA LedgerInit == Init => Ledger!Init
  BY EmptyAccepts DEF Init, Ledger!Init, Accepted, Outcome

LEMMA LedgerStep == Inv /\ [Next]_vars => [Ledger!Next]_Ledger!vars
<1> SUFFICES ASSUME Inv, [Next]_vars PROVE [Ledger!Next]_Ledger!vars
  OBVIOUS
<1> USE DEF Inv, TypeOK, Ledger!vars, Accepted, Outcome
<1>1. ASSUME NEW k \in Kinds, NEW s \in Subjects, Enqueue(k, s)
      PROVE  Ledger!Next
  BY <1>1, InsertIsAccept DEF Enqueue, Ledger!Next
<1>2. ASSUME NEW s \in Subjects, ThreadInsert(s) \/ StopMeeting(s)
      PROVE  Ledger!Next
  <2>1. "backup_snapshot" \in Kinds /\ "quality_pass" \in Kinds
    BY DEF Kinds
  <2>. QED  BY <1>2, <2>1, InsertIsAccept DEF ThreadInsert, StopMeeting, Ledger!Next
<1>3. ASSUME NEW j \in JobId, StartJob(j) PROVE Ledger!Next
  <2>1. jobs[j].status = "queued" /\ phase = "scan" /\ current' = j
    BY <1>3, NextJobProperties DEF StartJob
  <2>. QED  BY <1>3, <2>1, StartKeeps DEF StartJob, Ledger!Next, Ledger!Begin
<1>4. ASSUME NEW j \in JobId, RefuseJob(j) PROVE Ledger!Next
  <2>1. Pending(jobs, j) /\ phase = "scan"
    BY <1>4, NextJobProperties DEF RefuseJob, Pending
  <2>. QED  BY <1>4, <2>1, EndSettles DEF RefuseJob, Ledger!Next, Ledger!Reject
<1>5. ASSUME NEW st \in {"done", "failed"}, HandlerEnds(st) PROVE Ledger!Next
  <2>1. current \in JobId /\ Pending(jobs, current)
    BY <1>5 DEF HandlerEnds, RunningIsCurrent, InStatus, NoJob, Pending
  <2>2. Ledger!Settle(current, st)
    BY <1>5, <2>1, EndSettles DEF HandlerEnds, Ledger!Settle
  <2>. QED  BY <2>1, <2>2 DEF Ledger!Next, Ledger!Outcomes
<1>6. CASE Crash
  BY <1>6 DEF Crash, Ledger!Next, Ledger!Abandon
<1>7. CASE Start
  BY <1>7, RequeueKeeps DEF Start
<1>8. CASE ThreadWake \/ StartMeeting \/ FindNothing \/ ClearWake \/ WakeUp
             \/ PollTimeout \/ UNCHANGED vars
  BY <1>8 DEF ThreadWake, StartMeeting, FindNothing, ClearWake, WakeUp, PollTimeout,
              vars
<1>. QED
  BY <1>1, <1>2, <1>3, <1>4, <1>5, <1>6, <1>7, <1>8 DEF Next, Worker, HandlerSettles

\* The queue keeps the ledger's promise: no accepted job is forgotten by a crash
\* or a lost wake-up, one is executed at a time, and no outcome is undone.
THEOREM ImplementsLedger == Spec => LedgerSpec
  BY LedgerInit, LedgerStep, SpecInv, PTL DEF Spec, LedgerSpec, Ledger!Spec
=============================================================================
