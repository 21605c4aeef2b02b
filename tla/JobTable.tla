------------------------------ MODULE JobTable ------------------------------
(***************************************************************************)
(* The `jobs` table of the server's SQLite journal, as pure operators on a *)
(* table value: what one SQL statement of jobs/queue.py makes of it.  Rows *)
(* are never deleted and ids are AUTOINCREMENT, so a table is a function   *)
(* on the ids that holds NoRow where nothing has been inserted yet.        *)
(***************************************************************************)
EXTENDS Integers, FiniteSets

CONSTANTS Subjects,   \* what a payload names: a meeting, a document, an actor
          MaxJobs     \* bound: how many rows the table can hold

ASSUME MaxJobsAssumption == MaxJobs \in Nat

\* The kinds that occur as literals in the server.  Nothing registers a handler
\* for summarize_meeting (main.py), but HEAVY_KINDS names it.
Kinds == {"quality_pass", "index_transcript", "index_document",
          "backup_snapshot", "summarize_meeting"}

\* Jobs that must yield to a live meeting.
HEAVY_KINDS == {"quality_pass", "summarize_meeting",
                "index_transcript", "index_document"}

\* The priority every caller of enqueue gives to the kind (session.py:162,193,
\* quality_pass.py:153, documents.py:51, platform_ops.py:169; 5 is the default);
\* smaller is sooner.
Priority == [k \in Kinds |-> IF k = "quality_pass"         THEN 2
                             ELSE IF k = "backup_snapshot" THEN 7
                             ELSE IF k = "summarize_meeting" THEN 5
                             ELSE 6]

JobId == 1 .. MaxJobs
NoJob == 0
Statuses == {"queued", "running", "done", "failed"}
Row   == [kind : Kinds, subject : Subjects, status : Statuses]
NoRow == [status |-> "absent"]
Table == [JobId -> Row \cup {NoRow}]
EmptyTable == [j \in JobId |-> NoRow]

InStatus(js, s) == {j \in JobId : js[j].status = s}
Settled(js, j)  == js[j].status \in {"done", "failed"}
Pending(js, j)  == js[j].status \in {"queued", "running"}

\* What the journal says to those who asked for work: what was taken on, and how
\* it ended.
AcceptedIn(js) == JobId \ InStatus(js, "absent")
OutcomesIn(js) == [j \in JobId |-> IF Settled(js, j) THEN js[j].status ELSE "none"]

\* The id the next INSERT is given.
IsNextId(js, j) ==
  /\ j \in InStatus(js, "absent")
  /\ \A i \in InStatus(js, "absent") : j <= i

Inserted_BadDefault(js, j, kind, subject) ==
  [js EXCEPT ![j] = [kind |-> kind, subject |-> subject, status |-> "pending"]]

\* INSERT INTO jobs(kind, payload, priority): queued is the column's default.
Inserted(js, j, kind, subject) ==
  [js EXCEPT ![j] = [kind |-> kind, subject |-> subject, status |-> "queued"]]

Marked(js, j, status) == [js EXCEPT ![j].status = status]

RequeuedAll(js) ==
  [j \in JobId |-> IF js[j].status = "absent" THEN NoRow
                   ELSE [js[j] EXCEPT !.status = "queued"]]

RequeuedNone(js) == js

\* UPDATE jobs SET status='queued' WHERE status='running'
Requeued(js) ==
  [j \in JobId |-> IF js[j].status = "running"
                   THEN [js[j] EXCEPT !.status = "queued"] ELSE js[j]]

\* ORDER BY priority, id
Precedes(js, i, j) ==
  \/ Priority[js[i].kind] < Priority[js[j].kind]
  \/ Priority[js[i].kind] = Priority[js[j].kind] /\ i < j

IsHead(js, j) ==
  /\ j \in InStatus(js, "queued")
  /\ \A i \in InStatus(js, "queued") \ {j} : Precedes(js, j, i)

IsNextJob_IgnoresLive(js, live, j) == IsHead(js, j)

\* The job _next_job returns: the head of the queue and nothing behind it, so a
\* heavy head makes every job wait while a meeting is live.
IsNextJob(js, live, j) ==
  /\ IsHead(js, j)
  /\ ~ (js[j].kind \in HEAVY_KINDS /\ live)
=============================================================================
