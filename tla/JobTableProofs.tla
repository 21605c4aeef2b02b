--------------------------- MODULE JobTableProofs ---------------------------
(***************************************************************************)
(* What the statements of jobs/queue.py do to a table, for any number of   *)
(* rows.  Cited wherever a step changes the journal.                       *)
(***************************************************************************)
EXTENDS JobTable, TLAPS

\* The id of an INSERT is free.
LEMMA NextIdProperties ==
  ASSUME NEW js, NEW j \in JobId, IsNextId(js, j)
  PROVE  js[j].status = "absent"
  BY DEF IsNextId, InStatus

\* What the worker picks is queued.
LEMMA NextJobProperties ==
  ASSUME NEW js, NEW live, NEW j \in JobId, IsNextJob(js, live, j)
  PROVE  js[j].status = "queued"
  BY DEF IsNextJob, IsHead, InStatus

\* A row that is not absent has all its columns.
LEMMA RowProperties ==
  ASSUME NEW js \in Table, NEW j \in JobId, js[j].status # "absent"
  PROVE  /\ js[j] \in Row
         /\ js[j].kind \in Kinds
         /\ js[j].subject \in Subjects
         /\ js[j].status \in Statuses
  BY DEF Table, Row, NoRow

\* An INSERT keeps the table well formed, fills its row as asked and changes no
\* other.
LEMMA InsertedProperties ==
  ASSUME NEW js \in Table, NEW j \in JobId, NEW k \in Kinds, NEW s \in Subjects
  PROVE  /\ Inserted(js, j, k, s) \in Table
         /\ Inserted(js, j, k, s)[j].status = "queued"
         /\ Inserted(js, j, k, s)[j].kind = k
         /\ Inserted(js, j, k, s)[j].subject = s
         /\ \A i \in JobId : i # j => Inserted(js, j, k, s)[i] = js[i]
  BY DEF Inserted, Table, Row, NoRow, Statuses

\* An UPDATE of the status keeps the table well formed, the other columns and the
\* other rows.
LEMMA MarkedProperties ==
  ASSUME NEW js \in Table, NEW j \in JobId, js[j].status # "absent",
         NEW st \in Statuses
  PROVE  /\ Marked(js, j, st) \in Table
         /\ Marked(js, j, st)[j].status = st
         /\ Marked(js, j, st)[j].kind = js[j].kind
         /\ Marked(js, j, st)[j].subject = js[j].subject
         /\ \A i \in JobId : i # j => Marked(js, j, st)[i] = js[i]
  BY DEF Marked, Table, Row, NoRow, Statuses

\* The recovery UPDATE leaves no row running and every other row alone.
LEMMA RequeuedProperties ==
  ASSUME NEW js \in Table
  PROVE  /\ Requeued(js) \in Table
         /\ \A i \in JobId :
              IF js[i].status = "running"
              THEN /\ Requeued(js)[i].status = "queued"
                   /\ Requeued(js)[i].kind = js[i].kind
                   /\ Requeued(js)[i].subject = js[i].subject
              ELSE Requeued(js)[i] = js[i]
<1>1. \A i \in JobId : js[i].status = "running" => js[i] \in Row
  BY DEF Table, NoRow
<1>2. \A r \in Row : /\ [r EXCEPT !.status = "queued"] \in Row
                     /\ [r EXCEPT !.status = "queued"].status = "queued"
                     /\ [r EXCEPT !.status = "queued"].kind = r.kind
                     /\ [r EXCEPT !.status = "queued"].subject = r.subject
  BY DEF Row, Statuses
<1>. QED  BY <1>1, <1>2 DEF Requeued, Table

-----------------------------------------------------------------------------
\* What the statements mean to those who asked for the work.

\* An INSERT accepts one job and changes no outcome.
LEMMA InsertAccepts ==
  ASSUME NEW js \in Table, NEW j \in JobId, NEW k \in Kinds, NEW s \in Subjects,
         IsNextId(js, j)
  PROVE  /\ j \notin AcceptedIn(js)
         /\ AcceptedIn(Inserted(js, j, k, s)) = AcceptedIn(js) \cup {j}
         /\ OutcomesIn(Inserted(js, j, k, s)) = OutcomesIn(js)
<1>1. js[j].status = "absent"
  BY NextIdProperties
<1>2. j \notin AcceptedIn(js)
      /\ AcceptedIn(Inserted(js, j, k, s)) = AcceptedIn(js) \cup {j}
  BY <1>1, InsertedProperties DEF AcceptedIn, InStatus
<1>3. \A i \in JobId : OutcomesIn(Inserted(js, j, k, s))[i] = OutcomesIn(js)[i]
  BY <1>1, InsertedProperties DEF OutcomesIn, Settled
<1>. QED  BY <1>2, <1>3 DEF OutcomesIn

\* Starting a queued job changes neither.
LEMMA StartKeeps ==
  ASSUME NEW js \in Table, NEW j \in JobId, js[j].status = "queued"
  PROVE  /\ j \in AcceptedIn(js) /\ OutcomesIn(js)[j] = "none"
         /\ AcceptedIn(Marked(js, j, "running")) = AcceptedIn(js)
         /\ OutcomesIn(Marked(js, j, "running")) = OutcomesIn(js)
<1>1. "running" \in Statuses
  BY DEF Statuses
<1>2. j \in AcceptedIn(js) /\ OutcomesIn(js)[j] = "none"
  BY DEF AcceptedIn, OutcomesIn, InStatus, Settled
<1>3. AcceptedIn(Marked(js, j, "running")) = AcceptedIn(js)
  BY <1>1, MarkedProperties DEF AcceptedIn, InStatus
<1>4. \A i \in JobId : OutcomesIn(Marked(js, j, "running"))[i] = OutcomesIn(js)[i]
  BY <1>1, MarkedProperties DEF OutcomesIn, Settled
<1>. QED  BY <1>2, <1>3, <1>4 DEF OutcomesIn

\* Marking a pending job with a final status settles it and nothing else.
LEMMA EndSettles ==
  ASSUME NEW js \in Table, NEW j \in JobId, Pending(js, j), NEW st \in {"done", "failed"}
  PROVE  /\ j \in AcceptedIn(js) /\ OutcomesIn(js)[j] = "none"
         /\ AcceptedIn(Marked(js, j, st)) = AcceptedIn(js)
         /\ OutcomesIn(Marked(js, j, st)) = [OutcomesIn(js) EXCEPT ![j] = st]
<1> USE DEF Pending
<1>1. st \in Statuses /\ js[j].status # "absent" /\ st # "absent"
  BY DEF Statuses
<1>2. j \in AcceptedIn(js) /\ OutcomesIn(js)[j] = "none"
  BY DEF AcceptedIn, OutcomesIn, InStatus, Settled
<1>3. AcceptedIn(Marked(js, j, st)) = AcceptedIn(js)
  BY <1>1, MarkedProperties DEF AcceptedIn, InStatus
<1>4. \A i \in JobId : OutcomesIn(Marked(js, j, st))[i]
                         = (IF i = j THEN st ELSE OutcomesIn(js)[i])
  BY <1>1, MarkedProperties DEF OutcomesIn, Settled
<1>. QED  BY <1>2, <1>3, <1>4 DEF OutcomesIn

\* The recovery UPDATE forgets no row and undoes no outcome.
LEMMA RequeueKeeps ==
  ASSUME NEW js \in Table
  PROVE  /\ AcceptedIn(Requeued(js)) = AcceptedIn(js)
         /\ OutcomesIn(Requeued(js)) = OutcomesIn(js)
<1>1. AcceptedIn(Requeued(js)) = AcceptedIn(js)
  BY RequeuedProperties DEF AcceptedIn, InStatus
<1>2. \A i \in JobId : OutcomesIn(Requeued(js))[i] = OutcomesIn(js)[i]
  BY RequeuedProperties DEF OutcomesIn, Settled
<1>. QED  BY <1>1, <1>2 DEF OutcomesIn

\* An empty journal has promised nothing.
LEMMA EmptyAccepts ==
  AcceptedIn(EmptyTable) = {} /\ OutcomesIn(EmptyTable) = [j \in JobId |-> "none"]
<1>1. \A j \in JobId : EmptyTable[j].status = "absent"
  BY DEF EmptyTable, NoRow
<1>. QED  BY <1>1 DEF AcceptedIn, OutcomesIn, InStatus, Settled
=============================================================================
