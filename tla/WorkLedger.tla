----------------------------- MODULE WorkLedger -----------------------------
(***************************************************************************)
(* What the background queue promises its callers, without priorities,     *)
(* meetings, wake-ups or crashes: a job once accepted is never forgotten,  *)
(* at most one is executed at a time, an execution may be abandoned and    *)
(* the job tried again, and the outcome of a job is final.                 *)
(***************************************************************************)
CONSTANTS Jobs, NoOne

VARIABLES accepted,   \* the jobs the journal holds
          executing,  \* the job the worker is executing, or NoOne
          outcome     \* per job: "none" until it settles, then its result

vars == <<accepted, executing, outcome>>

Outcomes == {"done", "failed"}

Init ==
  /\ accepted = {}
  /\ executing = NoOne
  /\ outcome = [j \in Jobs |-> "none"]

Accept(j) ==
  /\ j \notin accepted
  /\ accepted' = accepted \cup {j}
  /\ UNCHANGED <<executing, outcome>>

Begin(j) ==
  /\ executing = NoOne
  /\ j \in accepted
  /\ outcome[j] = "none"
  /\ executing' = j
  /\ UNCHANGED <<accepted, outcome>>

Settle(j, o) ==
  /\ executing = j
  /\ outcome[j] = "none"
  /\ outcome' = [outcome EXCEPT ![j] = o]
  /\ executing' = NoOne
  /\ UNCHANGED accepted

\* A job nobody can execute settles as failed without being executed.
Reject(j) ==
  /\ executing = NoOne
  /\ j \in accepted
  /\ outcome[j] = "none"
  /\ outcome' = [outcome EXCEPT ![j] = "failed"]
  /\ UNCHANGED <<accepted, executing>>

Abandon ==
  /\ executing # NoOne
  /\ executing' = NoOne
  /\ UNCHANGED <<accepted, outcome>>

Next ==
  \/ \E j \in Jobs : Accept(j) \/ Begin(j) \/ Reject(j)
  \/ \E j \in Jobs, o \in Outcomes : Settle(j, o)
  \/ Abandon

Spec == Init /\ [][Next]_vars
=============================================================================
