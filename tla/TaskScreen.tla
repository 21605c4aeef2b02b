----------------------------- MODULE TaskScreen -------------------------------
(***************************************************************************)
(* The follow-up page (ActionItemsPage.tsx) and its routes                 *)
(* (api/action_items.py): a click on the status of a task sends the status *)
(* after the one on screen, and then fetches the list again.  Other        *)
(* devices change the tasks as well, and no button is ever disabled.       *)
(***************************************************************************)
EXTENDS Naturals

CONSTANTS
    Tasks,
    MaxCycles,    \* bound: clicks on one visit of the page
    MaxDevices    \* bound: changes from other devices

ASSUME TasksAssumption == MaxCycles \in Nat /\ MaxDevices \in Nat

VARIABLES
    items,        \* the list on screen, if any
    taskError,    \* an error; it hides the list and is never cleared
    cycling,      \* cycling[k]: the handler of click k; 0 is the mount
    taskStatus,   \* server: action_items.status
    devices,      \* changes from other devices so far
    stale,        \* ghost: since a list was fetched alone, handlers overlapped,
                  \*        one failed, or another device changed a task
    skipped       \* ghost: with a list that is not stale, a click moved a task
                  \*        by something else than one status

taskVars == <<items, taskError, cycling, taskStatus, devices, stale, skipped>>

TaskStatuses == {"open", "done", "dropped"}
Cycles       == 0 .. MaxCycles
Resting      == [task |-> {}, want |-> "open", at |-> "idle", got |-> {}]

Cycling(k) == cycling[k].at \notin {"idle", "over"}
Lonely(k)  == \A j \in Cycles \ {k} : ~Cycling(j)

NextStatus(s) == IF s = "open" THEN "done" ELSE IF s = "done" THEN "dropped" ELSE "open"

(* An error hides the list, and so does a load that has not ended. *)
TasksVisible == items # {} /\ ~taskError

TasksInit ==
    /\ items = {} /\ taskError = FALSE
    /\ cycling = [k \in Cycles |-> IF k = 0 THEN [Resting EXCEPT !.at = "listing"]
                                   ELSE Resting]
    /\ taskStatus = [t \in Tasks |-> "open"]
    /\ devices = 0 /\ stale = FALSE /\ skipped = FALSE

(* cycle: of the status on screen *)
ClickCycle(k, t) ==
    /\ TasksVisible
    /\ k > 0 /\ cycling[k] = Resting /\ \A j \in Cycles : j < k => cycling[j] # Resting
    /\ \E list \in items :
         cycling' = [cycling EXCEPT ![k] =
            [Resting EXCEPT !.task = {t}, !.want = NextStatus(list[t]), !.at = "asked"]]
    /\ stale' = (stale \/ ~Lonely(k))
    /\ UNCHANGED <<items, taskError, taskStatus, devices, skipped>>

(* update_item writes what it is sent. *)
CycleHandled(k) ==
    /\ cycling[k].at = "asked"
    /\ \E t \in cycling[k].task :
         /\ taskStatus' = [taskStatus EXCEPT ![t] = cycling[k].want]
         /\ skipped' = (skipped \/ (~stale /\ cycling[k].want # NextStatus(taskStatus[t])))
    /\ cycling' = [cycling EXCEPT ![k].at = "answered"]
    /\ UNCHANGED <<items, taskError, devices, stale>>

(* The answer has arrived and the list is fetched: list_items. *)
TasksListed(k) ==
    /\ cycling[k].at \in {"answered", "listing"}
    /\ cycling' = [cycling EXCEPT ![k].at = "listed", ![k].got = {taskStatus}]
    /\ stale' = ~Lonely(k)
    /\ UNCHANGED <<items, taskError, taskStatus, devices, skipped>>

TasksShown(k) ==
    /\ cycling[k].at = "listed"
    /\ items' = cycling[k].got
    /\ cycling' = [cycling EXCEPT ![k].at = "over", ![k].got = {}]
    /\ UNCHANGED <<taskError, taskStatus, devices, stale, skipped>>

(* A change that fails, or whose answer is lost, goes unseen and fetches no *)
(* list; a list that fails shows the error and nothing else any more.       *)
CycleFails(k) ==
    /\ Cycling(k)
    /\ taskError' \in IF cycling[k].at = "asked" THEN {taskError}
                      ELSE IF cycling[k].at = "answered" THEN {taskError, TRUE} ELSE {TRUE}
    /\ cycling' = [cycling EXCEPT ![k].at = "over", ![k].got = {}]
    /\ stale' = TRUE
    /\ UNCHANGED <<items, taskStatus, devices, skipped>>

OtherDevice(t, s) ==
    /\ devices < MaxDevices /\ devices' = devices + 1
    /\ taskStatus' = [taskStatus EXCEPT ![t] = s]
    /\ stale' = TRUE
    /\ UNCHANGED <<items, taskError, cycling, skipped>>

TasksNext ==
    \/ \E k \in Cycles :
         \/ \E t \in Tasks : ClickCycle(k, t)
         \/ CycleHandled(k) \/ TasksListed(k) \/ TasksShown(k) \/ CycleFails(k)
    \/ \E t \in Tasks, s \in TaskStatuses : OtherDevice(t, s)

TasksTypeOK ==
    /\ items \subseteq [Tasks -> TaskStatuses] /\ taskError \in BOOLEAN
    /\ \A k \in Cycles : /\ cycling[k].task \subseteq Tasks
                         /\ cycling[k].want \in TaskStatuses
    /\ taskStatus \in [Tasks -> TaskStatuses]
    /\ devices \in 0 .. MaxDevices /\ stale \in BOOLEAN /\ skipped \in BOOLEAN

(* A list at rest that nothing came between is the server's, and a click on *)
(* such a list moves the task to the next status and no further.            *)
TasksAreShown ==
    /\ (~stale /\ \A k \in Cycles : ~Cycling(k)) => items = {taskStatus}
    /\ ~skipped

=============================================================================
