--------------------------- MODULE MeetingScreen ----------------------------
(***************************************************************************)
(* The page of one meeting (MeetingPage.tsx): what it shows while the      *)
(* quality pass runs at the server.  The component stays mounted when the  *)
(* URL goes from one meeting to another, and neither a load nor a poll, a  *)
(* new speaker name or a note is cancelled: the answers are shown whatever *)
(* the URL says by then.                                                   *)
(***************************************************************************)
EXTENDS Naturals, FiniteSets

CONSTANTS
    Meetings,
    Nowhere,     \* no meeting page is open
    MaxLoads,    \* bound: loads, and polls, in flight
    MaxEdits,    \* bound: edits in flight
    MaxMoves,    \* bound: changes of the URL on one visit
    MaxLost      \* bound: loads and polls that fail on one visit

ASSUME PageAssumption ==
    /\ Meetings # {} /\ Nowhere \notin Meetings
    /\ MaxLoads \in Nat \ {0} /\ MaxEdits \in Nat /\ MaxMoves \in Nat /\ MaxLost \in Nat

VARIABLES
    url,       \* the meeting id of the URL, or Nowhere
    on,        \* meeting, segments and notes on screen: at most one view
    failed,    \* error of the page; it hides everything and is never cleared
    ticking,   \* the interval of the poll runs
    loads,     \* loads in flight
    polls,     \* polls in flight
    edits,     \* new speaker names and notes in flight
    status,    \* server: meetings.status
    text,      \* server: the segments of the quality pass
    crossed,   \* ghost: a load or an edit on screen was begun before the URL changed
    moves, lost

pageVars == <<url, on, failed, ticking, loads, polls, edits, crossed, moves, lost>>
meetingVars == <<pageVars, status, text>>

Statuses == {"live", "processing", "done", "failed"}
Texts    == {"none", "part", "all"}

(* A load: the status and the segments are read by two requests, each       *)
(* perhaps still to be handled by the server; an edit: after the change, the*)
(* segments or the notes are read; old: the URL has changed since it was    *)
(* begun.                                                                   *)
Load(m)  == [of |-> m, status |-> "asked", text |-> "asked", old |-> FALSE]
Poll(m)  == [of |-> m, status |-> "asked", old |-> FALSE]
Edit(m, what) == [of |-> m, what |-> what, text |-> "asked", old |-> FALSE]
Loads    == [of : Meetings, status : Statuses \cup {"asked"},
             text : Texts \cup {"asked"}, old : BOOLEAN]
Polls    == [of : Meetings, status : Statuses \cup {"asked"}, old : BOOLEAN]
Edits    == [of : Meetings, what : {"name", "note"}, text : Texts \cup {"asked"},
             old : BOOLEAN]

(* On screen: the meeting, the meeting whose segments and the one whose     *)
(* notes they are                                                           *)
Views   == [of : Meetings, status : Statuses, said : Meetings, text : Texts,
            noted : Meetings]
View(l) == [of |-> l.of, status |-> l.status, said |-> l.of, text |-> l.text,
            noted |-> l.of]

(* What the URL has left behind *)
Aged(asked) == {[a EXCEPT !.old = TRUE] : a \in asked}

Processing(view) == \E v \in view : v.status = "processing"

PageClosed ==
    /\ url = Nowhere /\ on = {} /\ failed = FALSE /\ ticking = FALSE
    /\ loads = {} /\ polls = {} /\ edits = {} /\ crossed = FALSE /\ moves = 0 /\ lost = 0
    /\ status = [m \in Meetings |-> "done"] /\ text = [m \in Meetings |-> "all"]

-----------------------------------------------------------------------------
(* The user *)

(* The page is opened at a meeting that is live or being processed; which   *)
(* one makes no difference.                                                 *)
FirstMeeting == CHOOSE m \in Meetings : TRUE

OpenPage ==
    /\ url = Nowhere
    /\ url' = FirstMeeting /\ loads' = {Load(FirstMeeting)}
    /\ \E s \in {"live", "processing"} : status' = [status EXCEPT ![FirstMeeting] = s]
    /\ text' = [text EXCEPT ![FirstMeeting] = "none"]
    /\ UNCHANGED <<on, failed, ticking, polls, edits, crossed, moves, lost>>

MovePage_NoLoad(m) ==
    /\ url \notin {m, Nowhere} /\ moves < MaxMoves
    /\ url' = m /\ moves' = moves + 1
    /\ loads' = Aged(loads) /\ polls' = Aged(polls) /\ edits' = Aged(edits)
    /\ ticking' = Processing(on)
    /\ UNCHANGED <<on, failed, crossed, lost, status, text>>

(* Another meeting by a change of the URL alone: the state of the page      *)
(* stays, a load starts, and the interval is set anew.                      *)
MovePage(m) ==
    /\ url \notin {m, Nowhere} /\ moves < MaxMoves
    /\ Cardinality(loads) < MaxLoads
    /\ url' = m /\ moves' = moves + 1
    /\ loads' = Aged(loads) \cup {Load(m)}
    /\ polls' = Aged(polls) /\ edits' = Aged(edits)
    /\ ticking' = Processing(on)
    /\ UNCHANGED <<on, failed, crossed, lost, status, text>>

(* Any other page; answers on their way are not looked at any more, and     *)
(* with nobody looking, the pass is as good as over.                        *)
ClosePage ==
    /\ url # Nowhere
    /\ url' = Nowhere /\ on' = {} /\ failed' = FALSE /\ ticking' = FALSE
    /\ loads' = {} /\ polls' = {} /\ edits' = {} /\ crossed' = FALSE
    /\ moves' = 0 /\ lost' = 0
    /\ status' = [m \in Meetings |-> "done"] /\ text' = [m \in Meetings |-> "all"]

-----------------------------------------------------------------------------
(* load(): requests in parallel, all of them or an error *)

LoadStep(l) ==
    /\ l \in loads
    /\ \/ /\ l.status = "asked"
          /\ loads' = (loads \ {l}) \cup {[l EXCEPT !.status = status[l.of]]}
       \/ /\ l.text = "asked"
          /\ loads' = (loads \ {l}) \cup {[l EXCEPT !.text = text[l.of]]}
    /\ UNCHANGED <<url, on, failed, ticking, polls, edits, crossed, moves, lost, status, text>>

(* A new status on screen starts the interval or ends it.                   *)
LoadShown(l) ==
    /\ l \in loads /\ l.status # "asked" /\ l.text # "asked"
    /\ on' = {View(l)}
    /\ ticking' = IF \E v \in on : v.status = l.status THEN ticking
                  ELSE l.status = "processing"
    /\ crossed' = l.old
    /\ loads' = loads \ {l}
    /\ UNCHANGED <<url, failed, polls, edits, moves, lost, status, text>>

LoadFailed(l) ==
    /\ l \in loads /\ lost < MaxLost
    /\ lost' = lost + 1 /\ failed' = TRUE
    /\ loads' = loads \ {l}
    /\ UNCHANGED <<url, on, ticking, polls, edits, crossed, moves, status, text>>

-----------------------------------------------------------------------------
(* The poll: an interval while the status on screen is processing, for the  *)
(* meeting of the URL.                                                      *)

Tick ==
    /\ ticking
    /\ Cardinality(polls) < MaxLoads
    /\ polls' = polls \cup {Poll(url)}
    /\ UNCHANGED <<url, on, failed, ticking, loads, edits, crossed, moves, lost, status, text>>

PollHandled(p) ==
    /\ p \in polls /\ p.status = "asked"
    /\ polls' = (polls \ {p}) \cup {[p EXCEPT !.status = status[p.of]]}
    /\ UNCHANGED <<url, on, failed, ticking, loads, edits, crossed, moves, lost, status, text>>

PollShown_OnlyStops(p) ==
    /\ p \in polls /\ p.status # "asked"
    /\ polls' = polls \ {p}
    /\ ticking' = (ticking /\ (p.old \/ p.status = "processing"))
    /\ UNCHANGED <<url, on, failed, loads, edits, crossed, moves, lost, status, text>>

(* A pass that is over ends the interval of the poll and is loaded, with    *)
(* the meeting of the poll.                                                 *)
PollShown(p) ==
    /\ p \in polls /\ p.status # "asked"
    /\ polls' = polls \ {p}
    /\ IF p.status = "processing"
       THEN UNCHANGED <<ticking, loads>>
       ELSE /\ Cardinality(loads) < MaxLoads
            /\ ticking' = (ticking /\ p.old)
            /\ loads' = loads \cup {[Load(p.of) EXCEPT !.old = p.old]}
    /\ UNCHANGED <<url, on, failed, edits, crossed, moves, lost, status, text>>

PollLost(p) ==
    /\ p \in polls /\ lost < MaxLost
    /\ lost' = lost + 1
    /\ polls' = polls \ {p}
    /\ UNCHANGED <<url, on, failed, ticking, loads, edits, crossed, moves, status, text>>

-----------------------------------------------------------------------------
(* relabel and addNote: the change is made for the meeting of the URL at the*)
(* click, then its segments or notes are fetched and shown.                 *)

ClickEdit(what) ==
    /\ on # {} /\ ~failed
    /\ what = "name" => \A v \in on : v.text # "none"
    /\ Cardinality(edits) < MaxEdits
    /\ edits' = edits \cup {Edit(url, what)}
    /\ UNCHANGED <<url, on, failed, ticking, loads, polls, crossed, moves, lost, status, text>>

EditHandled(e) ==
    /\ e \in edits /\ e.text = "asked"
    /\ edits' = (edits \ {e}) \cup {[e EXCEPT !.text = text[e.of]]}
    /\ UNCHANGED <<url, on, failed, ticking, loads, polls, crossed, moves, lost, status, text>>

EditShown(e) ==
    /\ e \in edits /\ e.text # "asked"
    /\ edits' = edits \ {e}
    /\ on' = {IF e.what = "name" THEN [v EXCEPT !.said = e.of, !.text = e.text]
              ELSE [v EXCEPT !.noted = e.of] : v \in on}
    /\ crossed' = (crossed \/ e.old)
    /\ UNCHANGED <<url, failed, ticking, loads, polls, moves, lost, status, text>>

(* One that fails leaves the page as it is. *)
EditFails(e) ==
    /\ e \in edits
    /\ edits' = edits \ {e}
    /\ UNCHANGED <<url, on, failed, ticking, loads, polls, crossed, moves, lost, status, text>>

-----------------------------------------------------------------------------
(* The server: the segments one by one, then the status *)

RecordingEnds(m) ==
    /\ url # Nowhere /\ status[m] = "live"
    /\ status' = [status EXCEPT ![m] = "processing"]
    /\ UNCHANGED <<pageVars, text>>

PassWrites(m) ==
    /\ status[m] = "processing" /\ text[m] # "all"
    /\ text' = [text EXCEPT ![m] = IF @ = "none" THEN "part" ELSE "all"]
    /\ UNCHANGED <<pageVars, status>>

PassOver(m) ==
    /\ status[m] = "processing"
    /\ \/ text[m] = "all" /\ status' = [status EXCEPT ![m] = "done"]
       \/ text[m] = "none" /\ status' = [status EXCEPT ![m] = "failed"]
    /\ UNCHANGED <<pageVars, text>>

LoadMoves == \E l \in loads : LoadStep(l)
LoadEnds  == \E l \in loads : LoadShown(l)
PollMoves == \E p \in polls : PollHandled(p)
PollEnds  == \E p \in polls : PollShown(p)

MeetingNext ==
    \/ OpenPage \/ ClosePage \/ Tick
    \/ \E m \in Meetings : MovePage(m) \/ RecordingEnds(m) \/ PassWrites(m) \/ PassOver(m)
    \/ LoadMoves \/ LoadEnds \/ \E l \in loads : LoadFailed(l)
    \/ PollMoves \/ PollEnds \/ \E p \in polls : PollLost(p)
    \/ \E what \in {"name", "note"} : ClickEdit(what)
    \/ \E e \in edits : EditHandled(e) \/ EditShown(e) \/ EditFails(e)

MeetingTypeOK ==
    /\ url \in Meetings \cup {Nowhere} /\ failed \in BOOLEAN
    /\ ticking \in BOOLEAN /\ crossed \in BOOLEAN
    /\ on \subseteq Views /\ Cardinality(on) <= 1
    /\ loads \subseteq Loads /\ polls \subseteq Polls /\ edits \subseteq Edits
    /\ Cardinality(loads) <= MaxLoads /\ Cardinality(polls) <= MaxLoads
    /\ moves \in 0 .. MaxMoves /\ lost \in 0 .. MaxLost
    /\ status \in [Meetings -> Statuses] /\ text \in [Meetings -> Texts]

(* The page shows the segments, the notes or the rest of another meeting    *)
(* than its URL only while that one is being loaded, when its load failed,  *)
(* or when a load, a new name or a note from before the URL changed came    *)
(* last: a note or a new speaker name goes to the meeting of the URL.       *)
ShownIsRouted ==
    \A v \in on : {v.of, v.said, v.noted} # {url} =>
        failed \/ crossed \/ \E l \in loads : l.of = url

(* A reader who watches a meeting being processed gets all of its           *)
(* transcript once the pass is done, or an error: a lost poll, polls that   *)
(* overlap or a load whose two halves are of different moments do not end   *)
(* the watch.  (A load from before the URL changed may.)  Of the meetings,  *)
(* the first is the one that is processed.                                  *)
Watched ==
    /\ url = FirstMeeting /\ status[FirstMeeting] = "done"
    /\ \E v \in on : v.of = FirstMeeting /\ v.status = "processing"

TranscriptArrives ==
    Watched ~> \/ url # FirstMeeting \/ failed \/ crossed
               \/ \E v \in on : v.said = FirstMeeting /\ v.text = "all"

=============================================================================
