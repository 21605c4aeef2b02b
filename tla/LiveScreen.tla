----------------------------- MODULE LiveScreen -----------------------------
(***************************************************************************)
(* The live-meeting screen of the web UI: LiveMeetingSection.tsx with its  *)
(* microphone stream (lib/mic.ts), the dashboard that mounts it            *)
(* (DashboardPage.tsx) and, of the server, what the screen talks to: the   *)
(* meeting row, the live session, the audio and the events socket.         *)
(*                                                                         *)
(* A section that is unmounted does not stop its handlers: an async        *)
(* function that waits for an answer goes on with the refs and closures of *)
(* the dead instance.  So the state of a start is kept per meeting, and    *)
(* alive[m] says whether the instance that began m is still mounted.       *)
(***************************************************************************)
EXTENDS Naturals, FiniteSets

CONSTANTS
    Meetings,    \* the meetings the screen may create, one per start
    NoMeeting,   \* meetingId === null
    MaxReloads,  \* bound: list requests of the dashboard in flight
    MaxTicks,    \* bound: status polls in flight for one meeting
    MaxClicks,   \* bound: finish() calls under way for one meeting
    MaxFaults    \* bound: requests lost, links dropped, stops that raise, server
                 \* restarts, finish() calls begun while another is under way

ASSUME MeetingsAssumption == Meetings \subseteq Nat /\ NoMeeting \notin Meetings
ASSUME BoundsAssumption ==
    /\ MaxReloads \in Nat \ {0} /\ MaxTicks \in Nat \ {0}
    /\ MaxClicks \in Nat \ {0} /\ MaxFaults \in Nat

VARIABLES
    page,         \* which view the browser is at, and what the dashboard renders
    reloads,      \* list requests in flight
    phase,        \* phase of the mounted section
    meetingId,    \* meetingId of the mounted section
    error,        \* the section shows an error
    step,         \* step[m]: the await at which begin() of m stands
    alive,        \* alive[m]: the section that began m is mounted
    held,         \* held[m]: that section's micRef holds the stream of m
    mic,          \* mic[m]: the microphone tracks of m
    link,         \* link[m]: the audio socket of m
    events,       \* events[m]: the events socket of m
    fin,          \* fin[m]: the awaits at which the finish() calls of m stand
    ticks,        \* ticks[m]: status polls of m in flight
    server,       \* server[m]: meetings.status
    sessions,     \* the meetings with a live session
    faults,       \* faults so far
    unsure,       \* ghost: meetings with a lost start or stop request
    leftEarly,    \* ghost: meetings whose section went away while starting
    unstopped,    \* ghost: meetings whose session went in a stop that raised
    asked,        \* ghost: meetings somebody asked to end
    cutShort      \* ghost: meetings whose section the page threw out

dashVars   == <<page, reloads>>
viewVars   == <<phase, meetingId, error>>
beginVars  == <<step, alive, leftEarly, cutShort>>
audioVars  == <<held, mic, link>>
serverVars == <<server, sessions, unstopped>>
vars == <<dashVars, viewVars, beginVars, audioVars, serverVars,
          events, fin, ticks, faults, unsure, asked>>

Pages    == {"loading", "shown", "broken", "elsewhere", "meeting"}
Phases   == {"setup", "starting", "recording", "processing"}
Clicks   == 1 .. MaxClicks
Statuses == {"none", "created", "live", "processing", "done", "failed"}
Ended    == {"processing", "done", "failed"}
Settled  == {"done", "failed"}
Steps    == {"idle", "create", "mics", "start", "media", "audio", "undo", "over"}
EventsStates ==
    {"none", "connecting", "accepting", "subscribed", "told", "deaf", "closed"}

(* The bounds of MaxReloads are saturating: a further request in flight is  *)
(* not told apart from the ones already there.                              *)
OneMore(n, bound) == IF n < bound THEN n + 1 ELSE n

Mounted == page = "shown"
Recording(m) == Mounted /\ phase = "recording" /\ meetingId = m
Processing(m) == Mounted /\ phase = "processing" /\ meetingId = m

(* Faults, and repeated clicks, share one budget. *)
Fault == faults < MaxFaults /\ faults' = faults + 1

Init ==
    /\ page = "loading" /\ reloads = 1
    /\ phase = "setup" /\ meetingId = NoMeeting /\ error = FALSE
    /\ step = [m \in Meetings |-> "idle"]
    /\ alive = [m \in Meetings |-> FALSE]
    /\ held = [m \in Meetings |-> FALSE]
    /\ mic = [m \in Meetings |-> "off"]
    /\ link = [m \in Meetings |-> "none"]
    /\ events = [m \in Meetings |-> "none"]
    /\ fin = [m \in Meetings |-> [c \in Clicks |-> "no"]]
    /\ ticks = [m \in Meetings |-> 0]
    /\ server = [m \in Meetings |-> "none"] /\ sessions = {}
    /\ faults = 0
    /\ unsure = {} /\ leftEarly = {} /\ asked = {} /\ cutShort = {} /\ unstopped = {}

-----------------------------------------------------------------------------
(* Effects shared by the handlers *)

(* MicStream.stop() of the meetings in M, as far as this tab can see it:    *)
(* the tracks stop and, over an open socket, the stop frame goes out.  A    *)
(* second stop() fails at ctx.close() and changes nothing.                  *)
StopMics(M) ==
    /\ mic' = [m \in Meetings |-> IF m \in M THEN "off" ELSE mic[m]]
    /\ link' = [m \in Meetings |->
                  IF m \in M /\ link[m] = "open" THEN "stopping" ELSE link[m]]
    /\ held' = [m \in Meetings |-> held[m] /\ m \notin M]

(* The section unmounts: its cleanup closes the events socket and stops the *)
(* stream the refs hold now; what begin() has still to put there is missed. *)
Unmount ==
    LET mine == {m \in Meetings : alive[m] /\ held[m]}
    IN /\ StopMics(mine)
       /\ events' = [m \in Meetings |->
                       IF alive[m] /\ events[m] # "none" THEN "closed" ELSE events[m]]
       /\ alive' = [m \in Meetings |-> FALSE]
       /\ leftEarly' = leftEarly \cup
                         {m \in Meetings : alive[m] /\ step[m] \notin {"idle", "over"}}
       /\ phase' = "setup" /\ meetingId' = NoMeeting /\ error' = FALSE

(* The page takes the section away without the user having asked for it.    *)
ThrowOut ==
    /\ Unmount
    /\ cutShort' = cutShort \cup {m \in Meetings : alive[m] /\ held[m]}

EndSession_Silent(m) ==
    /\ server' = [server EXCEPT ![m] = IF @ = "live" THEN "processing" ELSE @]
    /\ sessions' = sessions \ {m}
    /\ UNCHANGED <<events, unstopped>>

(* LiveSessionManager.stop: a session there is is closed, the subscribed    *)
(* events sockets get the ended event, the row is processing; without one   *)
(* nothing happens.                                                         *)
EndSession(m) ==
    IF m \in sessions
    THEN /\ sessions' = sessions \ {m}
         /\ server' = [server EXCEPT ![m] = "processing"]
         /\ events' = [events EXCEPT ![m] = IF @ = "subscribed" THEN "told" ELSE @]
         /\ UNCHANGED unstopped
    ELSE UNCHANGED <<serverVars, events>>

(* finish() raises: the session has been popped, and nothing else is done.  *)
EndFails(m) ==
    /\ m \in sessions /\ Fault
    /\ sessions' = sessions \ {m}
    /\ unstopped' = unstopped \cup {m}
    /\ UNCHANGED <<server, events>>

StopSession(m) == (EndSession(m) /\ UNCHANGED faults) \/ EndFails(m)

(* onMeetingsChanged: the dashboard refetches its lists, if it is there. *)
MeetingsChanged(m) ==
    reloads' = IF alive[m] THEN OneMore(reloads, MaxReloads) ELSE reloads

EnterProcessing_MicStaysOn(m) ==
    /\ events' = [events EXCEPT ![m] = "closed"]
    /\ UNCHANGED audioVars
    /\ phase' = IF alive[m] THEN "processing" ELSE phase
    /\ MeetingsChanged(m)

(* enterProcessing() of the section that began m *)
EnterProcessing(m) ==
    /\ events' = [events EXCEPT ![m] = "closed"]
    /\ IF held[m] THEN StopMics({m}) ELSE UNCHANGED audioVars
    /\ phase' = IF alive[m] THEN "processing" ELSE phase
    /\ MeetingsChanged(m)

-----------------------------------------------------------------------------
(* The dashboard *)

ListsAnswer_Unasked ==
    /\ reloads' = reloads - 1
    /\ page' = IF page = "loading" THEN "shown" ELSE page
    /\ UNCHANGED <<viewVars, beginVars, audioVars, serverVars,
                   events, fin, ticks, faults, unsure, asked>>

(* Promise.all of the two lists answers: the section is rendered.  An error *)
(* is never cleared, so a later good answer does not bring the section back.*)
ListsAnswer ==
    /\ reloads > 0
    /\ reloads' = reloads - 1
    /\ page' = IF page = "loading" THEN "shown" ELSE page
    /\ UNCHANGED <<viewVars, beginVars, audioVars, serverVars,
                   events, fin, ticks, faults, unsure, asked>>

(* The request fails: the page shows the error instead of everything else,  *)
(* which unmounts the section.                                              *)
ListsFail ==
    /\ reloads > 0 /\ Fault
    /\ reloads' = reloads - 1
    /\ page' = "broken"
    /\ IF Mounted
       THEN ThrowOut /\ UNCHANGED step
       ELSE UNCHANGED <<viewVars, beginVars, audioVars, events>>
    /\ UNCHANGED <<serverVars, fin, ticks, unsure, asked>>

(* The user goes to another page; answers to the old dashboard are dropped. *)
Leave ==
    /\ page \in {"loading", "shown", "broken"}
    /\ page' = "elsewhere" /\ reloads' = 0
    /\ IF Mounted
       THEN /\ Unmount /\ UNCHANGED <<step, cutShort>>
            /\ asked' = asked \cup {m \in Meetings : alive[m] /\ held[m]}
       ELSE UNCHANGED <<viewVars, beginVars, audioVars, events, asked>>
    /\ UNCHANGED <<serverVars, fin, ticks, faults, unsure>>

(* The user comes (back) to the dashboard: a new page, a new section. *)
Return ==
    /\ page \in {"elsewhere", "meeting"}
    /\ page' = "loading" /\ reloads' = 1
    /\ UNCHANGED <<viewVars, beginVars, audioVars, serverVars,
                   events, fin, ticks, faults, unsure, asked>>

-----------------------------------------------------------------------------
(* begin(): one action per await *)

BeginClick(m) ==
    /\ Mounted /\ phase = "setup"
    /\ step[m] = "idle"
    /\ \A k \in Meetings : k < m => step[k] # "idle"
    /\ phase' = "starting" /\ error' = FALSE
    /\ step' = [step EXCEPT ![m] = "create"]
    /\ alive' = [alive EXCEPT ![m] = TRUE]
    /\ UNCHANGED <<dashVars, meetingId, leftEarly, cutShort, audioVars, serverVars,
                   events, fin, ticks, faults, unsure, asked>>

GiveUp_LeavesItLive(m, startedId) ==
    /\ step' = [step EXCEPT ![m] = "over"]
    /\ phase' = IF alive[m] THEN "setup" ELSE phase
    /\ error' = (error \/ alive[m])

(* The catch block: a meeting that was started is stopped first (undo),     *)
(* then the section shows the error and is back in setup.                   *)
GiveUp(m, startedId) ==
    /\ step' = [step EXCEPT ![m] = IF startedId = NoMeeting THEN "over" ELSE "undo"]
    /\ phase' = IF alive[m] /\ startedId = NoMeeting THEN "setup" ELSE phase
    /\ error' = (error \/ (alive[m] /\ startedId = NoMeeting))

(* createMeeting answers, *)
CreateAnswer(m) ==
    /\ step[m] = "create"
    /\ step' = [step EXCEPT ![m] = "mics"]
    /\ server' = [server EXCEPT ![m] = "created"]
    /\ UNCHANGED <<dashVars, viewVars, alive, leftEarly, cutShort, audioVars,
                   sessions, unstopped, events, fin, ticks, faults, unsure, asked>>

(* or fails: refused, lost, or lost on the way back with the meeting made. *)
CreateFail(m) ==
    /\ step[m] = "create"
    /\ GiveUp(m, NoMeeting)
    /\ \/ UNCHANGED server
       \/ server' = [server EXCEPT ![m] = "created"]
    /\ UNCHANGED <<dashVars, meetingId, alive, leftEarly, cutShort, audioVars,
                   sessions, unstopped, events, fin, ticks, faults, unsure, asked>>

(* The addMic calls are over, successfully or not: a failure only means the *)
(* default microphone.                                                      *)
MicsAnswer(m) ==
    /\ step[m] = "mics"
    /\ step' = [step EXCEPT ![m] = "start"]
    /\ UNCHANGED <<dashVars, viewVars, alive, leftEarly, cutShort, audioVars,
                   serverVars, events, fin, ticks, faults, unsure, asked>>

(* startMeeting: the server holds one live meeting and refuses a second,    *)
(* which may also be one of another user.                                   *)
StartAnswer(m) ==
    /\ step[m] = "start"
    /\ \/ GiveUp(m, NoMeeting) /\ UNCHANGED serverVars
       \/ /\ sessions = {}
          /\ step' = [step EXCEPT ![m] = "media"]
          /\ server' = [server EXCEPT ![m] = "live"] /\ sessions' = {m}
          /\ UNCHANGED <<phase, error, unstopped>>
    /\ UNCHANGED <<dashVars, meetingId, alive, leftEarly, cutShort, audioVars, events, fin,
                   ticks, faults, unsure, asked>>

(* The answer is lost: startedId stays null, so nothing is stopped although *)
(* the server has started the meeting.                                      *)
StartFail(m) ==
    /\ step[m] = "start" /\ Fault
    /\ GiveUp(m, NoMeeting)
    /\ sessions = {}
    /\ server' = [server EXCEPT ![m] = "live"] /\ sessions' = {m}
    /\ unsure' = unsure \cup {m}
    /\ UNCHANGED <<dashVars, meetingId, alive, leftEarly, cutShort, audioVars, unstopped,
                   events, fin, ticks, asked>>

(* getUserMedia: the microphone is granted *)
MediaAnswer(m) ==
    /\ step[m] = "media"
    /\ step' = [step EXCEPT ![m] = "audio"]
    /\ mic' = [mic EXCEPT ![m] = "captured"]
    /\ UNCHANGED <<dashVars, viewVars, alive, leftEarly, cutShort, held, link,
                   serverVars, events, fin, ticks, faults, unsure, asked>>

(* or refused, or there is none. *)
MediaFail(m) ==
    /\ step[m] = "media"
    /\ GiveUp(m, m)
    /\ UNCHANGED <<dashVars, meetingId, alive, leftEarly, cutShort, audioVars,
                   serverVars, events, fin, ticks, faults, unsure, asked>>

(* The audio socket: the server accepts it for a live session.  The catch   *)
(* block does not know the tracks that were captured before it failed.      *)
AudioAnswer(m) ==
    /\ step[m] = "audio"
    /\ IF m \in sessions
       THEN /\ step' = [step EXCEPT ![m] = "over"]
            /\ mic' = [mic EXCEPT ![m] = "streaming"]
            /\ link' = [link EXCEPT ![m] = "open"]
            /\ held' = [held EXCEPT ![m] = TRUE]
            /\ events' = [events EXCEPT ![m] = "connecting"]
            /\ phase' = IF alive[m] THEN "recording" ELSE phase
            /\ meetingId' = IF alive[m] THEN m ELSE meetingId
            /\ MeetingsChanged(m)
            /\ UNCHANGED error
       ELSE GiveUp(m, m) /\ UNCHANGED <<audioVars, events, meetingId, reloads>>
    /\ UNCHANGED <<page, alive, leftEarly, cutShort, serverVars,
                   fin, ticks, faults, unsure, asked>>

AudioFail(m) ==
    /\ step[m] = "audio" /\ Fault
    /\ GiveUp(m, m)
    /\ UNCHANGED <<dashVars, meetingId, alive, leftEarly, cutShort, audioVars,
                   serverVars, events, fin, ticks, unsure, asked>>

(* The stop request of the catch block; that it fails is swallowed. *)
Undo(m) ==
    /\ step[m] = "undo"
    /\ step' = [step EXCEPT ![m] = "over"]
    /\ phase' = IF alive[m] THEN "setup" ELSE phase
    /\ error' = (error \/ alive[m])
    /\ \/ /\ StopSession(m) /\ asked' = asked \cup {m}
          /\ UNCHANGED unsure
       \/ /\ Fault /\ unsure' = unsure \cup {m}
          /\ UNCHANGED <<serverVars, events, asked>>
    /\ UNCHANGED <<dashVars, meetingId, alive, leftEarly, cutShort, audioVars, fin, ticks>>

-----------------------------------------------------------------------------
(* Recording: the user ends the meeting, or somebody else does *)

(* finish() after the confirmation: it first stops the stream, if any.  The *)
(* button stays there, for a further finish() while one is under way.       *)
FinishClick(m, c) ==
    /\ Recording(m) /\ fin[m][c] = "no"
    /\ \A k \in Clicks : k < c => fin[m][k] # "no"
    /\ ~(held[m] /\ mic[m] = "off")
    /\ fin' = [fin EXCEPT ![m][c] = IF held[m] THEN "mic" ELSE "request"]
    /\ mic' = [mic EXCEPT ![m] = IF held[m] THEN "off" ELSE @]
    /\ link' = [link EXCEPT ![m] = IF held[m] /\ @ = "open" THEN "stopping" ELSE @]
    /\ asked' = asked \cup {m}
    /\ IF c = 1 THEN UNCHANGED faults ELSE Fault
    /\ UNCHANGED <<dashVars, viewVars, beginVars, held, serverVars,
                   events, ticks, unsure>>

(* While another finish() waits for the stream, a second stop() of it fails *)
(* and so does the second finish().                                         *)
FinishTwice(m) ==
    /\ Recording(m) /\ held[m] /\ mic[m] = "off"
    /\ error' = TRUE
    /\ UNCHANGED <<dashVars, phase, meetingId, beginVars, audioVars, serverVars, fin,
                   events, ticks, faults, unsure, asked>>

(* stop() returns: answered, closed or after two seconds. *)
FinishMicStopped(m, c) ==
    /\ fin[m][c] = "mic"
    /\ fin' = [fin EXCEPT ![m][c] = "request"]
    /\ held' = [held EXCEPT ![m] = FALSE]
    /\ UNCHANGED <<dashVars, viewVars, beginVars, mic, link, serverVars,
                   events, ticks, faults, unsure, asked>>

(* The server handles the stop request, whether or not there is a session   *)
(* still; an answer of 500 comes of one that raises.                        *)
FinishHandled(m, c) ==
    /\ fin[m][c] = "request"
    /\ \/ EndSession(m) /\ UNCHANGED faults /\ fin' = [fin EXCEPT ![m][c] = "answered"]
       \/ EndFails(m) /\ fin' = [fin EXCEPT ![m][c] = "raised"]
    /\ UNCHANGED <<dashVars, viewVars, beginVars, audioVars, ticks, unsure, asked>>

FinishAnswer_StaysRecording(m, c) ==
    /\ fin[m][c] = "answered"
    /\ fin' = [fin EXCEPT ![m][c] = "no"]
    /\ UNCHANGED <<dashVars, viewVars, beginVars, audioVars, serverVars,
                   events, ticks, faults, unsure, asked>>

FinishAnswer(m, c) ==
    /\ fin[m][c] = "answered"
    /\ fin' = [fin EXCEPT ![m][c] = "no"]
    /\ EnterProcessing(m)
    /\ UNCHANGED <<page, meetingId, error, beginVars, serverVars,
                   ticks, faults, unsure, asked>>

(* The request fails: the section stays in recording and shows the error.   *)
FinishError(m, c) ==
    /\ fin' = [fin EXCEPT ![m][c] = "no"]
    /\ error' = (error \/ alive[m])
    /\ UNCHANGED <<dashVars, phase, meetingId, beginVars, audioVars,
                   serverVars, events, ticks, unsure, asked>>

FinishFail(m, c) ==
    /\ fin[m][c] \in {"request", "answered"} /\ Fault
    /\ FinishError(m, c)

FinishRaised(m, c) ==
    /\ fin[m][c] = "raised"
    /\ FinishError(m, c)
    /\ UNCHANGED faults

(* The stop frame reaches the server, which ends the session, or whose      *)
(* handler dies of the exception; the socket is closed either way.          *)
StopFrame(m) ==
    /\ link[m] = "stopping"
    /\ link' = [link EXCEPT ![m] = "closed"]
    /\ StopSession(m)
    /\ UNCHANGED <<dashVars, viewVars, beginVars, held, mic, fin, ticks, unsure, asked>>

LinkDrop_EndsMeeting(m) ==
    /\ link[m] \in {"open", "stopping"} /\ Fault
    /\ link' = [link EXCEPT ![m] = "lost"]
    /\ EndSession(m)
    /\ UNCHANGED <<dashVars, viewVars, beginVars, held, mic, fin, ticks, unsure, asked>>

(* The socket drops.  Neither side ends the meeting, nobody reconnects. *)
LinkDrop(m) ==
    /\ link[m] \in {"open", "stopping"} /\ Fault
    /\ link' = [link EXCEPT ![m] = "lost"]
    /\ UNCHANGED <<dashVars, viewVars, beginVars, held, mic, serverVars,
                   events, fin, ticks, unsure, asked>>

(* The events socket: the session is looked up, then accept() is awaited, *)
EventsLookup(m) ==
    /\ events[m] = "connecting"
    /\ events' = [events EXCEPT ![m] =
                     IF m \in sessions THEN "accepting" ELSE "closed"]
    /\ UNCHANGED <<dashVars, viewVars, beginVars, audioVars, serverVars,
                   fin, ticks, faults, unsure, asked>>

(* and only then subscribed to, by now perhaps a session that is over. *)
EventsSubscribe(m) ==
    /\ events[m] = "accepting"
    /\ events' = [events EXCEPT ![m] =
                     IF m \in sessions THEN "subscribed" ELSE "deaf"]
    /\ UNCHANGED <<dashVars, viewVars, beginVars, audioVars, serverVars,
                   fin, ticks, faults, unsure, asked>>

(* The ended event arrives at the section that opened the socket. *)
EventsDeliver(m) ==
    /\ events[m] = "told"
    /\ EnterProcessing(m)
    /\ UNCHANGED <<page, meetingId, error, beginVars, serverVars,
                   fin, ticks, faults, unsure, asked>>

(* The events socket drops; the section has no handler for that. *)
EventsDrop(m) ==
    /\ events[m] \in {"connecting", "accepting", "subscribed", "told", "deaf"} /\ Fault
    /\ events' = [events EXCEPT ![m] = "closed"]
    /\ UNCHANGED <<dashVars, viewVars, beginVars, audioVars, serverVars,
                   fin, ticks, unsure, asked>>

-----------------------------------------------------------------------------
(* Processing: the status poll *)

PollTick(m) ==
    /\ Processing(m) /\ ticks[m] < MaxTicks
    /\ ticks' = [ticks EXCEPT ![m] = @ + 1]
    /\ UNCHANGED <<dashVars, viewVars, beginVars, audioVars, serverVars,
                   events, fin, faults, unsure, asked>>

PollAnswer_DoneOnly(m) ==
    /\ ticks[m] > 0
    /\ ticks' = [ticks EXCEPT ![m] = @ - 1]
    /\ IF server[m] = "done"
       THEN /\ page' = "meeting" /\ reloads' = 0
            /\ IF Mounted
               THEN ThrowOut /\ UNCHANGED step
               ELSE UNCHANGED <<viewVars, beginVars, audioVars, events>>
       ELSE UNCHANGED <<dashVars, viewVars, beginVars, audioVars, events>>
    /\ UNCHANGED <<serverVars, fin, faults, unsure, asked>>

(* getMeeting answers.  The callback of a settled meeting navigates, also   *)
(* when its section is gone and the user is busy elsewhere.                 *)
PollAnswer(m) ==
    /\ ticks[m] > 0
    /\ ticks' = [ticks EXCEPT ![m] = @ - 1]
    /\ IF server[m] \in Settled
       THEN /\ page' = "meeting" /\ reloads' = 0
            /\ IF Mounted
               THEN ThrowOut /\ UNCHANGED step
               ELSE UNCHANGED <<viewVars, beginVars, audioVars, events>>
       ELSE UNCHANGED <<dashVars, viewVars, beginVars, audioVars, events>>
    /\ UNCHANGED <<serverVars, fin, faults, unsure, asked>>

(* A poll that fails is dropped: keep polling. *)
PollFail(m) ==
    /\ ticks[m] > 0 /\ Fault
    /\ ticks' = [ticks EXCEPT ![m] = @ - 1]
    /\ UNCHANGED <<dashVars, viewVars, beginVars, audioVars, serverVars,
                   events, fin, unsure, asked>>

-----------------------------------------------------------------------------
(* The rest of the server, and other users *)

(* The assistant or another device ends the meeting. *)
OtherStop(m) ==
    /\ m \in sessions
    /\ StopSession(m)
    /\ asked' = asked \cup {m}
    /\ UNCHANGED <<dashVars, viewVars, beginVars, audioVars, fin, ticks, unsure>>

(* The quality pass settles the meeting. *)
QualityPass(m) ==
    /\ server[m] = "processing"
    /\ \E s \in Settled : server' = [server EXCEPT ![m] = s]
    /\ UNCHANGED <<dashVars, viewVars, beginVars, audioVars, sessions, unstopped,
                   events, fin, ticks, faults, unsure, asked>>

(* A restart of the server closes every socket; the startup pass settles    *)
(* live meetings as processing or, without audio, failed.                   *)
Restart ==
    /\ Fault
    /\ \E m \in Meetings : server[m] = "live"
    /\ \E s \in {"processing", "failed"} :
         server' = [m \in Meetings |-> IF server[m] = "live" THEN s ELSE server[m]]
    /\ sessions' = {}
    /\ link' = [m \in Meetings |->
                  IF link[m] \in {"open", "stopping"} THEN "lost" ELSE link[m]]
    /\ events' = [m \in Meetings |-> IF events[m] = "none" THEN "none" ELSE "closed"]
    /\ asked' = asked \cup {m \in Meetings : server[m] = "live"}
    /\ UNCHANGED <<dashVars, viewVars, beginVars, held, mic, unstopped, fin, ticks, unsure>>

-----------------------------------------------------------------------------
Begin(m) ==
    \/ CreateAnswer(m) \/ CreateFail(m) \/ MicsAnswer(m)
    \/ StartAnswer(m) \/ StartFail(m) \/ MediaAnswer(m) \/ MediaFail(m)
    \/ AudioAnswer(m) \/ AudioFail(m) \/ Undo(m)

Finish(m) ==
    \/ FinishTwice(m)
    \/ \E c \in Clicks :
         \/ FinishClick(m, c) \/ FinishMicStopped(m, c) \/ FinishHandled(m, c)
         \/ FinishAnswer(m, c) \/ FinishFail(m, c) \/ FinishRaised(m, c)

Sockets(m) ==
    \/ StopFrame(m) \/ LinkDrop(m)
    \/ EventsLookup(m) \/ EventsSubscribe(m) \/ EventsDeliver(m) \/ EventsDrop(m)

Poll(m) == PollTick(m) \/ PollAnswer(m) \/ PollFail(m)

Next ==
    \/ ListsAnswer \/ ListsFail \/ Leave \/ Return
    \/ Restart
    \/ \E m \in Meetings :
         \/ BeginClick(m) \/ Begin(m)
         \/ Finish(m)
         \/ Sockets(m) \/ Poll(m)
         \/ OtherStop(m) \/ QualityPass(m)

(* What runs by itself: answers, frames, timers.  The user, administrators, *)
(* other devices, faults and the outcome of the quality pass do not have to.*)
Fairness ==
    \A m \in Meetings :
        /\ \A c \in Clicks :
             /\ WF_vars(FinishMicStopped(m, c)) /\ WF_vars(FinishHandled(m, c))
             /\ WF_vars(FinishAnswer(m, c)) /\ WF_vars(FinishRaised(m, c))
        /\ WF_vars(EventsLookup(m)) /\ WF_vars(EventsSubscribe(m))
        /\ WF_vars(EventsDeliver(m))
        /\ WF_vars(PollTick(m)) /\ WF_vars(PollAnswer(m))

Spec == Init /\ [][Next]_vars /\ Fairness
-----------------------------------------------------------------------------
(* Properties *)

TypeOK ==
    /\ page \in Pages /\ reloads \in 0 .. MaxReloads
    /\ phase \in Phases /\ meetingId \in Meetings \cup {NoMeeting}
    /\ error \in BOOLEAN
    /\ step \in [Meetings -> Steps]
    /\ alive \in [Meetings -> BOOLEAN]
    /\ held \in [Meetings -> BOOLEAN]
    /\ mic \in [Meetings -> {"off", "captured", "streaming"}]
    /\ link \in [Meetings -> {"none", "open", "stopping", "closed", "lost"}]
    /\ events \in [Meetings -> EventsStates]
    /\ fin \in [Meetings -> [Clicks -> {"no", "mic", "request", "answered", "raised"}]]
    /\ ticks \in [Meetings -> 0 .. MaxTicks]
    /\ server \in [Meetings -> Statuses]
    /\ faults \in 0 .. MaxFaults
    /\ unsure \subseteq Meetings /\ leftEarly \subseteq Meetings
    /\ asked \subseteq Meetings /\ cutShort \subseteq Meetings
    /\ sessions \subseteq Meetings /\ unstopped \subseteq Meetings

(* The screen says «the transcript is being prepared» only of a meeting the *)
(* server has ended, unless a stop of it raised: the row is live still, the *)
(* next stop finds no session and is answered like any other.  No tolerated *)
(* error of finish(), second click or late event gets it there otherwise.   *)
ProcessingIsEnded ==
    \A m \in Meetings : Processing(m) => server[m] \in Ended \/ m \in unstopped

(* Back in the setup form, the section has left no session of its own, which*)
(* would make every further start be refused, unless the answer to its start*)
(* request, or the stop request of its catch block, was lost; and no live   *)
(* row but such a one and one whose stop raised.                            *)
SetupLeavesNothingLive ==
    \A m \in Meetings :
        (Mounted /\ phase = "setup" /\ alive[m]) =>
            /\ m \in sessions => m \in unsure
            /\ server[m] = "live" => m \in unsure \cup unstopped

(* What the section shows of a meeting is true of the server, in the two    *)
(* phases in which it does not look at it.                                  *)
PhaseIsTruthful == ProcessingIsEnded /\ SetupLeavesNothingLive

(* A microphone that streams while no mounted section is recording with it  *)
(* belongs to a start whose section went away before the stream was there:  *)
(* the one case in which the cleanup of the section finds nothing to stop.  *)
UnseenStreamWasLeftStarting ==
    \A m \in Meetings :
        (mic[m] = "streaming" /\ ~Recording(m)) => m \in leftEarly

(* What a section shows is behind the server: a recording that has ended, or *)
(* a processing that has settled.                                           *)
Behind(m) == \/ Recording(m) /\ server[m] \in Ended
             \/ Processing(m) /\ server[m] \in Settled

(* A screen that is behind catches up: it follows an end it did not ask for,*)
(* also one that falls into the handshake of the events socket, and its poll*)
(* takes the user to the meeting once it has settled, however polls overlap,*)
(* are lost or come late.  Only a screen whose socket was subscribed too    *)
(* late, or is gone, stays in the recording view.                           *)
FollowsAlong ==
    \A m \in Meetings :
        Behind(m) ~> \/ ~Behind(m)
                     \/ Recording(m) /\ events[m] \in {"deaf", "closed"}

(* The user who has confirmed the end of the meeting sees it processing, or *)
(* sees an error, unless he goes away: finish() never hangs on a stream, a  *)
(* socket or an answer.                                                     *)
FinishIsSeen ==
    \A m \in Meetings :
        (\E c \in Clicks : fin[m][c] # "no") ~> (Processing(m) \/ error \/ ~alive[m])

(* A meeting leaves «live» only when somebody asked for it: the user ended  *)
(* it or left the page, another device ended it, the server restarted.  Two *)
(* cases cut a recording short unasked: a list request of the dashboard that*)
(* fails, and a late poll of an earlier meeting, both of which unmount the  *)
(* section, whose cleanup sends the stop frame.  There is no third one: no  *)
(* dropped socket, failed start or lost answer ends a meeting.              *)
EndsOnRequest ==
    \A m \in Meetings : server[m] \in Ended => m \in asked \cup cutShort

=============================================================================
