-------------------------- MODULE LiveScreenProofs ---------------------------
(***************************************************************************)
(* The recording screen, proved for any number of meetings, polls, list    *)
(* requests, clicks and faults: what the section shows of a meeting is so, *)
(* whose microphone streams unseen, and who ends a recording.              *)
(***************************************************************************)
EXTENDS LiveScreen, TLAPS

-----------------------------------------------------------------------------
(* The inductive invariant *)

Underway(m) == step[m] \notin {"idle", "over"}
Streamed(m) == events[m] # "none"
Started(m)  == server[m] = "live" \/ server[m] \in Ended
Over(m)     == server[m] \in Ended \/ m \in unstopped

(* A section is mounted with the instances it is the section of; it shows   *)
(* the one meeting whose stream it got, or starts at most one.              *)
SectionHolds ==
    /\ \A m \in Meetings : alive[m] => Mounted
    /\ phase \in {"recording", "processing"} =>
         meetingId \in Meetings /\ alive[meetingId] /\ Streamed(meetingId)
    /\ \A m \in Meetings :
         alive[m] /\ Streamed(m) => phase \in {"recording", "processing"} /\ meetingId = m
    /\ \A m \in Meetings : alive[m] /\ Underway(m) => phase = "starting"
    /\ \A m, k \in Meetings :
         alive[m] /\ Underway(m) /\ alive[k] /\ Underway(k) => m = k

(* How far a start has got says what the server knows of the meeting, and   *)
(* before its end there is neither a stream nor a socket.                   *)
StartHolds(m) ==
    /\ step[m] \in {"idle", "create"} => server[m] = "none"
    /\ step[m] \in {"mics", "start"} => server[m] = "created"
    /\ step[m] \in {"media", "audio", "undo"} \/ Streamed(m) => Started(m)
    /\ step[m] # "over" => /\ ~Streamed(m) /\ mic[m] # "streaming" /\ ~held[m]
                           /\ link[m] = "none"
    /\ link[m] # "none" => Streamed(m)
    /\ step[m] = "idle" => ~alive[m]
    /\ Underway(m) => alive[m] \/ m \in leftEarly

(* What is on its way after the stream was there: the end the user asked    *)
(* for, the frame and the event that tell of an end.                        *)
EndHolds(m) ==
    /\ \A c \in Clicks :
         /\ fin[m][c] # "no" => Streamed(m) /\ m \in asked /\ mic[m] # "streaming"
         /\ fin[m][c] = "answered" => Over(m)
    /\ events[m] = "told" => Over(m)
    /\ events[m] = "told" \/ link[m] = "stopping" => m \in asked \cup cutShort

(* A live row has its session, but for one whose stop raised. *)
SessionHolds ==
    \A m \in Meetings :
        /\ m \in sessions => server[m] = "live"
        /\ server[m] = "live" => m \in sessions \cup unstopped

(* The stream of a mounted section is the one its cleanup will find. *)
StreamsAreHeld == \A m \in Meetings : alive[m] /\ mic[m] = "streaming" => held[m]

(* While the section is not recording, a session of its own is one it is    *)
(* about to take up or to undo.                                             *)
LiveIsTakenCareOf ==
    \A m \in Meetings :
        Mounted /\ phase \in {"setup", "starting"} /\ alive[m] /\ m \in sessions =>
            m \in unsure \/ step[m] \in {"media", "audio", "undo"}

LiveInv ==
    /\ TypeOK /\ SectionHolds /\ SessionHolds
    /\ \A m \in Meetings : StartHolds(m) /\ EndHolds(m)
    /\ StreamsAreHeld /\ LiveIsTakenCareOf
    /\ ProcessingIsEnded /\ UnseenStreamWasLeftStarting /\ EndsOnRequest

-----------------------------------------------------------------------------
(* Steps of the dashboard and of the polls that leave the section mounted,  *)
(* or unmounted, as it is                                                   *)

LEMMA DashboardStep ==
    ASSUME LiveInv,
           page' \in Pages, reloads' \in 0 .. MaxReloads, Mounted => Mounted',
           ticks' \in [Meetings -> 0 .. MaxTicks], faults' \in 0 .. MaxFaults,
           UNCHANGED <<viewVars, beginVars, audioVars, serverVars, events, fin, unsure, asked>>
    PROVE  LiveInv'
<1> USE DEF viewVars, beginVars, audioVars, serverVars
<1>1. TypeOK'
  BY DEF LiveInv, TypeOK
<1>2. SectionHolds' /\ SessionHolds'
  BY DEF LiveInv, SectionHolds, SessionHolds, Underway, Streamed
<1>3. \A m \in Meetings : StartHolds(m)' /\ EndHolds(m)'
  BY DEF LiveInv, StartHolds, EndHolds, Underway, Streamed, Started, Over
<1>4. StreamsAreHeld' /\ EndsOnRequest'
  BY DEF LiveInv, StreamsAreHeld, EndsOnRequest
<1>5. LiveIsTakenCareOf'
  BY DEF LiveInv, SectionHolds, LiveIsTakenCareOf
<1>6. ProcessingIsEnded' /\ UnseenStreamWasLeftStarting'
  BY DEF LiveInv, SectionHolds, ProcessingIsEnded, UnseenStreamWasLeftStarting,
         Processing, Recording
<1> QED BY <1>1, <1>2, <1>3, <1>4, <1>5, <1>6 DEF LiveInv

(* The cleanup of a section *)
LEMMA UnmountEffect ==
    ASSUME LiveInv, Unmount
    PROVE  /\ phase' = "setup" /\ meetingId' = NoMeeting /\ error' = FALSE
           /\ alive' = [m \in Meetings |-> FALSE]
           /\ leftEarly \subseteq leftEarly' /\ leftEarly' \subseteq Meetings
           /\ \A m \in Meetings : alive[m] /\ Underway(m) => m \in leftEarly'
           /\ held' \in [Meetings -> BOOLEAN]
           /\ mic' \in [Meetings -> {"off", "captured", "streaming"}]
           /\ link' \in [Meetings -> {"none", "open", "stopping", "closed", "lost"}]
           /\ events' \in [Meetings -> EventsStates]
           /\ \A m \in Meetings :
                /\ held'[m] => held[m]
                /\ mic'[m] = "streaming" => mic[m] = "streaming" /\ ~(alive[m] /\ held[m])
                /\ link[m] = "none" => link'[m] = "none"
                /\ link'[m] = "stopping" => link[m] = "stopping" \/ (alive[m] /\ held[m])
                /\ events'[m] = events[m] \/ (events'[m] = "closed" /\ Streamed(m))
<1> DEFINE mine == {m \in Meetings : alive[m] /\ held[m]}
<1>1. /\ mic' = [m \in Meetings |-> IF m \in mine THEN "off" ELSE mic[m]]
      /\ link' = [m \in Meetings |->
                    IF m \in mine /\ link[m] = "open" THEN "stopping" ELSE link[m]]
      /\ held' = [m \in Meetings |-> held[m] /\ m \notin mine]
  BY DEF Unmount, StopMics
<1>2. TypeOK
  BY DEF LiveInv
<1>3. /\ held' \in [Meetings -> BOOLEAN]
      /\ mic' \in [Meetings -> {"off", "captured", "streaming"}]
      /\ link' \in [Meetings -> {"none", "open", "stopping", "closed", "lost"}]
  BY <1>1, <1>2 DEF TypeOK
<1>4. \A m \in Meetings :
        /\ held'[m] => held[m]
        /\ mic'[m] = "streaming" => mic[m] = "streaming" /\ ~(alive[m] /\ held[m])
        /\ link[m] = "none" => link'[m] = "none"
        /\ link'[m] = "stopping" => link[m] = "stopping" \/ (alive[m] /\ held[m])
  BY <1>1
<1>5. /\ events' \in [Meetings -> EventsStates]
      /\ \A m \in Meetings :
           events'[m] = events[m] \/ (events'[m] = "closed" /\ Streamed(m))
  BY <1>2 DEF Unmount, TypeOK, EventsStates, Streamed
<1>6. /\ leftEarly \subseteq leftEarly' /\ leftEarly' \subseteq Meetings
      /\ \A m \in Meetings : alive[m] /\ Underway(m) => m \in leftEarly'
  BY <1>2 DEF Unmount, TypeOK, Underway
<1> QED BY <1>3, <1>4, <1>5, <1>6 DEF Unmount

LEMMA UnmountStep ==
    ASSUME LiveInv, Unmount,
           page' \in Pages, page' # "shown", reloads' \in 0 .. MaxReloads,
           ticks' \in [Meetings -> 0 .. MaxTicks], faults' \in 0 .. MaxFaults,
           asked \subseteq asked', asked' \subseteq Meetings,
           cutShort \subseteq cutShort', cutShort' \subseteq Meetings,
           {m \in Meetings : alive[m] /\ held[m]} \subseteq asked' \cup cutShort',
           UNCHANGED <<step, serverVars, fin, unsure>>
    PROVE  LiveInv'
<1> USE DEF serverVars
<1>1. /\ phase' = "setup" /\ meetingId' = NoMeeting /\ error' = FALSE
      /\ alive' = [m \in Meetings |-> FALSE]
      /\ leftEarly \subseteq leftEarly' /\ leftEarly' \subseteq Meetings
      /\ \A m \in Meetings : alive[m] /\ Underway(m) => m \in leftEarly'
      /\ held' \in [Meetings -> BOOLEAN]
      /\ mic' \in [Meetings -> {"off", "captured", "streaming"}]
      /\ link' \in [Meetings -> {"none", "open", "stopping", "closed", "lost"}]
      /\ events' \in [Meetings -> EventsStates]
      /\ \A m \in Meetings :
           /\ held'[m] => held[m]
           /\ mic'[m] = "streaming" => mic[m] = "streaming" /\ ~(alive[m] /\ held[m])
           /\ link[m] = "none" => link'[m] = "none"
           /\ link'[m] = "stopping" => link[m] = "stopping" \/ (alive[m] /\ held[m])
           /\ events'[m] = events[m] \/ (events'[m] = "closed" /\ Streamed(m))
  BY UnmountEffect
<1>2. TypeOK'
  BY <1>1 DEF LiveInv, TypeOK, Phases
<1>3. SectionHolds' /\ StreamsAreHeld' /\ LiveIsTakenCareOf' /\ ProcessingIsEnded'
  BY <1>1 DEF SectionHolds, StreamsAreHeld, LiveIsTakenCareOf, ProcessingIsEnded, Processing
<1>8. SessionHolds'
  BY DEF LiveInv, SessionHolds
<1>4. \A m \in Meetings : StartHolds(m)'
  BY <1>1 DEF LiveInv, StartHolds, Underway, Streamed, Started
<1>5. \A m \in Meetings : EndHolds(m)'
  BY <1>1 DEF LiveInv, EndHolds, Streamed, Over
<1>6. UnseenStreamWasLeftStarting'
  <2>1. \A m \in Meetings : mic'[m] = "streaming" => mic[m] = "streaming" /\ ~Recording(m)
    BY <1>1 DEF LiveInv, SectionHolds, StreamsAreHeld, Recording
  <2> QED BY <1>1, <2>1 DEF LiveInv, UnseenStreamWasLeftStarting
<1>7. EndsOnRequest'
  BY DEF LiveInv, EndsOnRequest
<1> QED BY <1>2, <1>3, <1>4, <1>5, <1>6, <1>7, <1>8 DEF LiveInv

LEMMA ListsAnswerStep == ASSUME LiveInv, ListsAnswer PROVE LiveInv'
<1>1. page' \in Pages /\ reloads' \in 0 .. MaxReloads /\ (Mounted => Mounted')
  BY BoundsAssumption DEF ListsAnswer, LiveInv, TypeOK, Pages, Mounted
<1>2. ticks' \in [Meetings -> 0 .. MaxTicks] /\ faults' \in 0 .. MaxFaults
  BY DEF ListsAnswer, LiveInv, TypeOK
<1> QED BY <1>1, <1>2, DashboardStep DEF ListsAnswer

LEMMA ListsFailStep == ASSUME LiveInv, ListsFail PROVE LiveInv'
<1>1. /\ page' \in Pages /\ page' # "shown" /\ reloads' \in 0 .. MaxReloads
      /\ faults' \in 0 .. MaxFaults /\ ticks' \in [Meetings -> 0 .. MaxTicks]
  BY BoundsAssumption DEF ListsFail, Fault, LiveInv, TypeOK, Pages
<1>2. CASE Mounted
  <2>1. /\ cutShort \subseteq cutShort' /\ cutShort' \subseteq Meetings
        /\ {m \in Meetings : alive[m] /\ held[m]} \subseteq asked' \cup cutShort'
    BY <1>2 DEF ListsFail, ThrowOut, LiveInv, TypeOK
  <2>2. asked' = asked /\ asked \subseteq Meetings
    BY DEF ListsFail, LiveInv, TypeOK
  <2> QED BY <1>1, <1>2, <2>1, <2>2, UnmountStep DEF ListsFail, ThrowOut
<1>3. CASE ~Mounted
  BY <1>1, <1>3, DashboardStep DEF ListsFail
<1> QED BY <1>2, <1>3

LEMMA LeaveStep == ASSUME LiveInv, Leave PROVE LiveInv'
<1>1. /\ page' \in Pages /\ page' # "shown" /\ reloads' \in 0 .. MaxReloads
      /\ faults' \in 0 .. MaxFaults /\ ticks' \in [Meetings -> 0 .. MaxTicks]
  BY BoundsAssumption DEF Leave, LiveInv, TypeOK, Pages
<1>2. CASE Mounted
  <2>1. /\ asked \subseteq asked' /\ asked' \subseteq Meetings
        /\ {m \in Meetings : alive[m] /\ held[m]} \subseteq asked' \cup cutShort'
    BY <1>2 DEF Leave, LiveInv, TypeOK
  <2>2. cutShort' = cutShort /\ cutShort \subseteq Meetings
    BY <1>2 DEF Leave, LiveInv, TypeOK
  <2> QED BY <1>1, <1>2, <2>1, <2>2, UnmountStep DEF Leave
<1>3. CASE ~Mounted
  BY <1>1, <1>3, DashboardStep DEF Leave
<1> QED BY <1>2, <1>3

LEMMA ReturnStep == ASSUME LiveInv, Return PROVE LiveInv'
<1>1. page' \in Pages /\ reloads' \in 0 .. MaxReloads /\ (Mounted => Mounted')
  BY BoundsAssumption DEF Return, Pages, Mounted
<1>2. ticks' \in [Meetings -> 0 .. MaxTicks] /\ faults' \in 0 .. MaxFaults
  BY DEF Return, LiveInv, TypeOK
<1> QED BY <1>1, <1>2, DashboardStep DEF Return

LEMMA PollStep ==
    ASSUME LiveInv, NEW m \in Meetings, Poll(m)
    PROVE  LiveInv'
<1>1. ticks' \in [Meetings -> 0 .. MaxTicks] /\ faults' \in 0 .. MaxFaults
  BY BoundsAssumption DEF Poll, PollTick, PollAnswer, PollFail, Fault, LiveInv, TypeOK
<1>2. CASE /\ PollAnswer(m) /\ server[m] \in Settled /\ Mounted
  <2>1. /\ page' \in Pages /\ page' # "shown" /\ reloads' \in 0 .. MaxReloads
    BY <1>2, BoundsAssumption DEF PollAnswer, Pages
  <2>2. /\ cutShort \subseteq cutShort' /\ cutShort' \subseteq Meetings
        /\ {k \in Meetings : alive[k] /\ held[k]} \subseteq asked' \cup cutShort'
    BY <1>2 DEF PollAnswer, ThrowOut, LiveInv, TypeOK
  <2>3. asked' = asked /\ asked \subseteq Meetings
    BY <1>2 DEF PollAnswer, LiveInv, TypeOK
  <2> QED BY <1>1, <1>2, <2>1, <2>2, <2>3, UnmountStep DEF PollAnswer, ThrowOut
<1>3. CASE PollAnswer(m) /\ server[m] \in Settled /\ ~Mounted
  <2>1. page' \in Pages /\ reloads' \in 0 .. MaxReloads
    BY <1>3, BoundsAssumption DEF PollAnswer, Pages
  <2> QED BY <1>1, <1>3, <2>1, DashboardStep DEF PollAnswer
<1>4. CASE \/ PollTick(m) \/ PollFail(m)
           \/ PollAnswer(m) /\ server[m] \notin Settled
  <2>1. UNCHANGED <<dashVars, viewVars, beginVars, audioVars, serverVars, events, fin,
                  unsure, asked>>
    BY <1>4 DEF PollTick, PollFail, PollAnswer
  <2>2. page' \in Pages /\ reloads' \in 0 .. MaxReloads /\ (Mounted => Mounted')
    BY <2>1 DEF dashVars, LiveInv, TypeOK, Mounted
  <2> QED BY <1>1, <2>1, <2>2, DashboardStep
<1> QED BY <1>2, <1>3, <1>4 DEF Poll

-----------------------------------------------------------------------------
(* begin() *)

LEMMA BeginClickStep ==
    ASSUME LiveInv, NEW m \in Meetings, BeginClick(m)
    PROVE  LiveInv'
<1> USE DEF serverVars
<1>1. TypeOK'
  BY DEF BeginClick, LiveInv, TypeOK, dashVars, audioVars, Phases, Steps
<1>2. SectionHolds'
  BY DEF BeginClick, LiveInv, TypeOK, SectionHolds, StartHolds, Underway, Streamed, Mounted,
         dashVars
<1>7. SessionHolds'
  BY DEF BeginClick, LiveInv, SessionHolds
<1>3. \A k \in Meetings : StartHolds(k)' /\ EndHolds(k)'
  BY DEF BeginClick, LiveInv, TypeOK, StartHolds, EndHolds, Underway, Streamed, Started,
         Over, audioVars
<1>4. StreamsAreHeld' /\ EndsOnRequest'
  BY DEF BeginClick, LiveInv, TypeOK, StreamsAreHeld, StartHolds, EndsOnRequest, audioVars
<1>5. LiveIsTakenCareOf'
  BY DEF BeginClick, LiveInv, TypeOK, LiveIsTakenCareOf, SessionHolds, StartHolds,
         Mounted, dashVars
<1>6. ProcessingIsEnded' /\ UnseenStreamWasLeftStarting'
  BY DEF BeginClick, LiveInv, ProcessingIsEnded, UnseenStreamWasLeftStarting, Processing,
         Recording, audioVars
<1> QED BY <1>1, <1>2, <1>3, <1>4, <1>5, <1>6, <1>7 DEF LiveInv

(* One await further, or on the way to undo what was started *)
LEMMA AdvanceStep ==
    ASSUME LiveInv, NEW m \in Meetings, Underway(m),
           NEW s \in {"mics", "start", "media", "audio", "undo"},
           NEW x \in Statuses, NEW y \in {"off", "captured"},
           step' = [step EXCEPT ![m] = s],
           server' = [server EXCEPT ![m] = x], mic' = [mic EXCEPT ![m] = y],
           s \in {"mics", "start"} => x = "created",
           s \in {"media", "audio", "undo"} => x = "live" \/ x \in Ended,
           x \in Ended <=> server[m] \in Ended,
           SessionHolds', sessions' \subseteq sessions \cup {m}, unstopped' = unstopped,
           faults' \in 0 .. MaxFaults,
           UNCHANGED <<dashVars, viewVars, alive, leftEarly, cutShort, held, link, events,
                       fin, ticks, unsure, asked>>
    PROVE  LiveInv'
<1> USE DEF dashVars, viewVars
<1>1. TypeOK'
  BY DEF LiveInv, TypeOK, Steps
<1>2. SectionHolds'
  BY DEF LiveInv, TypeOK, SectionHolds, Underway, Streamed, Mounted
<1>3. \A k \in Meetings : StartHolds(k)'
  BY DEF LiveInv, TypeOK, StartHolds, Underway, Streamed, Started, Ended
<1>4. \A k \in Meetings : EndHolds(k)'
  BY DEF LiveInv, TypeOK, EndHolds, StartHolds, Underway, Streamed, Over
<1>5. StreamsAreHeld' /\ EndsOnRequest'
  BY DEF LiveInv, TypeOK, StreamsAreHeld, EndsOnRequest
<1>6. LiveIsTakenCareOf'
  BY DEF LiveInv, TypeOK, LiveIsTakenCareOf, SessionHolds, Mounted
<1>7. ProcessingIsEnded' /\ UnseenStreamWasLeftStarting'
  BY DEF LiveInv, TypeOK, ProcessingIsEnded, UnseenStreamWasLeftStarting, Processing,
         Recording, Mounted
<1> QED BY <1>1, <1>2, <1>3, <1>4, <1>5, <1>6, <1>7 DEF LiveInv

(* Back to the setup form, with an error, or quietly in a section that is   *)
(* gone                                                                     *)
LEMMA BackToSetupStep ==
    ASSUME LiveInv, NEW m \in Meetings, Underway(m), NEW x \in Statuses,
           step' = [step EXCEPT ![m] = "over"],
           phase' = IF alive[m] THEN "setup" ELSE phase,
           error' = (error \/ alive[m]),
           server' = [server EXCEPT ![m] = x],
           SessionHolds', sessions' \subseteq sessions \cup {m}, m \in sessions' => m \in unsure',
           unstopped \subseteq unstopped', unstopped' \subseteq Meetings,
           x \in Ended => m \in asked' \/ server[m] \in Ended,
           server[m] \in Ended => x \in Ended,
           events' \in [Meetings -> EventsStates],
           \A k \in Meetings : k # m => events'[k] = events[k],
           Streamed(m)' => Streamed(m),
           faults' \in 0 .. MaxFaults,
           unsure \subseteq unsure', unsure' \subseteq Meetings,
           asked \subseteq asked', asked' \subseteq Meetings,
           UNCHANGED <<dashVars, meetingId, alive, leftEarly, cutShort, audioVars, fin, ticks>>
    PROVE  LiveInv'
<1> USE DEF dashVars, audioVars
<1>0. /\ StartHolds(m) /\ ~Streamed(m) /\ ~Streamed(m)' /\ mic[m] # "streaming"
      /\ alive[m] => phase = "starting"
  BY DEF LiveInv, StartHolds, SectionHolds, Underway
<1>1. TypeOK'
  BY DEF LiveInv, TypeOK, Steps, Phases
<1>2. SectionHolds'
  BY <1>0 DEF LiveInv, TypeOK, SectionHolds, Underway, Streamed, Mounted
<1>3. \A k \in Meetings : StartHolds(k)'
  BY <1>0 DEF LiveInv, TypeOK, StartHolds, Underway, Streamed, Started
<1>4. \A k \in Meetings : EndHolds(k)'
  BY <1>0 DEF LiveInv, TypeOK, EndHolds, Streamed, Over
<1>5. StreamsAreHeld' /\ EndsOnRequest'
  BY DEF LiveInv, TypeOK, StreamsAreHeld, EndsOnRequest
<1>6. LiveIsTakenCareOf'
  BY <1>0 DEF LiveInv, TypeOK, SectionHolds, LiveIsTakenCareOf, Underway, Mounted
<1>7. ProcessingIsEnded' /\ UnseenStreamWasLeftStarting'
  BY <1>0 DEF LiveInv, TypeOK, ProcessingIsEnded, UnseenStreamWasLeftStarting, Processing,
              Recording, Mounted
<1> QED BY <1>1, <1>2, <1>3, <1>4, <1>5, <1>6, <1>7 DEF LiveInv

(* begin() has the stream and both sockets. *)
LEMMA StreamStep ==
    ASSUME LiveInv, NEW m \in Meetings, AudioAnswer(m), m \in sessions
    PROVE  LiveInv'
<1> USE DEF AudioAnswer, serverVars
<1>0. /\ StartHolds(m) /\ Underway(m) /\ ~Streamed(m) /\ server[m] = "live"
      /\ \A c \in Clicks : fin[m][c] = "no"
      /\ alive[m] => phase = "starting"
  BY DEF LiveInv, StartHolds, EndHolds, SectionHolds, SessionHolds, Underway
<1>a. /\ step' = [step EXCEPT ![m] = "over"]
      /\ mic' = [mic EXCEPT ![m] = "streaming"]
      /\ link' = [link EXCEPT ![m] = "open"]
      /\ held' = [held EXCEPT ![m] = TRUE]
      /\ events' = [events EXCEPT ![m] = "connecting"]
      /\ phase' = IF alive[m] THEN "recording" ELSE phase
      /\ meetingId' = IF alive[m] THEN m ELSE meetingId
      /\ reloads' = IF alive[m] THEN OneMore(reloads, MaxReloads) ELSE reloads
      /\ UNCHANGED <<error, page, alive, leftEarly, cutShort, serverVars, fin, ticks, faults,
                     unsure, asked>>
  BY DEF MeetingsChanged
<1> HIDE DEF AudioAnswer
<1>1. TypeOK'
  <2>1. reloads' \in 0 .. MaxReloads
    BY <1>a, BoundsAssumption DEF OneMore, LiveInv, TypeOK
  <2> QED BY <1>a, <2>1 DEF LiveInv, TypeOK, Steps, Phases, EventsStates
<1>8. SessionHolds'
  BY <1>a DEF LiveInv, SessionHolds
<1>2. SectionHolds'
  BY <1>0, <1>a DEF LiveInv, TypeOK, SectionHolds, Underway, Streamed, Mounted
<1>3. \A k \in Meetings : StartHolds(k)'
  BY <1>0, <1>a DEF LiveInv, TypeOK, StartHolds, Underway, Streamed, Started
<1>4. \A k \in Meetings : EndHolds(k)'
  BY <1>0, <1>a DEF LiveInv, TypeOK, EndHolds, Streamed, Over
<1>5. StreamsAreHeld' /\ EndsOnRequest'
  BY <1>a DEF LiveInv, TypeOK, StreamsAreHeld, EndsOnRequest
<1>6. LiveIsTakenCareOf'
  BY <1>0, <1>a DEF LiveInv, TypeOK, LiveIsTakenCareOf, Mounted
<1>7. ProcessingIsEnded' /\ UnseenStreamWasLeftStarting'
  <2>1. ~alive[m] => m \in leftEarly
    BY <1>0 DEF StartHolds
  <2>2. alive[m] => Mounted
    BY DEF LiveInv, SectionHolds
  <2> QED BY <1>0, <1>a, <2>1, <2>2 DEF LiveInv, TypeOK, ProcessingIsEnded, UnseenStreamWasLeftStarting,
                                  Processing, Recording, Mounted
<1> QED BY <1>1, <1>2, <1>3, <1>4, <1>5, <1>6, <1>7, <1>8 DEF LiveInv

LEMMA GiveUpStep ==
    ASSUME LiveInv, NEW m \in Meetings, step[m] \in {"media", "audio"}, GiveUp(m, m),
           faults' \in 0 .. MaxFaults,
           UNCHANGED <<dashVars, meetingId, alive, leftEarly, cutShort, audioVars, serverVars,
                       events, fin, ticks, unsure, asked>>
    PROVE  LiveInv'
<1> USE DEF serverVars
<1>1. /\ step' = [step EXCEPT ![m] = "undo"] /\ UNCHANGED viewVars
      /\ server' = [server EXCEPT ![m] = server[m]]
  BY MeetingsAssumption DEF GiveUp, viewVars, LiveInv, TypeOK
<1>2. server[m] \in Statuses /\ (server[m] = "live" \/ server[m] \in Ended)
  BY DEF LiveInv, TypeOK, StartHolds, Started
<1>3. mic[m] \in {"off", "captured"} /\ mic' = [mic EXCEPT ![m] = mic[m]]
  BY DEF LiveInv, TypeOK, StartHolds, audioVars
<1>5. SessionHolds'
  BY DEF LiveInv, SessionHolds
<1>4. Underway(m)
  BY DEF Underway
<1> QED BY <1>1, <1>2, <1>3, <1>4, <1>5, AdvanceStep DEF audioVars

(* A stop request, whoever sends it and whether it raises or not *)
LEMMA StopEffect ==
    ASSUME LiveInv, NEW m \in Meetings, StopSession(m)
    PROVE  /\ m \notin sessions' /\ sessions' \subseteq sessions
           /\ faults' \in 0 .. MaxFaults /\ SessionHolds'
           /\ unstopped \subseteq unstopped' /\ unstopped' \subseteq Meetings
           /\ server' = [server EXCEPT ![m] = server'[m]] /\ server'[m] \in Statuses
           /\ server'[m] = server[m] \/ (server[m] = "live" /\ server'[m] \in Ended)
           /\ \A k \in Meetings : k # m => server'[k] = server[k] /\ events'[k] = events[k]
           /\ events' \in [Meetings -> EventsStates]
           /\ events' = events \/ (events'[m] = "told" /\ events[m] = "subscribed")
           /\ Started(m) => Over(m)'
<1>0. /\ server \in [Meetings -> Statuses] /\ events \in [Meetings -> EventsStates]
      /\ faults \in 0 .. MaxFaults /\ unstopped \subseteq Meetings /\ SessionHolds
      /\ "processing" \in Statuses /\ "processing" \in Ended /\ "told" \in EventsStates
      /\ "live" \notin Ended
  BY DEF LiveInv, TypeOK, Statuses, Ended, EventsStates
<1>1. faults' \in 0 .. MaxFaults
  BY <1>0, BoundsAssumption DEF StopSession, EndFails, Fault
<1>2. CASE EndSession(m) /\ m \in sessions
  <2>1. /\ server' = [server EXCEPT ![m] = "processing"] /\ server[m] = "live"
        /\ events' = [events EXCEPT ![m] = IF @ = "subscribed" THEN "told" ELSE @]
        /\ sessions' = sessions \ {m} /\ unstopped' = unstopped
    BY <1>0, <1>2 DEF EndSession, SessionHolds
  <2>2. SessionHolds'
    BY <1>0, <2>1 DEF SessionHolds
  <2>3. events' = events \/ (events'[m] = "told" /\ events[m] = "subscribed")
    BY <1>0, <2>1
  <2>4. Over(m)'
    BY <1>0, <2>1 DEF Over
  <2> QED BY <1>0, <1>1, <2>1, <2>2, <2>3, <2>4
<1>3. CASE EndSession(m) /\ m \notin sessions
  <2>1. UNCHANGED <<server, sessions, unstopped, events>>
    BY <1>3 DEF EndSession, serverVars
  <2>2. SessionHolds' /\ server' = [server EXCEPT ![m] = server[m]] /\ server[m] \in Statuses
    BY <1>0, <2>1 DEF SessionHolds
  <2>3. Started(m) => Over(m)'
    BY <1>0, <1>3, <2>1 DEF Started, Over, SessionHolds
  <2> QED BY <1>0, <1>1, <1>3, <2>1, <2>2, <2>3
<1>4. CASE EndFails(m)
  <2>1. /\ UNCHANGED <<server, events>>
        /\ sessions' = sessions \ {m} /\ unstopped' = unstopped \cup {m}
    BY <1>4 DEF EndFails
  <2>2. SessionHolds' /\ server' = [server EXCEPT ![m] = server[m]] /\ server[m] \in Statuses
    BY <1>0, <2>1 DEF SessionHolds
  <2>3. Over(m)'
    BY <2>1 DEF Over
  <2> QED BY <1>0, <1>1, <2>1, <2>2, <2>3
<1> QED BY <1>2, <1>3, <1>4 DEF StopSession

LEMMA BeginStep ==
    ASSUME LiveInv, NEW m \in Meetings, Begin(m)
    PROVE  LiveInv'
<1>0. /\ TypeOK /\ StartHolds(m) /\ mic \in [Meetings -> {"off", "captured", "streaming"}]
      /\ faults \in 0 .. MaxFaults /\ server \in [Meetings -> Statuses]
      /\ asked \subseteq Meetings /\ unsure \subseteq Meetings
      /\ events \in [Meetings -> EventsStates] /\ unstopped \subseteq Meetings
      /\ SessionHolds
  BY DEF LiveInv, TypeOK
<1>a. UNCHANGED <<server, sessions, unstopped>> => SessionHolds'
  BY <1>0 DEF SessionHolds
<1>b. sessions = {} => \A k \in Meetings : server[k] # "live" \/ k \in unstopped
  BY <1>0 DEF SessionHolds
<1> USE DEF serverVars
<1>1. CASE CreateAnswer(m)
  <2>1. /\ Underway(m) /\ server[m] = "none" /\ mic[m] \in {"off", "captured"}
        /\ "created" \in Statuses
    BY <1>0, <1>1 DEF CreateAnswer, Underway, StartHolds, Statuses
  <2>2. mic' = [mic EXCEPT ![m] = mic[m]]
    BY <1>0, <1>1 DEF CreateAnswer, audioVars
  <2>3. SessionHolds'
    BY <1>0, <1>1, <2>1 DEF CreateAnswer, SessionHolds
  <2> QED BY <1>0, <1>1, <2>1, <2>2, <2>3, AdvanceStep DEF CreateAnswer, audioVars, Ended
<1>2. CASE CreateFail(m)
  <2>1. Underway(m) /\ server[m] = "none" /\ ~Streamed(m)
    BY <1>0, <1>2 DEF CreateFail, Underway, StartHolds
  <2>2. PICK x \in {"none", "created"} : server' = [server EXCEPT ![m] = x]
    <3>1. server = [server EXCEPT ![m] = "none"]
      BY <1>0, <2>1
    <3> QED BY <1>2, <3>1 DEF CreateFail
  <2>3. x \in Statuses
    BY DEF Statuses
  <2>4. SessionHolds' /\ m \notin sessions'
    BY <1>0, <1>2, <2>1, <2>2 DEF CreateFail, SessionHolds
  <2> QED BY <1>0, <1>2, <2>1, <2>2, <2>3, <2>4, BackToSetupStep DEF CreateFail, GiveUp, Ended, Streamed
<1>3. CASE MicsAnswer(m)
  <2>1. Underway(m) /\ server[m] = "created" /\ mic[m] \in {"off", "captured"}
    BY <1>0, <1>3 DEF MicsAnswer, Underway, StartHolds
  <2>2. mic' = [mic EXCEPT ![m] = mic[m]] /\ server' = [server EXCEPT ![m] = "created"]
    BY <1>0, <1>3, <2>1 DEF MicsAnswer, audioVars
  <2>3. "created" \in Statuses /\ ("created" \in Ended <=> server[m] \in Ended)
    BY <2>1 DEF Statuses
  <2>4. /\ step' = [step EXCEPT ![m] = "start"] /\ faults' \in 0 .. MaxFaults
        /\ UNCHANGED <<sessions, unstopped>> /\ SessionHolds'
        /\ UNCHANGED <<dashVars, viewVars, alive, leftEarly, cutShort, held, link, events,
                       fin, ticks, unsure, asked>>
    BY <1>0, <1>a, <1>3 DEF MicsAnswer, audioVars
  <2> QED BY <2>1, <2>2, <2>3, <2>4, AdvanceStep
<1>4. CASE StartAnswer(m)
  <2>1. Underway(m) /\ server[m] = "created" /\ mic[m] \in {"off", "captured"} /\ ~Streamed(m)
    BY <1>0, <1>4 DEF StartAnswer, Underway, StartHolds
  <2>2. "created" \in Statuses /\ "live" \in Statuses
    BY DEF Statuses
  <2>3. CASE GiveUp(m, NoMeeting) /\ UNCHANGED serverVars
    <3>1. /\ server' = [server EXCEPT ![m] = "created"]
          /\ SessionHolds' /\ m \notin sessions'
      BY <1>0, <1>a, <2>1, <2>3 DEF SessionHolds
    <3> QED BY <1>0, <1>4, <2>1, <2>2, <2>3, <3>1, BackToSetupStep
            DEF StartAnswer, GiveUp, Ended, Streamed
  <2>4. CASE /\ step' = [step EXCEPT ![m] = "media"]
             /\ server' = [server EXCEPT ![m] = "live"] /\ UNCHANGED <<phase, error, unstopped>>
             /\ sessions = {} /\ sessions' = {m}
    <3>1. mic' = [mic EXCEPT ![m] = mic[m]]
      BY <1>0, <1>4 DEF StartAnswer, audioVars
    <3>2. SessionHolds'
      BY <1>0, <1>b, <2>4 DEF SessionHolds
    <3> QED BY <1>0, <1>4, <2>1, <2>2, <2>4, <3>1, <3>2, AdvanceStep
            DEF StartAnswer, audioVars, viewVars, Ended
  <2> QED BY <1>4, <2>3, <2>4 DEF StartAnswer
<1>5. CASE StartFail(m)
  <2>1. Underway(m) /\ server[m] = "created" /\ ~Streamed(m) /\ "live" \in Statuses
    BY <1>0, <1>5 DEF StartFail, Underway, StartHolds, Statuses
  <2>2. faults' \in 0 .. MaxFaults
    BY <1>0, <1>5, BoundsAssumption DEF StartFail, Fault
  <2>3. SessionHolds'
    BY <1>0, <1>b, <1>5 DEF StartFail, SessionHolds
  <2> QED BY <1>0, <1>5, <2>1, <2>2, <2>3, BackToSetupStep DEF StartFail, GiveUp, Ended, Streamed
<1>6. CASE MediaAnswer(m)
  <2>1. /\ Underway(m) /\ server[m] \in Statuses
        /\ server[m] = "live" \/ server[m] \in Ended
    BY <1>0, <1>6 DEF MediaAnswer, Underway, StartHolds, Started
  <2>2. server' = [server EXCEPT ![m] = server[m]]
    BY <1>0, <1>6 DEF MediaAnswer
  <2>3. SessionHolds'
    BY <1>a, <1>6 DEF MediaAnswer
  <2> QED BY <1>0, <1>6, <2>1, <2>2, <2>3, AdvanceStep DEF MediaAnswer
<1>7. CASE MediaFail(m)
  BY <1>0, <1>7, GiveUpStep DEF MediaFail
<1>8. CASE AudioAnswer(m)
  <2>1. CASE m \in sessions
    BY <1>8, <2>1, StreamStep
  <2>2. CASE m \notin sessions
    BY <1>0, <1>8, <2>2, GiveUpStep DEF AudioAnswer, dashVars
  <2> QED BY <2>1, <2>2
<1>9. CASE AudioFail(m)
  <2>1. faults' \in 0 .. MaxFaults
    BY <1>0, <1>9, BoundsAssumption DEF AudioFail, Fault
  <2> QED BY <1>0, <1>9, <2>1, GiveUpStep DEF AudioFail
<1>10. CASE Undo(m)
  <2>1. /\ Underway(m) /\ ~Streamed(m) /\ server[m] \in Statuses
        /\ server[m] = "live" \/ server[m] \in Ended
    BY <1>0, <1>10 DEF Undo, Underway, StartHolds, Started
  <2>2. CASE StopSession(m) /\ asked' = asked \cup {m} /\ UNCHANGED unsure
    <3>1. /\ m \notin sessions' /\ sessions' \subseteq sessions
          /\ faults' \in 0 .. MaxFaults /\ SessionHolds'
          /\ unstopped \subseteq unstopped' /\ unstopped' \subseteq Meetings
      BY <2>2, StopEffect
    <3>2. /\ server' = [server EXCEPT ![m] = server'[m]] /\ server'[m] \in Statuses
          /\ server[m] \in Ended => server'[m] \in Ended
      BY <2>2, StopEffect
    <3>3. events' = events
      BY <2>1, <2>2, StopEffect DEF Streamed
    <3> QED BY <1>0, <1>10, <2>1, <2>2, <3>1, <3>2, <3>3, BackToSetupStep DEF Undo, Streamed
  <2>3. CASE Fault /\ unsure' = unsure \cup {m} /\ UNCHANGED <<serverVars, events, asked>>
    <3>1. faults' \in 0 .. MaxFaults
      BY <1>0, <2>3, BoundsAssumption DEF Fault
    <3>2. server' = [server EXCEPT ![m] = server[m]] /\ SessionHolds'
      BY <1>0, <1>a, <2>3
    <3> QED BY <1>0, <1>10, <2>1, <2>3, <3>1, <3>2, BackToSetupStep DEF Undo, Streamed
  <2> QED BY <1>10, <2>2, <2>3 DEF Undo
<1> QED BY <1>1, <1>2, <1>3, <1>4, <1>5, <1>6, <1>7, <1>8, <1>9, <1>10 DEF Begin

-----------------------------------------------------------------------------
(* The end of a recording *)

(* The server stops the session, if it is still there, on behalf of somebody:*)
(* the row and the events socket follow, if the stop does not raise.         *)
LEMMA StopStep ==
    ASSUME LiveInv, NEW m \in Meetings, StopSession(m), Started(m),
           link' = link \/ (link' = [link EXCEPT ![m] = "closed"] /\ link[m] = "stopping"),
           \/ fin' = fin
           \/ \E c \in Clicks : \E v \in {"answered", "raised"} :
                fin' = [fin EXCEPT ![m][c] = v] /\ fin[m][c] = "request",
           asked' = asked \/ asked' = asked \cup {m},
           m \in asked' \cup cutShort,
           UNCHANGED <<dashVars, viewVars, beginVars, held, mic, ticks, unsure>>
    PROVE  LiveInv'
<1> USE DEF dashVars, viewVars, beginVars
<1>0. /\ m \notin sessions' /\ sessions' \subseteq sessions
      /\ faults' \in 0 .. MaxFaults /\ SessionHolds'
      /\ unstopped \subseteq unstopped' /\ unstopped' \subseteq Meetings
      /\ \A k \in Meetings : k # m => server'[k] = server[k] /\ events'[k] = events[k]
      /\ events' \in [Meetings -> EventsStates]
      /\ events' = events \/ (events'[m] = "told" /\ events[m] = "subscribed")
      /\ Over(m)'
  BY StopEffect
<1>a. /\ server' \in [Meetings -> Statuses]
      /\ server'[m] = server[m] \/ (server[m] = "live" /\ server'[m] \in Ended)
  BY StopEffect DEF LiveInv, TypeOK
<1>b. \A k \in Meetings : Streamed(k)' <=> Streamed(k)
  BY <1>0 DEF Streamed
<1>c. /\ fin' \in [Meetings -> [Clicks -> {"no", "mic", "request", "answered", "raised"}]]
      /\ \A k \in Meetings, c \in Clicks :
           /\ fin'[k][c] # "no" => fin[k][c] # "no"
           /\ fin'[k][c] = "answered" => fin[k][c] = "answered" \/ k = m
  <2>1. fin \in [Meetings -> [Clicks -> {"no", "mic", "request", "answered", "raised"}]]
    BY DEF LiveInv, TypeOK
  <2>2. CASE fin' = fin
    BY <2>1, <2>2
  <2>3. ASSUME NEW c \in Clicks, NEW v \in {"answered", "raised"},
               fin' = [fin EXCEPT ![m][c] = v], fin[m][c] = "request"
        PROVE  <1>c!1 /\ <1>c!2
    BY <2>1, <2>3
  <2> QED BY <2>2, <2>3
<1>1. TypeOK'
  <2>1. sessions' \subseteq Meetings /\ asked' \subseteq Meetings
        /\ link' \in [Meetings -> {"none", "open", "stopping", "closed", "lost"}]
    BY <1>0 DEF LiveInv, TypeOK
  <2> QED BY <1>0, <1>a, <1>c, <2>1 DEF LiveInv, TypeOK
<1>2. SectionHolds'
  BY <1>b DEF LiveInv, SectionHolds, Underway, Mounted
<1>3. \A k \in Meetings : StartHolds(k)'
  <2> SUFFICES ASSUME NEW k \in Meetings PROVE StartHolds(k)'
    OBVIOUS
  <2>1. StartHolds(k) /\ link \in [Meetings -> {"none", "open", "stopping", "closed", "lost"}]
    BY DEF LiveInv, TypeOK
  <2>2. CASE k # m
    BY <1>0, <1>b, <2>1, <2>2 DEF StartHolds, Started, Underway
  <2>3. CASE k = m
    BY <1>a, <1>b, <2>1, <2>3 DEF StartHolds, Started, Underway, Ended
  <2> QED BY <2>2, <2>3
<1>4. \A k \in Meetings : EndHolds(k)'
  <2> SUFFICES ASSUME NEW k \in Meetings PROVE EndHolds(k)'
    OBVIOUS
  <2>1. EndHolds(k) /\ link \in [Meetings -> {"none", "open", "stopping", "closed", "lost"}]
    BY DEF LiveInv, TypeOK
  <2>2. Over(k) \/ k = m => Over(k)'
    BY <1>0 DEF Over
  <2>3. asked \subseteq asked' /\ (link'[k] = "stopping" => link[k] = "stopping")
    BY <2>1
  <2>4. events'[k] = "told" => events[k] = "told" \/ k = m
    BY <1>0
  <2> QED BY <1>b, <1>c, <2>1, <2>2, <2>3, <2>4 DEF EndHolds
<1>5. StreamsAreHeld' /\ EndsOnRequest'
  BY <1>0, <1>a DEF LiveInv, StreamsAreHeld, EndsOnRequest
<1>6. LiveIsTakenCareOf'
  BY <1>0 DEF LiveInv, LiveIsTakenCareOf, Mounted
<1>7. ProcessingIsEnded' /\ UnseenStreamWasLeftStarting'
  BY <1>0, <1>a DEF LiveInv, ProcessingIsEnded, UnseenStreamWasLeftStarting, Processing,
              Recording, Mounted, Over
<1> QED BY <1>0, <1>1, <1>2, <1>3, <1>4, <1>5, <1>6, <1>7 DEF LiveInv

(* A finish() that is over: its place is free again. *)
LEMMA FinClears ==
    ASSUME LiveInv, NEW m \in Meetings,
           fin' = fin \/ \E c \in Clicks : fin' = [fin EXCEPT ![m][c] = "no"]
    PROVE  /\ fin' \in [Meetings -> [Clicks -> {"no", "mic", "request", "answered", "raised"}]]
           /\ \A k \in Meetings, c \in Clicks : fin'[k][c] # "no" => fin'[k][c] = fin[k][c]
<1>1. fin \in [Meetings -> [Clicks -> {"no", "mic", "request", "answered", "raised"}]]
  BY DEF LiveInv, TypeOK
<1>2. CASE fin' = fin
  BY <1>1, <1>2
<1>3. CASE \E c \in Clicks : fin' = [fin EXCEPT ![m][c] = "no"]
  <2>1. PICK c \in Clicks : fin' = [fin EXCEPT ![m][c] = "no"]
    BY <1>3
  <2> QED BY <1>1, <2>1
<1> QED BY <1>2, <1>3

(* The section that began m, if it is mounted, is one with a stream and so  *)
(* the one on screen: it turns to processing and lets go of the microphone. *)
LEMMA ProcessingStep ==
    ASSUME LiveInv, NEW m \in Meetings, EnterProcessing(m),
           Streamed(m), Over(m), m \in asked \cup cutShort,
           fin' = fin \/ \E c \in Clicks : fin' = [fin EXCEPT ![m][c] = "no"],
           UNCHANGED <<page, meetingId, error, beginVars, serverVars, ticks, faults, unsure,
                       asked>>
    PROVE  LiveInv'
<1> USE DEF beginVars, serverVars
<1>0. alive[m] => Mounted /\ meetingId = m /\ phase \in {"recording", "processing"}
  BY DEF LiveInv, SectionHolds
<1>c. /\ fin' \in [Meetings -> [Clicks -> {"no", "mic", "request", "answered", "raised"}]]
      /\ \A k \in Meetings, c \in Clicks : fin'[k][c] # "no" => fin'[k][c] = fin[k][c]
  BY FinClears
<1>a. /\ events' = [events EXCEPT ![m] = "closed"]
      /\ phase' = IF alive[m] THEN "processing" ELSE phase
      /\ reloads' = IF alive[m] THEN OneMore(reloads, MaxReloads) ELSE reloads
  BY DEF EnterProcessing, MeetingsChanged
<1>b. /\ mic' \in [Meetings -> {"off", "captured", "streaming"}]
      /\ link' \in [Meetings -> {"none", "open", "stopping", "closed", "lost"}]
      /\ held' \in [Meetings -> BOOLEAN]
      /\ \A k \in Meetings : k # m => mic'[k] = mic[k] /\ link'[k] = link[k] /\ held'[k] = held[k]
      /\ held[m] => mic'[m] = "off"
      /\ ~held[m] => mic'[m] = mic[m] /\ held'[m] = held[m]
      /\ mic'[m] \in {"off", mic[m]}
      /\ held'[m] => held[m]
      /\ link'[m] # link[m] => link[m] = "open"
  <2>1. CASE held[m]
    <3>1. /\ mic' = [k \in Meetings |-> IF k \in {m} THEN "off" ELSE mic[k]]
          /\ link' = [k \in Meetings |->
                        IF k \in {m} /\ link[k] = "open" THEN "stopping" ELSE link[k]]
          /\ held' = [k \in Meetings |-> held[k] /\ k \notin {m}]
      BY <2>1 DEF EnterProcessing, StopMics
    <3>2. TypeOK
      BY DEF LiveInv
    <3>3. /\ mic' \in [Meetings -> {"off", "captured", "streaming"}]
          /\ link' \in [Meetings -> {"none", "open", "stopping", "closed", "lost"}]
          /\ held' \in [Meetings -> BOOLEAN]
      BY <3>1, <3>2 DEF TypeOK
    <3>4. \A k \in Meetings : k # m => held'[k] = held[k]
      BY <3>1, <3>2 DEF TypeOK
    <3> QED BY <2>1, <3>1, <3>3, <3>4
  <2>2. CASE ~held[m]
    BY <2>2 DEF EnterProcessing, audioVars, LiveInv, TypeOK
  <2> QED BY <2>1, <2>2
<1>1. TypeOK'
  <2>1. reloads' \in 0 .. MaxReloads
    BY <1>a, BoundsAssumption DEF OneMore, LiveInv, TypeOK
  <2> QED BY <1>a, <1>b, <1>c, <2>1 DEF LiveInv, TypeOK, Phases, EventsStates
<1>2. SectionHolds'
  BY <1>0, <1>a DEF LiveInv, TypeOK, SectionHolds, Underway, Streamed, Mounted
<1>3. \A k \in Meetings : StartHolds(k)'
  <2> SUFFICES ASSUME NEW k \in Meetings PROVE StartHolds(k)'
    OBVIOUS
  <2>1. StartHolds(k) /\ events'[m] = "closed" /\ (k # m => events'[k] = events[k])
    BY <1>a DEF LiveInv, TypeOK
  <2>2. CASE k # m
    BY <1>b, <2>1, <2>2 DEF StartHolds, Started, Underway, Streamed
  <2>3. CASE k = m
    BY <1>b, <2>1, <2>3 DEF StartHolds, Started, Underway, Streamed
  <2> QED BY <2>2, <2>3
<1>4. \A k \in Meetings : EndHolds(k)'
  <2> SUFFICES ASSUME NEW k \in Meetings PROVE EndHolds(k)'
    OBVIOUS
  <2>1. EndHolds(k) /\ events \in [Meetings -> EventsStates]
    BY DEF LiveInv, TypeOK
  <2>2. events'[k] = events[k] \/ (k = m /\ events'[k] = "closed")
    BY <1>a, <2>1
  <2>3. Streamed(k) => Streamed(k)'
    BY <2>2 DEF Streamed
  <2>4. mic'[k] = "streaming" => mic[k] = "streaming"
    BY <1>b
  <2>5. link'[k] = "stopping" => link[k] = "stopping" \/ k = m
    BY <1>b
  <2> QED BY <1>c, <2>1, <2>2, <2>3, <2>4, <2>5 DEF EndHolds, Over
<1>9. SessionHolds'
  BY DEF LiveInv, SessionHolds
<1>5. StreamsAreHeld' /\ EndsOnRequest'
  BY <1>b DEF LiveInv, StreamsAreHeld, EndsOnRequest
<1>6. LiveIsTakenCareOf'
  BY <1>0, <1>a DEF LiveInv, LiveIsTakenCareOf, Mounted
<1>7. ProcessingIsEnded'
  BY <1>0, <1>a DEF LiveInv, ProcessingIsEnded, Processing, Mounted, Over
<1>8. UnseenStreamWasLeftStarting'
  <2> SUFFICES ASSUME NEW k \in Meetings, mic'[k] = "streaming", ~Recording(k)',
                      k \notin leftEarly
               PROVE  FALSE
    BY DEF UnseenStreamWasLeftStarting
  <2>1. mic[k] = "streaming" /\ Recording(k)
    BY <1>b DEF LiveInv, UnseenStreamWasLeftStarting
  <2>2. meetingId = k /\ alive[k] /\ held[k]
    BY <2>1 DEF LiveInv, SectionHolds, StreamsAreHeld, Recording
  <2>3. k # m
    BY <1>b, <2>2
  <2>4. ~alive[m]
    BY <1>0, <2>2, <2>3
  <2> QED BY <1>a, <2>1, <2>4 DEF Recording, Mounted
<1> QED BY <1>1, <1>2, <1>3, <1>4, <1>5, <1>6, <1>7, <1>8, <1>9 DEF LiveInv

LEMMA FinishClickStep ==
    ASSUME LiveInv, NEW m \in Meetings, NEW c \in Clicks, FinishClick(m, c)
    PROVE  LiveInv'
<1> USE DEF dashVars, viewVars, beginVars, serverVars
<1>0. /\ alive[m] /\ Streamed(m) /\ phase = "recording" /\ StartHolds(m)
      /\ mic[m] = "streaming" => held[m]
  BY DEF FinishClick, Recording, LiveInv, SectionHolds, StreamsAreHeld
<1>a. /\ mic' \in [Meetings -> {"off", "captured", "streaming"}]
      /\ link' \in [Meetings -> {"none", "open", "stopping", "closed", "lost"}]
      /\ \A k \in Meetings : k # m => mic'[k] = mic[k] /\ link'[k] = link[k]
      /\ mic'[m] # "streaming"
  BY <1>0 DEF FinishClick, LiveInv, TypeOK
<1>b. /\ fin' \in [Meetings -> [Clicks -> {"no", "mic", "request", "answered", "raised"}]]
      /\ \A k \in Meetings, d \in Clicks :
           /\ fin'[k][d] # "no" => fin[k][d] # "no" \/ k = m
           /\ fin'[k][d] = "answered" => fin[k][d] = "answered"
  BY DEF FinishClick, LiveInv, TypeOK
<1>c. faults' \in 0 .. MaxFaults
  BY BoundsAssumption DEF FinishClick, Fault, LiveInv, TypeOK
<1>1. TypeOK'
  BY <1>a, <1>b, <1>c DEF FinishClick, LiveInv, TypeOK
<1>2. SectionHolds' /\ LiveIsTakenCareOf' /\ SessionHolds'
  BY DEF FinishClick, LiveInv, SectionHolds, LiveIsTakenCareOf, SessionHolds, Underway, Streamed,
         Mounted
<1>3. \A k \in Meetings : StartHolds(k)'
  BY <1>0, <1>a DEF FinishClick, LiveInv, TypeOK, StartHolds, Underway, Streamed, Started
<1>4. \A k \in Meetings : EndHolds(k)'
  <2> SUFFICES ASSUME NEW k \in Meetings PROVE EndHolds(k)'
    OBVIOUS
  <2>1. EndHolds(k) /\ m \in asked' /\ asked \subseteq asked'
    BY DEF LiveInv, FinishClick
  <2>2. mic'[k] = "streaming" => mic[k] = "streaming" /\ k # m
    BY <1>a
  <2>3. link'[k] = "stopping" => link[k] = "stopping" \/ k = m
    BY <1>a
  <2>4. UNCHANGED <<events, server, unstopped, cutShort>>
    BY DEF FinishClick
  <2> QED BY <1>0, <1>b, <2>1, <2>2, <2>3, <2>4 DEF EndHolds, Streamed, Over
<1>5. StreamsAreHeld' /\ EndsOnRequest'
  BY <1>a DEF FinishClick, LiveInv, StreamsAreHeld, EndsOnRequest
<1>6. ProcessingIsEnded' /\ UnseenStreamWasLeftStarting'
  BY <1>a DEF FinishClick, LiveInv, ProcessingIsEnded, UnseenStreamWasLeftStarting,
              Processing, Recording, Mounted
<1> QED BY <1>1, <1>2, <1>3, <1>4, <1>5, <1>6 DEF LiveInv

(* A finish() that fails or has got its answer leaves the rest as it is. *)
LEMMA FinishEndsStep ==
    ASSUME LiveInv, NEW m \in Meetings, faults' \in 0 .. MaxFaults, error' \in BOOLEAN,
           fin' = fin \/ \E c \in Clicks : fin' = [fin EXCEPT ![m][c] = "no"],
           UNCHANGED <<dashVars, phase, meetingId, beginVars, audioVars, serverVars, events,
                       ticks, unsure, asked>>
    PROVE  LiveInv'
<1> USE DEF dashVars, beginVars, audioVars, serverVars
<1>0. TypeOK
  BY DEF LiveInv
<1>a. /\ fin' \in [Meetings -> [Clicks -> {"no", "mic", "request", "answered", "raised"}]]
      /\ \A k \in Meetings, c \in Clicks : fin'[k][c] # "no" => fin'[k][c] = fin[k][c]
  BY FinClears
<1>1. TypeOK'
  BY <1>0, <1>a DEF TypeOK
<1>2. SectionHolds' /\ LiveIsTakenCareOf' /\ SessionHolds'
  BY DEF LiveInv, SectionHolds, LiveIsTakenCareOf, SessionHolds, Underway, Streamed, Mounted
<1>3. \A k \in Meetings : StartHolds(k)'
  BY DEF LiveInv, StartHolds, Underway, Streamed, Started
<1>6. \A k \in Meetings : EndHolds(k)'
  BY <1>a DEF LiveInv, EndHolds, Streamed, Over
<1>4. StreamsAreHeld' /\ EndsOnRequest'
  BY DEF LiveInv, StreamsAreHeld, EndsOnRequest
<1>5. ProcessingIsEnded' /\ UnseenStreamWasLeftStarting'
  BY DEF LiveInv, ProcessingIsEnded, UnseenStreamWasLeftStarting, Processing, Recording,
         Mounted
<1> QED BY <1>1, <1>2, <1>3, <1>4, <1>5, <1>6 DEF LiveInv

LEMMA FinishMicStoppedStep ==
    ASSUME LiveInv, NEW m \in Meetings, NEW c \in Clicks, FinishMicStopped(m, c)
    PROVE  LiveInv'
<1> USE DEF FinishMicStopped, dashVars, viewVars, beginVars, serverVars
<1>0. TypeOK /\ EndHolds(m) /\ fin[m][c] # "no"
  BY DEF LiveInv
<1>a. /\ fin' \in [Meetings -> [Clicks -> {"no", "mic", "request", "answered", "raised"}]]
      /\ \A k \in Meetings, d \in Clicks :
           /\ fin'[k][d] # "no" => fin[k][d] # "no"
           /\ fin'[k][d] = "answered" => fin[k][d] = "answered"
      /\ held' \in [Meetings -> BOOLEAN]
      /\ \A k \in Meetings : (held'[k] => held[k]) /\ (k # m => held'[k] = held[k])
      /\ mic[m] # "streaming"
  BY <1>0 DEF TypeOK, EndHolds
<1>1. TypeOK'
  BY <1>0, <1>a DEF TypeOK
<1>2. SectionHolds' /\ LiveIsTakenCareOf' /\ SessionHolds'
  BY DEF LiveInv, SectionHolds, LiveIsTakenCareOf, SessionHolds, Underway, Streamed, Mounted
<1>3. \A k \in Meetings : StartHolds(k)'
  BY <1>a DEF LiveInv, StartHolds, Underway, Streamed, Started
<1>6. \A k \in Meetings : EndHolds(k)'
  BY <1>a DEF LiveInv, EndHolds, Streamed, Over
<1>4. StreamsAreHeld' /\ EndsOnRequest'
  BY <1>a DEF LiveInv, StreamsAreHeld, EndsOnRequest
<1>5. ProcessingIsEnded' /\ UnseenStreamWasLeftStarting'
  BY DEF LiveInv, ProcessingIsEnded, UnseenStreamWasLeftStarting, Processing, Recording,
         Mounted
<1> QED BY <1>1, <1>2, <1>3, <1>4, <1>5, <1>6 DEF LiveInv

LEMMA FinishStep ==
    ASSUME LiveInv, NEW m \in Meetings, Finish(m)
    PROVE  LiveInv'
<1>0. TypeOK /\ StartHolds(m) /\ EndHolds(m) /\ faults \in 0 .. MaxFaults
      /\ error \in BOOLEAN /\ alive[m] \in BOOLEAN
  BY DEF LiveInv, TypeOK
<1>1. CASE FinishTwice(m)
  BY <1>0, <1>1, FinishEndsStep DEF FinishTwice
<1>2. ASSUME NEW c \in Clicks, FinishHandled(m, c)
      PROVE  LiveInv'
  <2>1. Started(m) /\ m \in asked
    BY <1>0, <1>2 DEF FinishHandled, StartHolds, EndHolds
  <2>2. /\ StopSession(m) /\ fin[m][c] = "request"
        /\ \E v \in {"answered", "raised"} : fin' = [fin EXCEPT ![m][c] = v]
        /\ UNCHANGED <<dashVars, viewVars, beginVars, held, mic, link, ticks, unsure, asked>>
    BY <1>2 DEF FinishHandled, StopSession, audioVars
  <2> QED BY <2>1, <2>2, StopStep
<1>3. ASSUME NEW c \in Clicks, FinishAnswer(m, c)
      PROVE  LiveInv'
  <2>1. Streamed(m) /\ Over(m) /\ m \in asked
    BY <1>0, <1>3 DEF FinishAnswer, EndHolds
  <2> QED BY <1>3, <2>1, ProcessingStep DEF FinishAnswer
<1>4. ASSUME NEW c \in Clicks, FinishFail(m, c) \/ FinishRaised(m, c)
      PROVE  LiveInv'
  <2>1. faults' \in 0 .. MaxFaults
    BY <1>0, <1>4, BoundsAssumption DEF FinishFail, FinishRaised, Fault
  <2>2. FinishError(m, c)
    BY <1>4 DEF FinishFail, FinishRaised
  <2> QED BY <1>0, <2>1, <2>2, FinishEndsStep DEF FinishError
<1> QED BY <1>1, <1>2, <1>3, <1>4, FinishClickStep, FinishMicStoppedStep DEF Finish

-----------------------------------------------------------------------------
(* The sockets, and the rest of the server *)

LEMMA LinkDropStep ==
    ASSUME LiveInv, NEW m \in Meetings, LinkDrop(m)
    PROVE  LiveInv'
<1> USE DEF LinkDrop, dashVars, viewVars, beginVars, serverVars
<1>0. TypeOK /\ StartHolds(m)
  BY DEF LiveInv
<1>1. TypeOK'
  BY <1>0, BoundsAssumption DEF TypeOK, Fault
<1>2. SectionHolds' /\ LiveIsTakenCareOf' /\ SessionHolds'
  BY DEF LiveInv, SectionHolds, LiveIsTakenCareOf, SessionHolds, Underway, Streamed,
         Mounted
<1>3. \A k \in Meetings : StartHolds(k)' /\ EndHolds(k)'
  BY <1>0 DEF LiveInv, TypeOK, StartHolds, EndHolds, Underway, Streamed, Started, Over
<1>4. StreamsAreHeld' /\ EndsOnRequest'
  BY DEF LiveInv, StreamsAreHeld, EndsOnRequest
<1>5. ProcessingIsEnded' /\ UnseenStreamWasLeftStarting'
  BY DEF LiveInv, ProcessingIsEnded, UnseenStreamWasLeftStarting, Processing, Recording,
         Mounted
<1> QED BY <1>1, <1>2, <1>3, <1>4, <1>5 DEF LiveInv

(* The events socket moves on without a word to the section. *)
LEMMA EventsStep ==
    ASSUME LiveInv, NEW m \in Meetings, Streamed(m),
           NEW e \in EventsStates \ {"none", "told"},
           events' = [events EXCEPT ![m] = e], faults' \in 0 .. MaxFaults,
           UNCHANGED <<dashVars, viewVars, beginVars, audioVars, serverVars, fin, ticks,
                       unsure, asked>>
    PROVE  LiveInv'
<1> USE DEF dashVars, viewVars, beginVars, audioVars, serverVars
<1>0. TypeOK
  BY DEF LiveInv
<1>1. TypeOK' /\ (\A k \in Meetings : Streamed(k)' <=> Streamed(k))
  BY <1>0 DEF TypeOK, Streamed
<1>2. SectionHolds' /\ LiveIsTakenCareOf' /\ SessionHolds'
  BY <1>1 DEF LiveInv, SectionHolds, LiveIsTakenCareOf, SessionHolds, Underway, Mounted
<1>3. \A k \in Meetings : StartHolds(k)' /\ EndHolds(k)'
  BY <1>0, <1>1 DEF LiveInv, TypeOK, StartHolds, EndHolds, Underway, Started, Over
<1>4. StreamsAreHeld' /\ EndsOnRequest'
  BY DEF LiveInv, StreamsAreHeld, EndsOnRequest
<1>5. ProcessingIsEnded' /\ UnseenStreamWasLeftStarting'
  BY DEF LiveInv, ProcessingIsEnded, UnseenStreamWasLeftStarting, Processing, Recording,
         Mounted
<1> QED BY <1>1, <1>2, <1>3, <1>4, <1>5 DEF LiveInv

LEMMA SocketsStep ==
    ASSUME LiveInv, NEW m \in Meetings, Sockets(m)
    PROVE  LiveInv'
<1>0. TypeOK /\ StartHolds(m) /\ EndHolds(m) /\ faults \in 0 .. MaxFaults
  BY DEF LiveInv, TypeOK
<1>1. CASE StopFrame(m)
  <2>1. Started(m) /\ m \in asked \cup cutShort
    BY <1>0, <1>1 DEF StopFrame, StartHolds, EndHolds
  <2> QED BY <1>1, <2>1, StopStep DEF StopFrame
<1>2. CASE LinkDrop(m)
  BY <1>2, LinkDropStep
<1>3. CASE EventsLookup(m)
  BY <1>0, <1>3, EventsStep DEF EventsLookup, Streamed, EventsStates
<1>4. CASE EventsSubscribe(m)
  BY <1>0, <1>4, EventsStep DEF EventsSubscribe, Streamed, EventsStates
<1>5. CASE EventsDeliver(m)
  <2>1. Streamed(m) /\ Over(m) /\ m \in asked \cup cutShort
    BY <1>0, <1>5 DEF EventsDeliver, EndHolds, Streamed
  <2> QED BY <1>5, <2>1, ProcessingStep DEF EventsDeliver
<1>6. CASE EventsDrop(m)
  <2>1. faults' \in 0 .. MaxFaults /\ Streamed(m) /\ "closed" \in EventsStates \ {"none", "told"}
    BY <1>0, <1>6, BoundsAssumption DEF EventsDrop, Fault, Streamed, EventsStates
  <2> QED BY <1>6, <2>1, EventsStep DEF EventsDrop
<1> QED BY <1>1, <1>2, <1>3, <1>4, <1>5, <1>6 DEF Sockets

LEMMA QualityPassStep ==
    ASSUME LiveInv, NEW m \in Meetings, QualityPass(m)
    PROVE  LiveInv'
<1> USE DEF dashVars, viewVars, beginVars, audioVars
<1>0. /\ server' \in [Meetings -> Statuses] /\ TypeOK
      /\ \A k \in Meetings :
           /\ server'[k] \in Ended <=> server[k] \in Ended
           /\ server[k] \notin Ended => server'[k] = server[k]
           /\ server[k] \in Ended => server'[k] \notin {"none", "created", "live"}
  BY DEF QualityPass, LiveInv, TypeOK, Settled, Statuses, Ended
<1>1. TypeOK'
  BY <1>0 DEF QualityPass, TypeOK
<1>7. SessionHolds'
  BY <1>0 DEF QualityPass, LiveInv, SessionHolds, Ended
<1>2. SectionHolds'
  BY DEF QualityPass, LiveInv, SectionHolds, Underway, Streamed, Mounted
<1>3. \A k \in Meetings : StartHolds(k)' /\ EndHolds(k)'
  BY <1>0 DEF QualityPass, LiveInv, StartHolds, EndHolds, Underway, Streamed, Started, Ended,
              Over
<1>4. StreamsAreHeld' /\ EndsOnRequest'
  BY <1>0 DEF QualityPass, LiveInv, StreamsAreHeld, EndsOnRequest
<1>5. LiveIsTakenCareOf'
  BY <1>0 DEF QualityPass, LiveInv, LiveIsTakenCareOf, Mounted
<1>6. ProcessingIsEnded' /\ UnseenStreamWasLeftStarting'
  BY <1>0 DEF QualityPass, LiveInv, ProcessingIsEnded, UnseenStreamWasLeftStarting,
              Processing, Recording, Mounted
<1> QED BY <1>1, <1>2, <1>3, <1>4, <1>5, <1>6, <1>7 DEF LiveInv

LEMMA RestartStep == ASSUME LiveInv, Restart PROVE LiveInv'
<1> USE DEF dashVars, viewVars, beginVars
<1>0. TypeOK
  BY DEF LiveInv
<1>a. /\ server' \in [Meetings -> Statuses]
      /\ \A k \in Meetings :
           /\ server[k] # "live" => server'[k] = server[k]
           /\ server[k] = "live" => server'[k] \in Ended /\ k \in asked'
           /\ server'[k] # "live"
  BY <1>0 DEF Restart, TypeOK, Statuses, Ended
<1>b. /\ link' \in [Meetings -> {"none", "open", "stopping", "closed", "lost"}]
      /\ events' \in [Meetings -> EventsStates]
      /\ \A k \in Meetings :
           /\ link'[k] # "stopping" /\ events'[k] # "told"
           /\ link'[k] = "none" <=> link[k] = "none"
           /\ Streamed(k)' <=> Streamed(k)
  BY <1>0 DEF Restart, TypeOK, EventsStates, Streamed
<1>c. faults' \in 0 .. MaxFaults /\ asked' \subseteq Meetings /\ asked \subseteq asked'
  BY <1>0, BoundsAssumption DEF Restart, Fault, TypeOK
<1>1. TypeOK'
  BY <1>0, <1>a, <1>b, <1>c DEF Restart, TypeOK
<1>2. SectionHolds' /\ LiveIsTakenCareOf' /\ SessionHolds'
  BY <1>a, <1>b DEF Restart, LiveInv, SectionHolds, LiveIsTakenCareOf, SessionHolds, Underway,
                    Mounted
<1>3. \A k \in Meetings : StartHolds(k)'
  BY <1>a, <1>b DEF Restart, LiveInv, StartHolds, Underway, Started
<1>4. \A k \in Meetings : EndHolds(k)'
  BY <1>a, <1>b, <1>c DEF Restart, LiveInv, EndHolds, Ended, Over
<1>5. StreamsAreHeld' /\ EndsOnRequest'
  BY <1>a, <1>c DEF Restart, LiveInv, StreamsAreHeld, EndsOnRequest
<1>6. ProcessingIsEnded' /\ UnseenStreamWasLeftStarting'
  BY <1>a DEF Restart, LiveInv, ProcessingIsEnded, UnseenStreamWasLeftStarting,
              Processing, Recording, Mounted, Ended
<1> QED BY <1>1, <1>2, <1>3, <1>4, <1>5, <1>6 DEF LiveInv

-----------------------------------------------------------------------------
(* The theorems *)

LEMMA LiveInit_Inv == Init => LiveInv
<1> SUFFICES ASSUME Init PROVE LiveInv
  OBVIOUS
<1>1. TypeOK
  <2>1. /\ 1 \in 0 .. MaxReloads /\ 0 \in 0 .. MaxFaults /\ 0 \in 0 .. MaxTicks
        /\ {} \subseteq Meetings
    BY BoundsAssumption
  <2>2. /\ page \in Pages /\ phase \in Phases /\ step \in [Meetings -> Steps]
        /\ server \in [Meetings -> Statuses] /\ events \in [Meetings -> EventsStates]
    BY DEF Init, Pages, Phases, Steps, Statuses, EventsStates
  <2> QED BY <2>1, <2>2 DEF Init, TypeOK
<1>2. SectionHolds /\ StreamsAreHeld /\ LiveIsTakenCareOf /\ SessionHolds
  BY DEF Init, SectionHolds, StreamsAreHeld, LiveIsTakenCareOf, SessionHolds
<1>3. \A m \in Meetings : StartHolds(m) /\ EndHolds(m)
  BY DEF Init, StartHolds, EndHolds, Underway, Streamed
<1>4. ProcessingIsEnded /\ UnseenStreamWasLeftStarting /\ EndsOnRequest
  BY DEF Init, ProcessingIsEnded, UnseenStreamWasLeftStarting, EndsOnRequest, Processing, Ended
<1> QED BY <1>1, <1>2, <1>3, <1>4 DEF LiveInv

LEMMA LiveNext_Inv == LiveInv /\ [Next]_vars => LiveInv'
<1> SUFFICES ASSUME LiveInv, [Next]_vars PROVE LiveInv'
  OBVIOUS
<1>1. CASE ListsAnswer \/ ListsFail \/ Leave \/ Return \/ Restart
  BY <1>1, ListsAnswerStep, ListsFailStep, LeaveStep, ReturnStep, RestartStep
<1>2. ASSUME NEW m \in Meetings,
             BeginClick(m) \/ Begin(m) \/ Finish(m) \/ Sockets(m) \/ Poll(m)
      PROVE  LiveInv'
  BY <1>2, BeginClickStep, BeginStep, FinishStep, SocketsStep, PollStep
<1>3. ASSUME NEW m \in Meetings, OtherStop(m) \/ QualityPass(m)
      PROVE  LiveInv'
  <2>1. CASE OtherStop(m)
    <3>1. Started(m)
      BY <2>1 DEF OtherStop, Started, LiveInv, SessionHolds
    <3> QED BY <2>1, <3>1, StopStep DEF OtherStop, audioVars
  <2> QED BY <1>3, <2>1, QualityPassStep
<1>4. CASE UNCHANGED vars
  <2>1. Mounted' = Mounted
    BY <1>4 DEF vars, dashVars, Mounted
  <2> QED BY <1>4, <2>1, DashboardStep DEF vars, dashVars, LiveInv, TypeOK
<1> QED BY <1>1, <1>2, <1>3, <1>4 DEF Next

LEMMA LiveAlways == Spec => []LiveInv
BY LiveInit_Inv, LiveNext_Inv, PTL DEF Spec

(* The variables of the screen and of the part of the server it talks to    *)
(* keep their types.                                                        *)
THEOREM TypeCorrect == Spec => []TypeOK
<1>1. LiveInv => TypeOK
  BY DEF LiveInv
<1> QED BY <1>1, LiveAlways, PTL

(* LiveMeetingSection.tsx shows «processing» only of a meeting the server   *)
(* has ended, or one of whose stops raised; and back in its setup form it   *)
(* has left no session of its own unless the answer to the start or the stop*)
(* request was lost, and no other live row but one whose stop raised.       *)
THEOREM ScreenIsTruthful == Spec => []PhaseIsTruthful
<1>1. LiveInv => PhaseIsTruthful
  <2> SUFFICES ASSUME LiveInv PROVE SetupLeavesNothingLive
    BY DEF LiveInv, PhaseIsTruthful
  <2>1. ASSUME NEW m \in Meetings, Mounted, phase = "setup", alive[m], m \in sessions
        PROVE  m \in unsure
    <3>1. m \in unsure \/ step[m] \in {"media", "audio", "undo"}
      BY <2>1 DEF LiveInv, LiveIsTakenCareOf
    <3> QED BY <2>1, <3>1 DEF LiveInv, SectionHolds, Underway
  <2>2. \A m \in Meetings : server[m] = "live" => m \in sessions \cup unstopped
    BY DEF LiveInv, SessionHolds
  <2> QED BY <2>1, <2>2 DEF SetupLeavesNothingLive
<1> QED BY <1>1, LiveAlways, PTL

(* A microphone streams without a section that records with it only if the  *)
(* section went away while begin() was waiting: the cleanup stops every     *)
(* other stream.                                                            *)
THEOREM NoOtherUnseenStream == Spec => []UnseenStreamWasLeftStarting
<1>1. LiveInv => UnseenStreamWasLeftStarting
  BY DEF LiveInv
<1> QED BY <1>1, LiveAlways, PTL

(* A recording ends because somebody asked, or because the dashboard threw  *)
(* its section out; a dropped socket or a lost answer ends none.            *)
THEOREM NobodyElseEndsIt == Spec => []EndsOnRequest
<1>1. LiveInv => EndsOnRequest
  BY DEF LiveInv
<1> QED BY <1>1, LiveAlways, PTL

=============================================================================
