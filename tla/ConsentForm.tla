---------------------------- MODULE ConsentForm -----------------------------
(***************************************************************************)
(* The consent to cloud transcription from the click to the upload: the    *)
(* setup form of LiveMeetingSection.tsx with the readiness that the        *)
(* application caches (AppContext.tsx), create_meeting at the server       *)
(* (api/meetings.py) and the cloud part of the quality pass                *)
(* (audio/quality_pass.py).  What happens between the start and the end of *)
(* the recording is LiveScreen's.                                          *)
(***************************************************************************)
EXTENDS CloudSettings

CONSTANT Mics    \* the microphones of the meeting are 1 .. Mics

ASSUME MicsAssumption == Mics \in Nat \ {0}

VARIABLES
    readiness,     \* cloudReadiness of the application
    refresh,       \* the answer of a readiness request, under way
    confidential,  \* the form: «confidential»,
    cloudTick,     \* and cloudTranscribe, the consent as the form keeps it
    starting,      \* the create request under way, if any, and if it is checked
    row,           \* the meeting at the server, and its quality pass
    consenting,    \* a set_cloud_transcribe between its check and its write
    uploaded,      \* microphones whose audio went to the cloud
    ticked,        \* ghost: the consent box was shown ticked at the click
    onlineAt       \* ghost: steps at which the server was found online

formVars      == <<confidential, cloudTick, starting>>
readinessVars == <<readiness, refresh>>
rowVars       == <<row, consenting, uploaded, ticked, onlineAt>>
consentVars   == <<formVars, readinessVars, rowVars>>

Reasons == {"air_gapped", "offline_mode", "usable"}
NoRow   == [pass |-> "none", consent |-> FALSE, secret |-> FALSE]

(* What the form shows: the box is closed with a reason, and then unticked  *)
(* whatever cloudTranscribe says.                                           *)
BoxClosed == confidential \/ readiness \in {"air_gapped", "offline_mode"}
BoxTicked == cloudTick /\ ~BoxClosed

(* The form as it is mounted *)
FormFresh == confidential = FALSE /\ cloudTick = FALSE /\ starting = {}

ConsentInit ==
    /\ FormFresh
    /\ readiness = "unknown" /\ refresh = Readiness
    /\ row = NoRow /\ consenting = "no"
    /\ uploaded = {} /\ ticked = FALSE /\ onlineAt = {}

-----------------------------------------------------------------------------
(* refreshCloudReadiness: at sign-in and after a confirmed skill *)

AskReadiness ==
    /\ refresh = "none"
    /\ refresh' = Readiness
    /\ UNCHANGED <<cloudVars, readiness, formVars, rowVars>>

ReadinessArrives ==
    /\ refresh # "none"
    /\ readiness' \in {refresh, "unknown"}    \* the request may fail
    /\ refresh' = "none"
    /\ UNCHANGED <<cloudVars, formVars, rowVars>>

-----------------------------------------------------------------------------
(* The form *)

InForm == row.pass = "none" /\ starting = {}

TickConfidential ==
    /\ InForm
    /\ confidential' = ~confidential
    /\ cloudTick' = (cloudTick /\ ~confidential')
    /\ UNCHANGED <<cloudVars, starting, readinessVars, rowVars>>

TickCloud ==
    /\ InForm /\ ~BoxClosed
    /\ cloudTick' = ~cloudTick
    /\ UNCHANGED <<cloudVars, confidential, starting, readinessVars, rowVars>>

(* begin(): the body is made of what the form keeps, not of what it shows.  *)
BeginMeeting ==
    /\ InForm
    /\ starting' = {[consent |-> cloudTick /\ ~confidential, secret |-> confidential,
                      checked |-> FALSE]}
    /\ ticked' = BoxTicked
    /\ UNCHANGED <<cloudVars, confidential, cloudTick, readinessVars,
                   row, consenting, uploaded, onlineAt>>

(* create_meeting: consent is masked for a confidential meeting, and an     *)
(* offline server refuses it; *)
CreateChecked ==
    /\ \E body \in starting :
         LET consent == body.consent /\ ~body.secret
         IN /\ ~body.checked
            /\ starting' = IF consent /\ ~Online THEN {}
                           ELSE {[body EXCEPT !.consent = consent, !.checked = TRUE]}
            /\ onlineAt' = IF consent /\ Online THEN {"consent"} ELSE {}
    /\ UNCHANGED <<cloudVars, confidential, cloudTick, readinessVars,
                   row, consenting, uploaded, ticked>>

(* then the row is inserted, whatever the mode is by now.                   *)
CreateInserted ==
    /\ \E body \in starting :
         /\ body.checked
         /\ row' = [pass |-> "created", consent |-> body.consent, secret |-> body.secret]
    /\ starting' = {}
    /\ UNCHANGED <<cloudVars, confidential, cloudTick, readinessVars,
                   consenting, uploaded, ticked, onlineAt>>

-----------------------------------------------------------------------------
(* set_cloud_transcribe, for clients other than this form: the row is read  *)
(* and checked first, and written when the meeting may have started.        *)

ConsentChecked(value) ==
    /\ row.pass = "created" /\ consenting = "no"
    /\ others < MaxOthers /\ others' = others + 1
    /\ value => ~row.secret /\ Online
    /\ consenting' = IF value THEN "on" ELSE "off"
    /\ UNCHANGED <<settingVars, switching, formVars, readinessVars, row, uploaded, ticked,
                   onlineAt>>

ConsentWritten ==
    /\ consenting # "no"
    /\ consenting' = "no"
    /\ row' = [row EXCEPT !.consent = consenting = "on"]
    /\ ticked' = (ticked \/ consenting = "on")
    /\ onlineAt' = IF consenting = "on" THEN {"consent"} ELSE onlineAt
    /\ UNCHANGED <<cloudVars, formVars, readinessVars, uploaded>>

-----------------------------------------------------------------------------
(* The quality pass, its cloud part *)

StartMeeting ==
    /\ row.pass = "created"
    /\ row' = [row EXCEPT !.pass = "recording"]
    /\ UNCHANGED <<cloudVars, formVars, readinessVars, consenting, uploaded, ticked,
                   onlineAt>>

PassBegins_AnyMode ==
    /\ row.pass = "recording" /\ consenting = "no"
    /\ LET cloud == row.consent /\ "asr" \in keys
       IN /\ row' = [row EXCEPT !.pass = IF cloud THEN "cloud" ELSE "local"]
          /\ onlineAt' = IF cloud /\ Online THEN onlineAt \cup {"pass"} ELSE onlineAt
    /\ UNCHANGED <<cloudVars, formVars, readinessVars, consenting, uploaded, ticked>>

(* The recording is over, longer than any request takes, and the pass       *)
(* begins: mode, consent and provider are looked at once.                   *)
PassBegins ==
    /\ row.pass = "recording" /\ consenting = "no"
    /\ LET cloud == row.consent /\ Online /\ "asr" \in keys
       IN /\ row' = [row EXCEPT !.pass = IF cloud THEN "cloud" ELSE "local"]
          /\ onlineAt' = IF cloud THEN onlineAt \cup {"pass"} ELSE onlineAt
    /\ UNCHANGED <<cloudVars, formVars, readinessVars, consenting, uploaded, ticked>>

Upload_FromZero ==
    /\ row.pass = "cloud"
    /\ \E mic \in (0 .. Mics - 1) \ uploaded :
         /\ uploaded' = uploaded \cup {mic}
         /\ row' = [row EXCEPT !.pass = IF mic = Mics - 1 THEN "done" ELSE "cloud"]
    /\ UNCHANGED <<cloudVars, formVars, readinessVars, consenting, ticked, onlineAt>>

(* The microphones go up one after another. *)
Upload ==
    /\ row.pass = "cloud"
    /\ \E mic \in (1 .. Mics) \ uploaded :
         /\ \A k \in 1 .. (mic - 1) : k \in uploaded
         /\ uploaded' = uploaded \cup {mic}
         /\ row' = [row EXCEPT !.pass = IF mic = Mics THEN "done" ELSE "cloud"]
    /\ UNCHANGED <<cloudVars, formVars, readinessVars, consenting, ticked, onlineAt>>

(* Any failure falls back to the local pass, from the first microphone on.  *)
CloudFails ==
    /\ row.pass = "cloud"
    /\ row' = [row EXCEPT !.pass = "local"]
    /\ UNCHANGED <<cloudVars, formVars, readinessVars, consenting, uploaded, ticked,
                   onlineAt>>

LocalPass ==
    /\ row.pass = "local"
    /\ row' = [row EXCEPT !.pass = "done"]
    /\ UNCHANGED <<cloudVars, formVars, readinessVars, consenting, uploaded, ticked,
                   onlineAt>>

ConsentNext ==
    \/ AskReadiness \/ ReadinessArrives
    \/ TickConfidential \/ TickCloud
    \/ BeginMeeting \/ CreateChecked \/ CreateInserted
    \/ \E value \in BOOLEAN : ConsentChecked(value)
    \/ ConsentWritten
    \/ StartMeeting \/ PassBegins \/ Upload \/ CloudFails \/ LocalPass

-----------------------------------------------------------------------------
ConsentTypeOK ==
    /\ readiness \in Reasons \cup {"unknown"} /\ refresh \in Reasons \cup {"none"}
    /\ confidential \in BOOLEAN /\ cloudTick \in BOOLEAN
    /\ starting \subseteq [consent : BOOLEAN, secret : BOOLEAN, checked : BOOLEAN]
    /\ row \in [pass : {"none", "created", "recording", "cloud", "local", "done"},
                consent : BOOLEAN, secret : BOOLEAN]
    /\ consenting \in {"no", "on", "off"}
    /\ uploaded \subseteq 1 .. Mics
    /\ ticked \in BOOLEAN /\ onlineAt \subseteq {"consent", "pass"}

(* Audio leaves the server only of a meeting that carries the consent, is   *)
(* not confidential, and found the server online twice: when the consent    *)
(* was taken and when the pass began.  (That the server still is online at  *)
(* the second microphone is not promised: the pass looks once.  Nor is that *)
(* the consent was there before the start, as «pre-meeting only» of         *)
(* meetings.py:173 has it: ConsentWritten may come after StartMeeting.)     *)
UploadsAreCovered ==
    uploaded # {} => /\ row.consent /\ ~row.secret
                     /\ onlineAt = {"consent", "pass"}

(* A meeting carries the consent only if the box that asks for it was shown *)
(* ticked when the meeting was begun.                                       *)
ConsentWasShown == row.consent => ticked

=============================================================================
