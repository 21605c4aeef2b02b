---------------------------- MODULE ScreensProofs ----------------------------
(***************************************************************************)
(* What the server promises behind the screens, proved of Screens for any  *)
(* value of its constants, in three parts that have an inductive invariant *)
(* each:                                                                   *)
(*   - what the cloud gets: CloudIsCovered;                                *)
(*   - documents and their index: DocumentsAreSound;                       *)
(*   - signing in and out: SignInIsSound.                                  *)
(* PagesProofs goes on with what the pages show.                           *)
(***************************************************************************)
EXTENDS Screens, FiniteSetTheorems, TLAPS

-----------------------------------------------------------------------------
(* The cloud: the inductive invariant *)

SettingsTyped ==
    /\ profile \in Profiles /\ mode \in Modes /\ keys \subseteq Keys
    /\ reachable \in BOOLEAN /\ reopened \in BOOLEAN

Args           == Profiles \cup Modes \cup Keys \cup {"none"}
ShownSettings  == [profile : Profiles, keys : SUBSET Keys]
ShownModes     == [mode : Modes, available : BOOLEAN]
Dos            == {"none", "load", "profile", "setKey", "clearKey", "mode", "backup", "user",
                   "remove"}
Ats            == {"idle", "asked", "checked", "answered", "refused", "refetch", "refetched",
                   "over"}
ClickRecords   == [do : Dos, at : Ats, arg : Args, up : BOOLEAN, got : SUBSET ShownSettings,
                   mode : SUBSET ShownModes, users : SUBSET BOOLEAN]

StoresTyped == archived \in BOOLEAN /\ member \in BOOLEAN

(* A switch to online on its way, from elsewhere or from the page, has been *)
(* probed.                                                                  *)
SwitchesProbed ==
    \A s \in switching :
        s.mode \in Modes /\ s.up \in BOOLEAN /\ (s.mode = "online" => s.up)

ClicksProbed ==
    \A k \in Clicks :
        click[k].do = "mode" /\ click[k].at = "checked" /\ click[k].arg = "online" => click[k].up

(* A handler carries the kind of argument that its click had. *)
ArgsFit ==
    \A k \in Clicks :
        /\ click[k].do = "profile" => click[k].arg \in Profiles
        /\ click[k].do = "mode" => click[k].arg \in Modes
        /\ click[k].do = "setKey" => click[k].arg \in Keys

ClicksTyped == click \in [Clicks -> ClickRecords] /\ StoresTyped /\ ArgsFit /\ ClicksProbed

Passes == {"none", "created", "recording", "cloud", "local", "done"}

FormTyped ==
    /\ confidential \in BOOLEAN /\ cloudTick \in BOOLEAN
    /\ starting \subseteq [consent : BOOLEAN, secret : BOOLEAN, checked : BOOLEAN]
    /\ row \in [pass : Passes, consent : BOOLEAN, secret : BOOLEAN]
    /\ consenting \in {"no", "on", "off"}
    /\ onlineAt \subseteq {"consent", "pass"}

(* A create request is of a meeting that does not exist yet, and once       *)
(* checked, its consent was not granted to a confidential one or offline.   *)
StartsFresh ==
    /\ starting # {} => row.pass = "none"
    /\ row.pass = "none" => ~row.consent
    /\ \A body \in starting :
         body.checked /\ body.consent => ~body.secret /\ "consent" \in onlineAt

(* A change of the consent is written before the quality pass reads it, and *)
(* was not granted to a confidential meeting.                               *)
ConsentInTime ==
    /\ consenting # "no" => row.pass \in {"created", "recording"}
    /\ consenting = "on" => ~row.secret

NothingBeforePass == row.pass \in {"none", "created", "recording"} => uploaded = {}

ConsentWasOnline == row.consent => ~row.secret /\ "consent" \in onlineAt

CloudPassIsCovered ==
    (row.pass = "cloud" \/ uploaded # {}) =>
        /\ row.consent /\ ~row.secret /\ onlineAt = {"consent", "pass"}

RowHolds ==
    /\ FormTyped /\ StartsFresh /\ ConsentInTime /\ NothingBeforePass
    /\ ConsentWasOnline /\ CloudPassIsCovered

CloudInv == SettingsTyped /\ SwitchesProbed /\ ClicksTyped /\ OnlineWasProbed /\ RowHolds

-----------------------------------------------------------------------------
(* The cloud: frames *)

(* Whoever changes the settings does it by one of three operations.         *)
SettingsStep ==
    \/ UNCHANGED settingVars
    \/ \E p \in Profiles : SetProfile(p)
    \/ \E m \in Modes, up \in BOOLEAN : (m = "online" => up) /\ SetMode(m, up)
    \/ \E k \in Keys : SetKey(k, TRUE)
    \/ \E k : SetKey(k, FALSE)

(* A step of the pages is one of the dashboard's form, of the management    *)
(* page, of somebody else's, or leaves all of these alone.                  *)
LEMMA CloudStepKinds ==
    ASSUME [Next]_vars
    PROVE  \/ ConsentNext /\ UNCHANGED adminVars
           \/ AdminNext /\ UNCHANGED consentVars
           \/ ChangedElsewhere /\ UNCHANGED <<consentVars, click, stores>>
           \/ UNCHANGED <<settingVars, switching, consentVars, click, stores>>
<1>1. CASE AtDashboard
  BY <1>1 DEF AtDashboard
<1>2. CASE AtAdmin
  BY <1>2 DEF AtAdmin
<1>3. CASE Elsewhere
  BY <1>3 DEF Elsewhere
<1>4. CASE AtSignIn
  BY <1>4 DEF AtSignIn, cloudVars, adminVars
<1>5. CASE AtMeeting(MeetingNext)
  BY <1>5 DEF AtMeeting, cloudVars, adminVars
<1>6. CASE AtDocuments(DocumentsNext)
  BY <1>6 DEF AtDocuments, otherVars, cloudVars, adminVars
<1>7. CASE AtSearch \/ AtTasks \/ AtRecording
  BY <1>7 DEF AtSearch, AtTasks, AtRecording, otherVars, cloudVars, adminVars
<1>8. CASE UNCHANGED vars
  BY <1>8 DEF vars, cloudVars, adminVars
<1> QED BY <1>1, <1>2, <1>3, <1>4, <1>5, <1>6, <1>7, <1>8 DEF Next

(* The form, the consent route and the quality pass only read the settings. *)
LEMMA ConsentReadsSettings ==
    ASSUME ConsentNext
    PROVE  UNCHANGED <<settingVars, switching>>
  BY DEF ConsentNext, AskReadiness, ReadinessArrives, TickConfidential, TickCloud,
         BeginMeeting, CreateChecked, CreateInserted, ConsentChecked, ConsentWritten, StartMeeting,
         PassBegins, Upload, CloudFails, LocalPass, cloudVars

-----------------------------------------------------------------------------
(* The settings *)

LEMMA SettingsKept ==
    ASSUME SettingsTyped, OnlineWasProbed, SettingsStep
    PROVE  SettingsTyped' /\ OnlineWasProbed'
<1> USE DEF SettingsTyped, OnlineWasProbed, Online, ServerMode, Profiles, Modes
<1>1. CASE UNCHANGED settingVars
  BY <1>1 DEF settingVars
<1>2. ASSUME NEW p \in Profiles, SetProfile(p) PROVE SettingsTyped' /\ OnlineWasProbed'
  BY <1>2 DEF SetProfile
<1>3. ASSUME NEW m \in Modes, NEW up \in BOOLEAN, m = "online" => up, SetMode(m, up)
      PROVE  SettingsTyped' /\ OnlineWasProbed'
  BY <1>3 DEF SetMode
<1>4. ASSUME NEW k \in Keys, SetKey(k, TRUE) PROVE SettingsTyped' /\ OnlineWasProbed'
  BY <1>4 DEF SetKey
<1>5. ASSUME NEW k, SetKey(k, FALSE) PROVE SettingsTyped' /\ OnlineWasProbed'
  BY <1>5 DEF SetKey
<1> QED BY <1>1, <1>2, <1>3, <1>4, <1>5 DEF SettingsStep

LEMMA ElsewhereIsSettings ==
    ASSUME SwitchesProbed, ChangedElsewhere
    PROVE  SettingsStep /\ SwitchesProbed'
<1>1. CASE SettingElsewhere
  <2>1. UNCHANGED switching
    BY <1>1 DEF SettingElsewhere
  <2>2. (\E k \in Keys, value \in BOOLEAN : SetKey(k, value)) => SettingsStep
    BY DEF SettingsStep
  <2>3. SettingsStep
    BY <1>1, <2>2 DEF SettingElsewhere, SettingsStep
  <2> QED BY <2>1, <2>3 DEF SwitchesProbed
<1>2. CASE SwitchElsewhere
  BY <1>2 DEF SwitchElsewhere, SwitchAllowed, SwitchesProbed, SettingsStep
<1>3. CASE SwitchedElsewhere
  BY <1>3 DEF SwitchedElsewhere, SwitchesProbed, SettingsStep
<1> QED BY <1>1, <1>2, <1>3 DEF ChangedElsewhere

-----------------------------------------------------------------------------
(* The handlers of the management page *)

(* Of the steps of a handler, only those in which the server acts change    *)
(* the settings, and none the record of the click out of its type.          *)
LEMMA AdminStep ==
    ASSUME SettingsTyped, ClicksTyped, AdminNext
    PROVE  SettingsStep /\ ClicksTyped' /\ switching' = switching
<1> DEFINE Good == SettingsStep /\ ClicksTyped' /\ switching' = switching
<1> USE DEF ClicksTyped, StoresTyped, ArgsFit, ClicksProbed, ClickRecords, Dos, Ats
<1>idle. Idle \in ClickRecords /\ Over \in ClickRecords /\ Loading \in ClickRecords
         /\ Idle.do = "none" /\ Over.do = "none" /\ Loading.do = "load"
  <2>1. "none" \in Args
    BY DEF Args
  <2>2. Idle \in ClickRecords /\ Idle.do = "none"
    BY <2>1 DEF Idle
  <2> QED BY <2>2 DEF Over, Loading
<1>zero. 0 \in Clicks
  BY ClicksAssumption DEF Clicks
<1>out. SettingsOut \in ShownSettings
  BY DEF SettingsTyped, SettingsOut, ShownSettings
<1>mode. \A up \in BOOLEAN : ModeStatus(up) \in ShownModes
  BY DEF SettingsTyped, ModeStatus, ServerMode, Modes, ShownModes
<1>1. CASE OpenAdmin \/ Dialog
  BY <1>1, <1>idle, <1>zero DEF OpenAdmin, Dialog, SettingsStep, cloudVars, stores
<1>2. ASSUME NEW k \in Clicks PROVE
        /\ \A p \in Profiles : ClickProfile(k, p) => Good
        /\ \A key \in Keys, value \in BOOLEAN : ClickKey(k, key, value) => Good
        /\ \A m \in Modes : ClickMode(k, m) => Good
        /\ ClickBackup(k) \/ ClickUser(k) \/ ClickRemove(k) => Good
  <2>1. ASSUME NEW what \in Dos,
               NEW arg \in Args,
               what = "profile" => arg \in Profiles,
               what = "mode" => arg \in Modes,
               what = "setKey" => arg \in Keys,
               Begin(k, what, arg)
        PROVE  Good
    BY <2>1 DEF Begin, Idle, SettingsStep, cloudVars, stores
  <2>2. \A p \in Profiles : ClickProfile(k, p) => Good
    BY <2>1 DEF ClickProfile, Args
  <2>3. \A key \in Keys, value \in BOOLEAN : ClickKey(k, key, value) => Good
    BY <2>1 DEF ClickKey, Args
  <2>4. \A m \in Modes : ClickMode(k, m) => Good
    BY <2>1 DEF ClickMode, Args
  <2>5. ClickBackup(k) \/ ClickUser(k) \/ ClickRemove(k) => Good
    BY <2>1 DEF ClickBackup, ClickUser, ClickRemove, Args
  <2> QED BY <2>2, <2>3, <2>4, <2>5
<1>3. ASSUME NEW k \in Clicks, Reload(k) PROVE Good
  BY <1>3, <1>idle DEF Reload, SettingsStep, cloudVars, stores
<1>4. ASSUME NEW k \in Clicks, LoadHandled(k) PROVE Good
  <2>1. SettingsStep /\ UNCHANGED <<stores, switching>>
    BY <1>4 DEF LoadHandled, SettingsStep, cloudVars
  <2>2. CASE click' = [click EXCEPT ![k].got = {SettingsOut}]
    BY <2>1, <2>2, <1>out DEF stores
  <2>3. CASE click' = [click EXCEPT ![k].users = {member}]
    BY <2>1, <2>3 DEF stores
  <2>4. CASE \E up \in BOOLEAN : click' = [click EXCEPT ![k].mode = {ModeStatus(up)}]
    BY <2>1, <2>4, <1>mode DEF stores
  <2> QED BY <2>2, <2>3, <2>4, <1>4 DEF LoadHandled
<1>5. ASSUME NEW k \in Clicks, PatchHandled(k) PROVE Good
  <2>1. SettingsStep /\ UNCHANGED switching
    BY <1>5 DEF PatchHandled, SettingsStep
  <2>2. SettingsOut' \in ShownSettings
    BY <1>5 DEF PatchHandled, SettingsOut, SettingsTyped, SetProfile, SetKey, ShownSettings
  <2>3. /\ click' = [click EXCEPT ![k].at = "answered", ![k].got = {SettingsOut'}]
        /\ UNCHANGED stores
    BY <1>5 DEF PatchHandled
  <2>4. click' \in [Clicks -> ClickRecords]
    <3> DEFINE r == [click[k] EXCEPT !.at = "answered", !.got = {SettingsOut'}]
    <3>1. click[k] \in ClickRecords
      OBVIOUS
    <3>2. r \in ClickRecords
      BY <3>1, <2>2
    <3>3. click' = [click EXCEPT ![k] = r]
      BY <2>3
    <3> HIDE DEF r
    <3> QED BY <3>2, <3>3
  <2>5. ArgsFit' /\ ClicksProbed'
    BY <2>3
  <2> QED BY <2>1, <2>3, <2>4, <2>5 DEF stores
<1>6. ASSUME NEW k \in Clicks, ModeChecked(k) \/ ModeHandled(k) PROVE Good
  <2>1. CASE ModeChecked(k)
    <3>1. PICK up \in BOOLEAN :
            click' = [click EXCEPT ![k].at = IF SwitchAllowed(click[k].arg, up)
                                            THEN "checked" ELSE "refused",
                                  ![k].up = up]
      BY <2>1 DEF ModeChecked
    <3>2. SettingsStep /\ UNCHANGED <<stores, switching>>
      BY <2>1 DEF ModeChecked, SettingsStep, cloudVars
    <3>3. click' \in [Clicks -> ClickRecords]
      <4> DEFINE r == [click[k] EXCEPT
                       !.at = IF SwitchAllowed(click[k].arg, up) THEN "checked" ELSE "refused",
                       !.up = up]
      <4>1. click[k] \in ClickRecords
        OBVIOUS
      <4>2. r \in ClickRecords
        BY <4>1
      <4>3. click' = [click EXCEPT ![k] = r]
        BY <3>1
      <4> HIDE DEF r
      <4> QED BY <4>2, <4>3
    <3>4. ArgsFit'
      BY <3>1
    <3>5. ClicksProbed'
      BY <3>1 DEF SwitchAllowed
    <3> QED BY <3>2, <3>3, <3>4, <3>5 DEF stores
  <2>2. CASE ModeHandled(k)
    <3>1. PICK later \in BOOLEAN :
            click' = [click EXCEPT ![k].at = "answered", ![k].mode = {ModeStatus(later)'}]
      BY <2>2 DEF ModeHandled
    <3>2. /\ click[k].arg \in Modes /\ click[k].up \in BOOLEAN
          /\ click[k].arg = "online" => click[k].up
      BY <2>2 DEF ModeHandled
    <3>3. SetMode(click[k].arg, click[k].up) /\ UNCHANGED <<stores, switching>>
      BY <2>2 DEF ModeHandled
    <3>4. ModeStatus(later)' \in ShownModes
      BY <3>2, <3>3 DEF SetMode, SettingsTyped, ModeStatus, ServerMode, Modes, ShownModes
    <3>5. SettingsStep
      BY <3>2, <3>3 DEF SettingsStep
    <3>6. click' \in [Clicks -> ClickRecords]
      <4> DEFINE r == [click[k] EXCEPT !.at = "answered", !.mode = {ModeStatus(later)'}]
      <4>1. click[k] \in ClickRecords
        OBVIOUS
      <4>2. r \in ClickRecords
        BY <4>1, <3>4
      <4>3. click' = [click EXCEPT ![k] = r]
        BY <3>1
      <4> HIDE DEF r
      <4> QED BY <4>2, <4>3
    <3>7. ArgsFit' /\ ClicksProbed'
      BY <3>1
    <3> QED BY <3>3, <3>5, <3>6, <3>7 DEF stores
  <2> QED BY <1>6, <2>1, <2>2
<1>7. ASSUME NEW k \in Clicks, BackupHandled(k) \/ RemoveHandled(k) \/ UserHandled(k)
      PROVE  Good
  <2>1. SettingsStep /\ UNCHANGED switching
    BY <1>7 DEF BackupHandled, RemoveHandled, UserHandled, Refused, CarriedOut,
                SettingsStep, cloudVars
  <2>2. StoresTyped'
    BY <1>7 DEF BackupHandled, RemoveHandled, UserHandled, Refused, CarriedOut, stores
  <2>3. \/ click' = [click EXCEPT ![k].at = "refused"]
        \/ click' = [click EXCEPT ![k].at = "answered"]
    BY <1>7 DEF BackupHandled, RemoveHandled, UserHandled, Refused, CarriedOut
  <2> QED BY <2>1, <2>2, <2>3
<1>8. ASSUME NEW k \in Clicks, RefetchHandled(k) PROVE Good
  <2>1. SettingsStep /\ UNCHANGED <<stores, switching>>
    BY <1>8 DEF RefetchHandled, SettingsStep, cloudVars
  <2>2. {SettingsOut} \in SUBSET ShownSettings /\ {member} \in SUBSET BOOLEAN
    BY <1>out
  <2>3. click' = [click EXCEPT ![k].at = "refetched", ![k].got = {SettingsOut},
                               ![k].users = {member}]
    BY <1>8 DEF RefetchHandled
  <2>4. click' \in [Clicks -> ClickRecords]
    <3> DEFINE r == [click[k] EXCEPT !.at = "refetched", !.got = {SettingsOut},
                                    !.users = {member}]
    <3>1. click[k] \in ClickRecords
      OBVIOUS
    <3>2. r \in ClickRecords
      BY <3>1, <2>2
    <3>3. click' = [click EXCEPT ![k] = r]
      BY <2>3
    <3> HIDE DEF r
    <3> QED BY <3>2, <3>3
  <2>5. ArgsFit' /\ ClicksProbed'
    BY <2>3
  <2> QED BY <2>1, <2>4, <2>5 DEF stores
<1>9. ASSUME NEW k \in Clicks,
             \/ LoadArrives(k) \/ PatchArrives(k) \/ ModeArrives(k) \/ UserArrives(k)
             \/ RefetchArrives(k) \/ BackupArrives(k) \/ RemoveArrives(k) \/ ClickFails(k)
      PROVE  Good
  <2>1. SettingsStep /\ UNCHANGED <<stores, switching>>
    BY <1>9 DEF LoadArrives, PatchArrives, ModeArrives, UserArrives, RefetchArrives,
                BackupArrives, RemoveArrives, ClickFails, SettingsStep, cloudVars
  <2>2. CASE \/ click' = [click EXCEPT ![k] = Over]
             \/ click' = [click EXCEPT ![k] = Loading]
             \/ click' = [click EXCEPT ![k].at = "refetch"]
    BY <2>1, <2>2, <1>idle DEF stores
  <2> QED BY <1>9, <2>2 DEF LoadArrives, PatchArrives, ModeArrives, UserArrives,
                RefetchArrives, BackupArrives, RemoveArrives, ClickFails
<1> QED BY <1>1, <1>2, <1>3, <1>4, <1>5, <1>6, <1>7, <1>8, <1>9 DEF AdminNext

-----------------------------------------------------------------------------
(* From the box to the upload *)

LEMMA ConsentStep ==
    ASSUME RowHolds, ConsentNext
    PROVE  RowHolds'
<1> USE DEF RowHolds, FormTyped, StartsFresh, ConsentInTime, NothingBeforePass,
            ConsentWasOnline, CloudPassIsCovered, Passes
<1>1. CASE AskReadiness
  BY <1>1 DEF AskReadiness, formVars, rowVars
<1>2. CASE ReadinessArrives
  BY <1>2 DEF ReadinessArrives, formVars, rowVars
<1>3. CASE TickConfidential
  BY <1>3 DEF TickConfidential, InForm, rowVars
<1>4. CASE TickCloud
  BY <1>4 DEF TickCloud, InForm, rowVars
<1>5. CASE BeginMeeting
  BY <1>5 DEF BeginMeeting, InForm
<1>6. CASE CreateChecked
  <2>1. PICK body \in starting :
          LET consent == body.consent /\ ~body.secret
          IN /\ starting' = IF consent /\ ~Online THEN {}
                            ELSE {[body EXCEPT !.consent = consent, !.checked = TRUE]}
             /\ onlineAt' = IF consent /\ Online THEN {"consent"} ELSE {}
    BY <1>6 DEF CreateChecked
  <2>2. /\ row.pass = "none" /\ ~row.consent /\ uploaded = {} /\ consenting = "no"
        /\ body \in [consent : BOOLEAN, secret : BOOLEAN, checked : BOOLEAN]
    BY <2>1
  <2>3. UNCHANGED <<confidential, cloudTick, row, consenting, uploaded>>
    BY <1>6 DEF CreateChecked
  <2> QED BY <2>1, <2>2, <2>3
<1>13. CASE CreateInserted
  <2>1. PICK body \in starting :
          /\ body.checked
          /\ row' = [pass |-> "created", consent |-> body.consent, secret |-> body.secret]
    BY <1>13 DEF CreateInserted
  <2>2. /\ row.pass = "none" /\ uploaded = {} /\ consenting = "no"
        /\ body \in [consent : BOOLEAN, secret : BOOLEAN, checked : BOOLEAN]
        /\ body.consent => ~body.secret /\ "consent" \in onlineAt
    BY <2>1
  <2>3. /\ starting' = {}
        /\ UNCHANGED <<confidential, cloudTick, consenting, uploaded, onlineAt>>
    BY <1>13 DEF CreateInserted
  <2> QED BY <2>1, <2>2, <2>3
<1>7. CASE \E value \in BOOLEAN : ConsentChecked(value)
  BY <1>7 DEF ConsentChecked, formVars
<1>8. CASE ConsentWritten
  BY <1>8 DEF ConsentWritten, formVars
<1>9. CASE StartMeeting
  BY <1>9 DEF StartMeeting, formVars
<1>10. CASE PassBegins
  BY <1>10 DEF PassBegins, formVars
<1>11. CASE Upload
  BY <1>11 DEF Upload, formVars
<1>12. CASE CloudFails \/ LocalPass
  BY <1>12 DEF CloudFails, LocalPass, formVars
<1> QED BY <1>1, <1>2, <1>3, <1>4, <1>5, <1>6, <1>7, <1>8, <1>9, <1>10, <1>11, <1>12, <1>13
        DEF ConsentNext

LEMMA RowKept ==
    ASSUME RowHolds, UNCHANGED consentVars
    PROVE  RowHolds'
  BY DEF consentVars, formVars, rowVars, RowHolds, FormTyped, StartsFresh, ConsentInTime,
         NothingBeforePass, ConsentWasOnline, CloudPassIsCovered

LEMMA ClicksKept ==
    ASSUME ClicksTyped, UNCHANGED <<click, stores>>
    PROVE  ClicksTyped'
  BY DEF ClicksTyped, StoresTyped, ArgsFit, ClicksProbed, stores

-----------------------------------------------------------------------------
(* The cloud: the theorem *)

LEMMA CloudInit_Inv == Init => CloudInv
<1> SUFFICES ASSUME Init PROVE CloudInv
  OBVIOUS
<1>1. SettingsTyped /\ OnlineWasProbed /\ SwitchesProbed
  BY OthersAssumption DEF Init, CloudInit, SettingsTyped, OnlineWasProbed, Online, ServerMode,
     SwitchesProbed, Profiles, Modes
<1>2. ClicksTyped
  BY DEF Init, AdminInit, ClicksTyped, StoresTyped, ArgsFit, ClicksProbed, ClickRecords, Idle,
         Args, Dos, Ats
<1>3. RowHolds
  BY DEF Init, ConsentInit, FormFresh, NoRow, RowHolds, FormTyped, StartsFresh, ConsentInTime,
         NothingBeforePass, ConsentWasOnline, CloudPassIsCovered, Passes
<1> QED BY <1>1, <1>2, <1>3 DEF CloudInv

LEMMA CloudNext_Inv ==
    ASSUME CloudInv, [Next]_vars
    PROVE  CloudInv'
<1> USE DEF CloudInv
<1>1. CASE ConsentNext /\ UNCHANGED adminVars
  BY <1>1, ConsentReadsSettings, SettingsKept, ConsentStep, ClicksKept
     DEF SettingsStep, SwitchesProbed, adminVars, stores
<1>2. CASE AdminNext /\ UNCHANGED consentVars
  BY <1>2, AdminStep, SettingsKept, RowKept DEF SwitchesProbed
<1>3. CASE ChangedElsewhere /\ UNCHANGED <<consentVars, click, stores>>
  BY <1>3, ElsewhereIsSettings, SettingsKept, RowKept, ClicksKept
<1>4. CASE UNCHANGED <<settingVars, switching, consentVars, click, stores>>
  BY <1>4, SettingsKept, RowKept, ClicksKept DEF SettingsStep, SwitchesProbed
<1> QED BY <1>1, <1>2, <1>3, <1>4, CloudStepKinds

(* Whoever switches what and whichever page is open, a server online was    *)
(* probed, and what goes to the cloud is of a meeting with consent, not     *)
(* confidential, that found the server online at its consent and its pass.  *)
THEOREM CloudCovered == Spec => []CloudIsCovered
<1>1. CloudInv => CloudIsCovered
  BY DEF CloudInv, RowHolds, CloudPassIsCovered, CloudIsCovered, UploadsAreCovered
<1> QED BY CloudInit_Inv, CloudNext_Inv, <1>1, PTL DEF Spec

-----------------------------------------------------------------------------
(* Documents: the inductive invariant *)

CallKinds  == {"none", "load", "upload", "remove"}
CallPlaces == {"idle", "asked", "answered", "refused", "broken", "listing", "listed", "over",
               "inserted", "found", "cleared"}
RowStates  == {"none", "gone", "uploaded", "indexed", "failed"}
JobStates  == {"none", "queued", "embedding", "stored", "marked", "over"}
Lists      == UNION {[D -> RowStates] : D \in SUBSET Docs}
CallRecords ==
    [do : CallKinds, at : CallPlaces, doc : 0 .. MaxDocs, got : SUBSET Lists]

ListsTyped == \A list \in pageDocs : DOMAIN list \subseteq Docs

DocPageTyped == ListsTyped /\ docCall \in [Calls -> CallRecords]

DocStoreTyped ==
    /\ docRow \in [Docs -> RowStates]
    /\ indexJob \in [Docs -> JobStates]

(* A handler between two statements of its route has its document.          *)
CallsHold ==
    \A k \in Calls :
        /\ docCall[k].do = "remove" => docCall[k].doc \in Docs
        /\ docCall[k].at \in {"found", "cleared"} =>
             docCall[k].do = "remove" /\ docRow[docCall[k].doc] # "none"
        /\ docCall[k].at = "inserted" =>
             docCall[k].doc \in Docs /\ docRow[docCall[k].doc] # "none"

(* A document with a job has had its row first, and a row that says indexed *)
(* has had a job.                                                           *)
JobsHold ==
    \A d \in Docs :
        /\ indexJob[d] # "none" => docRow[d] # "none"
        /\ docRow[d] = "indexed" => indexJob[d] # "none"
        /\ indexJob[d] \in {"marked", "over"} => docRow[d] # "uploaded"

(* Why a document may be searched for in vain once its index was stored *)
Excused(d) == \/ d \in chunks \/ d \in Blank \/ d \in torn
              \/ \E k \in Removal(d) : docCall[k].at = "cleared"

StoredIsSearchable ==
    \A d \in Docs :
        /\ indexJob[d] = "stored" /\ Stored(d) => Excused(d)
        /\ indexJob[d] \in {"marked", "over"} /\ docRow[d] = "indexed" => Excused(d)

(* What a removal has cleared came back only behind its back.               *)
ClearedIsClear ==
    \A k \in Calls :
        docCall[k].at = "cleared" /\ docCall[k].doc \in chunks => docCall[k].doc \in overrun

DocTyped == DocPageTyped /\ DocStoreTyped

DocInv ==
    /\ DocTyped /\ CallsHold /\ JobsHold
    /\ StoredIsSearchable /\ ClearedIsClear /\ RemovedIsForgotten /\ NobodyWaitsInVain

-----------------------------------------------------------------------------
(* Documents: frame *)

LEMMA DocStepKinds ==
    ASSUME [Next]_vars
    PROVE  DocumentsNext \/ UNCHANGED docVars
<1>1. CASE AtDashboard \/ AtAdmin \/ AtSignIn \/ AtMeeting(MeetingNext) \/ Elsewhere
  BY <1>1 DEF AtDashboard, AtAdmin, AtSignIn, AtMeeting, Elsewhere, workVars
<1>2. CASE AtDocuments(DocumentsNext)
  BY <1>2 DEF AtDocuments
<1>3. CASE AtSearch \/ AtTasks \/ AtRecording
  BY <1>3 DEF AtSearch, AtTasks, AtRecording
<1>4. CASE UNCHANGED vars
  BY <1>4 DEF vars, workVars
<1> QED BY <1>1, <1>2, <1>3, <1>4 DEF Next

LEMMA DocUnchanged ==
    ASSUME DocInv, UNCHANGED docVars
    PROVE  DocInv'
  BY DEF DocInv, DocTyped, DocPageTyped, ListsTyped, DocStoreTyped, CallsHold, JobsHold, StoredIsSearchable,
         ClearedIsClear, RemovedIsForgotten, NobodyWaitsInVain, Excused, Removal, Stored,
         docVars, docPage, docStore, docGhosts

(* Handlers that touch neither a row nor the index, and stand at no step    *)
(* between two statements, before or after.                                 *)
Plain == {"idle", "asked", "answered", "refused", "broken", "listing", "listed", "over"}

LEMMA PlainStep ==
    ASSUME DocInv, NEW k \in Calls, NEW r \in CallRecords,
           docCall[k].at \in Plain, r.at \in Plain \cup {"found"},
           r.do = "remove" => r.doc \in Docs,
           r.at = "found" => r.do = "remove" /\ docRow[r.doc] # "none",
           docCall' = [docCall EXCEPT ![k] = r],
           ListsTyped',
           UNCHANGED <<docStore, docGhosts>>
    PROVE  DocInv'
<1> USE DEF docStore, docGhosts
<1>1. /\ docCall' \in [Calls -> CallRecords] /\ docCall'[k] = r
      /\ \A j \in Calls : j # k => docCall'[j] = docCall[j]
  BY DEF DocInv, DocTyped, DocPageTyped
<1>2. DocTyped'
  BY <1>1 DEF DocInv, DocTyped, DocPageTyped, ListsTyped, DocStoreTyped
<1>3. CallsHold'
  BY <1>1 DEF DocInv, CallsHold, Plain
<1>4. JobsHold' /\ RemovedIsForgotten'
  BY DEF DocInv, JobsHold, RemovedIsForgotten
<1>5. \A d \in Docs : Excused(d) => Excused(d)'
  BY <1>1 DEF Excused, Removal, Plain
<1>6. StoredIsSearchable'
  BY <1>5 DEF DocInv, StoredIsSearchable, Stored
<1>7. ClearedIsClear'
  BY <1>1 DEF DocInv, ClearedIsClear, Plain
<1>8. NobodyWaitsInVain'
  BY <1>1 DEF DocInv, NobodyWaitsInVain, Plain
<1> QED BY <1>2, <1>3, <1>4, <1>6, <1>7, <1>8 DEF DocInv

-----------------------------------------------------------------------------
(* The handlers of the page, and the refusals *)

LEMMA ListTyped ==
    ASSUME DocStoreTyped
    PROVE  DocList \in Lists
<1> DEFINE D == {e \in Docs : Stored(e)}
<1>1. DocList \in [D -> RowStates] /\ D \in SUBSET Docs
  BY DEF DocStoreTyped, DocList
<1> QED BY <1>1 DEF Lists

LEMMA ListsAreOfDocs ==
    ASSUME NEW list \in Lists
    PROVE  DOMAIN list \subseteq Docs
  BY DEF Lists

LEMMA DocPageStep ==
    ASSUME DocInv, NEW k \in Calls,
           \/ ClickUpload(k) \/ (\E d \in Docs : ClickDelete(k, d))
           \/ AskedElsewhere(k, "upload", 0)
           \/ (\E d \in Docs : AskedElsewhere(k, "remove", d))
           \/ CallAnswered(k) \/ ListHandled(k) \/ ListShown(k) \/ CallFails(k)
           \/ UploadRefused(k) \/ RemoveChecked(k)
    PROVE  DocInv'
<1>typed. /\ docCall \in [Calls -> CallRecords] /\ DocStoreTyped
          /\ ListsTyped
  BY DEF DocInv, DocTyped, DocPageTyped
<1>rem. docCall[k].do = "remove" => docCall[k].doc \in Docs
  BY DEF DocInv, CallsHold
<1> USE DEF Plain, CallRecords, CallKinds, CallPlaces
<1>1. ASSUME NEW what \in {"upload", "remove"}, NEW d \in 0 .. MaxDocs,
             what = "remove" => d \in Docs, docCall[k] = NoCall,
             docCall' = [docCall EXCEPT
                           ![k] = [NoCall EXCEPT !.do = what, !.at = "asked", !.doc = d]],
             UNCHANGED <<docStore, docGhosts, pageDocs>>
      PROVE  DocInv'
  <2> DEFINE r == [NoCall EXCEPT !.do = what, !.at = "asked", !.doc = d]
  <2>1. r \in CallRecords /\ r.at = "asked" /\ r.do = what /\ r.doc = d
    BY DEF NoCall
  <2>2. docCall[k].at = "idle"
    BY <1>1 DEF NoCall
  <2>3. docCall' = [docCall EXCEPT ![k] = r]
    BY <1>1
  <2> HIDE DEF r
  <2> QED BY <1>1, <2>1, <2>2, <2>3, <1>typed, PlainStep DEF ListsTyped
<1>2. CASE ClickUpload(k)
  <2>1. 0 \in 0 .. MaxDocs
    BY DocumentsAssumption
  <2> QED BY <1>1, <1>2, <2>1 DEF ClickUpload, Starts
<1>3. ASSUME NEW d \in Docs, ClickDelete(k, d) PROVE DocInv'
  <2>1. d \in 0 .. MaxDocs
    BY DocumentsAssumption DEF Docs
  <2> QED BY <1>1, <1>3, <2>1 DEF ClickDelete, Starts
<1>12. CASE AskedElsewhere(k, "upload", 0)
  <2>1. 0 \in 0 .. MaxDocs
    BY DocumentsAssumption
  <2> QED BY <1>1, <1>12, <2>1 DEF AskedElsewhere, docPage
<1>13. ASSUME NEW d \in Docs, AskedElsewhere(k, "remove", d) PROVE DocInv'
  <2>1. d \in 0 .. MaxDocs
    BY DocumentsAssumption DEF Docs
  <2> QED BY <1>1, <1>13, <2>1 DEF AskedElsewhere, docPage
<1>4. ASSUME NEW at \in Plain \cup {"found"}, NEW got \in SUBSET Lists,
             docCall[k].at \in Plain,
             at = "found" => docCall[k].do = "remove" /\ docRow[docCall[k].doc] # "none",
             docCall' = [docCall EXCEPT ![k].at = at, ![k].got = got],
             ListsTyped',
             UNCHANGED <<docStore, docGhosts>>
      PROVE  DocInv'
  <2> DEFINE r == [docCall[k] EXCEPT !.at = at, !.got = got]
  <2>1. r \in CallRecords /\ r.at = at /\ r.do = docCall[k].do /\ r.doc = docCall[k].doc
    BY <1>typed
  <2>2. docCall' = [docCall EXCEPT ![k] = r]
    BY <1>4, <1>typed
  <2> HIDE DEF r
  <2> QED BY <1>4, <2>1, <2>2, <1>rem, PlainStep
<1>5. ASSUME NEW at \in Plain \cup {"found"},
             docCall[k].at \in Plain,
             at = "found" => docCall[k].do = "remove" /\ docRow[docCall[k].doc] # "none",
             Goes(k, at), UNCHANGED <<pageDocs, docStore, docGhosts>>
      PROVE  DocInv'
  <2>1. docCall[k].got \in SUBSET Lists
    BY <1>typed
  <2>2. docCall' = [docCall EXCEPT ![k].at = at, ![k].got = docCall[k].got]
    BY <1>5, <1>typed DEF Goes
  <2> QED BY <1>4, <1>5, <2>1, <2>2, <1>typed DEF ListsTyped
<1>6. CASE CallAnswered(k)
  BY <1>5, <1>6 DEF CallAnswered, docPage
<1>7. CASE ListHandled(k)
  <2>1. {DocList} \in SUBSET Lists
    BY <1>typed, ListTyped
  <2>2. /\ docCall[k].at \in Plain
        /\ docCall' = [docCall EXCEPT ![k].at = "listed", ![k].got = {DocList}]
        /\ UNCHANGED <<pageDocs, docStore, docGhosts>>
    BY <1>7 DEF ListHandled, docPage
  <2> HIDE DEF Plain
  <2>3. "listed" \in Plain \cup {"found"} /\ "listed" # "found"
    BY DEF Plain
  <2> QED BY <1>4, <2>1, <2>2, <2>3, <1>typed DEF ListsTyped
<1>8. CASE ListShown(k)
  <2>1. ListsTyped'
    BY <1>8, <1>typed, ListsAreOfDocs DEF ListShown, ListsTyped
  <2>2. /\ docCall[k].at \in Plain
        /\ docCall' = [docCall EXCEPT ![k].at = "over", ![k].got = {}]
        /\ UNCHANGED <<docStore, docGhosts>>
    BY <1>8 DEF ListShown
  <2> HIDE DEF Plain
  <2>3. "over" \in Plain \cup {"found"} /\ "over" # "found"
    BY DEF Plain
  <2>4. {} \in SUBSET Lists
    OBVIOUS
  <2> QED BY <1>4, <2>1, <2>2, <2>3, <2>4
<1>9. CASE CallFails(k)
  <2>1. /\ docCall[k].at \in Plain
        /\ docCall' = [docCall EXCEPT ![k].at = "over", ![k].got = {}]
        /\ UNCHANGED <<pageDocs, docStore, docGhosts>>
    BY <1>9 DEF CallFails
  <2> HIDE DEF Plain
  <2>2. "over" \in Plain \cup {"found"} /\ "over" # "found"
    BY DEF Plain
  <2> QED BY <1>4, <2>1, <2>2, <1>typed DEF ListsTyped
<1>10. CASE UploadRefused(k)
  BY <1>5, <1>10 DEF UploadRefused, docPage
<1>11. CASE RemoveChecked(k)
  BY <1>5, <1>11, <1>rem DEF RemoveChecked, Stored, docPage
<1> QED BY <1>2, <1>3, <1>6, <1>7, <1>8, <1>9, <1>10, <1>11, <1>12, <1>13

-----------------------------------------------------------------------------
(* The statements of an upload and of a removal *)

LEMMA UploadInsertedStep ==
    ASSUME DocInv, NEW k \in Calls, UploadInserted(k)
    PROVE  DocInv'
<1>1. PICK d \in Docs : /\ docRow[d] = "none"
                        /\ docRow' = [docRow EXCEPT ![d] = "uploaded"]
                        /\ docCall' = [docCall EXCEPT ![k].at = "inserted", ![k].doc = d]
  BY DEF UploadInserted
<1>2. /\ docCall[k].do = "upload" /\ docCall[k].at = "asked"
      /\ UNCHANGED <<pageDocs, chunks, indexJob, torn, stranded, overrun>>
  BY DEF UploadInserted, docPage, docGhosts
<1>3. /\ docCall \in [Calls -> CallRecords] /\ docRow \in [Docs -> RowStates]
      /\ d \in 0 .. MaxDocs
  BY DocumentsAssumption DEF DocInv, DocTyped, DocPageTyped, ListsTyped, DocStoreTyped, Docs
<1>4. /\ docCall' \in [Calls -> CallRecords]
      /\ docCall'[k].do = "upload" /\ docCall'[k].at = "inserted" /\ docCall'[k].doc = d
      /\ \A j \in Calls : j # k => docCall'[j] = docCall[j]
  BY <1>1, <1>2, <1>3 DEF CallRecords, CallPlaces
<1>5. /\ docRow' \in [Docs -> RowStates] /\ docRow'[d] = "uploaded"
      /\ \A e \in Docs : e # d => docRow'[e] = docRow[e]
  BY <1>1, <1>3 DEF RowStates
<1>6. DocTyped'
  BY <1>2, <1>4, <1>5 DEF DocInv, DocTyped, DocPageTyped, ListsTyped, DocStoreTyped
<1>7. CallsHold'
  BY <1>1, <1>4, <1>5 DEF DocInv, CallsHold
<1>8. JobsHold' /\ RemovedIsForgotten'
  BY <1>1, <1>2, <1>5 DEF DocInv, JobsHold, RemovedIsForgotten
<1>9. \A e \in Docs : Excused(e) => Excused(e)'
  BY <1>2, <1>4 DEF Excused, Removal
<1>10. StoredIsSearchable'
  BY <1>1, <1>2, <1>5, <1>9 DEF DocInv, JobsHold, StoredIsSearchable, Stored
<1>11. ClearedIsClear'
  BY <1>2, <1>4 DEF DocInv, ClearedIsClear
<1>12. NobodyWaitsInVain'
  BY <1>2, <1>4, <1>5 DEF DocInv, NobodyWaitsInVain
<1> QED BY <1>6, <1>7, <1>8, <1>10, <1>11, <1>12 DEF DocInv

LEMMA UploadQueuedStep ==
    ASSUME DocInv, NEW k \in Calls, UploadQueued(k)
    PROVE  DocInv'
<1> DEFINE d == docCall[k].doc
<1>1. /\ docCall \in [Calls -> CallRecords] /\ indexJob \in [Docs -> JobStates]
      /\ d \in Docs /\ docRow[d] # "none" /\ docCall[k].at = "inserted"
  BY DEF DocInv, DocTyped, DocPageTyped, ListsTyped, DocStoreTyped, CallsHold, UploadQueued
<1>2. /\ docCall' \in [Calls -> CallRecords]
      /\ docCall'[k].do = docCall[k].do /\ docCall'[k].at = "answered" /\ docCall'[k].doc = d
      /\ \A j \in Calls : j # k => docCall'[j] = docCall[j]
  BY <1>1 DEF UploadQueued, Goes, CallRecords, CallPlaces
<1>3. /\ indexJob' \in [Docs -> JobStates] /\ indexJob'[d] = "queued"
      /\ \A e \in Docs : e # d => indexJob'[e] = indexJob[e]
  BY <1>1 DEF UploadQueued, JobStates
<1>4. UNCHANGED <<pageDocs, docRow, chunks, torn, stranded, overrun>>
  BY DEF UploadQueued, docPage, docGhosts
<1> HIDE DEF d
<1>5. DocTyped'
  BY <1>2, <1>3, <1>4 DEF DocInv, DocTyped, DocPageTyped, ListsTyped, DocStoreTyped
<1>6. CallsHold'
  BY <1>1, <1>2, <1>4 DEF DocInv, CallsHold, d
<1>7. JobsHold' /\ RemovedIsForgotten'
  BY <1>1, <1>3, <1>4 DEF DocInv, JobsHold, RemovedIsForgotten
<1>8. \A e \in Docs : Excused(e) => Excused(e)'
  BY <1>1, <1>2, <1>4 DEF Excused, Removal
<1>9. StoredIsSearchable'
  BY <1>3, <1>4, <1>8 DEF DocInv, StoredIsSearchable, Stored
<1>10. ClearedIsClear'
  BY <1>2, <1>4 DEF DocInv, ClearedIsClear
<1>11. NobodyWaitsInVain'
  BY <1>2, <1>3, <1>4 DEF DocInv, NobodyWaitsInVain, d
<1> QED BY <1>5, <1>6, <1>7, <1>9, <1>10, <1>11 DEF DocInv

LEMMA RemoveStep ==
    ASSUME DocInv, NEW k \in Calls, RemoveChunks(k) \/ RemoveRow(k)
    PROVE  DocInv'
<1>typed. /\ docCall[k].doc \in Docs /\ docRow[docCall[k].doc] # "none"
          /\ docCall[k].do = "remove"
  BY DEF DocInv, CallsHold, RemoveChunks, RemoveRow
<1>d. PICK d \in Docs : docCall[k].doc = d
  BY <1>typed
<1>1. /\ docCall \in [Calls -> CallRecords] /\ docRow \in [Docs -> RowStates]
      /\ d \in Docs /\ docRow[d] # "none" /\ docCall[k].do = "remove"
      /\ docCall[k].at \in {"found", "cleared"}
  BY <1>d, <1>typed DEF DocInv, DocTyped, DocPageTyped, ListsTyped, DocStoreTyped, RemoveChunks, RemoveRow
<1>2. ASSUME NEW at \in {"cleared", "answered"}, Goes(k, at)
      PROVE  /\ docCall' \in [Calls -> CallRecords]
             /\ docCall'[k].do = "remove" /\ docCall'[k].at = at /\ docCall'[k].doc = d
             /\ \A j \in Calls : j # k => docCall'[j] = docCall[j]
  BY <1>1, <1>2, <1>d DEF Goes, CallRecords, CallPlaces
<1>3. UNCHANGED <<pageDocs, indexJob, torn, stranded, overrun>>
  BY DEF RemoveChunks, RemoveRow, docPage, docGhosts
<1>4. CASE RemoveChunks(k)
  <2>1. /\ docCall' \in [Calls -> CallRecords]
        /\ docCall'[k].do = "remove" /\ docCall'[k].at = "cleared" /\ docCall'[k].doc = d
        /\ \A j \in Calls : j # k => docCall'[j] = docCall[j]
    BY <1>2, <1>4 DEF RemoveChunks
  <2>2. docRow' = docRow /\ chunks' = chunks \ {d} /\ docCall[k].at = "found"
    BY <1>4, <1>d DEF RemoveChunks
  <2>3. DocTyped'
    BY <2>1, <2>2, <1>3 DEF DocInv, DocTyped, DocPageTyped, ListsTyped, DocStoreTyped
  <2>4. CallsHold'
    BY <1>1, <2>1, <2>2 DEF DocInv, CallsHold
  <2>5. JobsHold' /\ RemovedIsForgotten'
    BY <2>2, <1>3 DEF DocInv, JobsHold, RemovedIsForgotten
  <2>6. \A e \in Docs : Excused(e) => Excused(e)'
    <3>1. k \in Removal(d)'
      BY <2>1 DEF Removal
    <3>2. \A e \in Docs : e # d => (Excused(e) => Excused(e)')
      BY <2>1, <2>2, <1>3 DEF Excused, Removal
    <3> QED BY <3>1, <3>2, <2>1 DEF Excused
  <2>7. StoredIsSearchable'
    BY <2>2, <2>6, <1>3 DEF DocInv, StoredIsSearchable, Stored
  <2>8. ClearedIsClear'
    BY <2>1, <2>2, <1>3 DEF DocInv, ClearedIsClear
  <2>9. NobodyWaitsInVain'
    BY <2>1, <2>2, <1>3 DEF DocInv, NobodyWaitsInVain
  <2> QED BY <2>3, <2>4, <2>5, <2>7, <2>8, <2>9 DEF DocInv
<1>5. CASE RemoveRow(k)
  <2>1. /\ docCall' \in [Calls -> CallRecords]
        /\ docCall'[k].do = "remove" /\ docCall'[k].at = "answered" /\ docCall'[k].doc = d
        /\ \A j \in Calls : j # k => docCall'[j] = docCall[j]
    BY <1>2, <1>5 DEF RemoveRow
  <2>2. chunks' = chunks /\ docCall[k].at = "cleared"
    BY <1>5 DEF RemoveRow
  <2>3. /\ docRow' \in [Docs -> RowStates] /\ docRow'[d] = "gone"
        /\ \A e \in Docs : e # d => docRow'[e] = docRow[e]
    BY <1>1, <1>5, <1>d DEF RemoveRow, RowStates
  <2>4. DocTyped'
    BY <2>1, <2>3, <1>3 DEF DocInv, DocTyped, DocPageTyped, ListsTyped, DocStoreTyped
  <2>5. CallsHold'
    BY <1>1, <2>1, <2>3 DEF DocInv, CallsHold
  <2>6. JobsHold'
    BY <2>3, <1>3 DEF DocInv, JobsHold
  <2>7. RemovedIsForgotten'
    BY <2>2, <2>3, <1>3, <1>d DEF DocInv, ClearedIsClear, RemovedIsForgotten
  <2>8. \A e \in Docs : e # d => (Excused(e) => Excused(e)')
    BY <2>1, <2>2, <1>3, <1>d DEF Excused, Removal
  <2>9. StoredIsSearchable'
    BY <2>3, <2>8, <1>3 DEF DocInv, StoredIsSearchable, Stored
  <2>10. ClearedIsClear'
    BY <2>1, <2>2, <1>3 DEF DocInv, ClearedIsClear
  <2>11. NobodyWaitsInVain'
    BY <2>1, <2>2, <2>3, <1>3 DEF DocInv, NobodyWaitsInVain
  <2> QED BY <2>4, <2>5, <2>6, <2>7, <2>9, <2>10, <2>11 DEF DocInv
<1> QED BY <1>4, <1>5

-----------------------------------------------------------------------------
(* The index job, and the crash *)

(* A step of the job of d changes the page, a handler and the ghosts of a   *)
(* crash never, and of rows and jobs only those of d.                       *)
LEMMA IndexFrame ==
    ASSUME DocInv, NEW d \in Docs,
           \/ IndexBegins(d) \/ IndexStores(d) \/ IndexMarks(d)
           \/ IndexFails(d) \/ IndexEnds(d)
    PROVE  /\ UNCHANGED <<pageDocs, docCall, torn, stranded>>
           /\ docRow' \in [Docs -> RowStates] /\ indexJob' \in [Docs -> JobStates]
           /\ \A e \in Docs : e # d => docRow'[e] = docRow[e] /\ indexJob'[e] = indexJob[e]
           /\ docRow[d] = "none" <=> docRow'[d] = "none"
           /\ docRow[d] = "gone" <=> docRow'[d] = "gone"
           /\ indexJob[d] # "none" /\ indexJob'[d] # "none"
           /\ docRow'[d] = "uploaded" => docRow[d] = "uploaded"
<1> USE DEF DocInv, DocTyped, DocStoreTyped, RowStates, JobStates
<1>1. CASE IndexBegins(d)
  BY <1>1 DEF IndexBegins, JobIs, docPage, docGhosts
<1>2. CASE IndexStores(d)
  BY <1>2 DEF IndexStores, JobIs, docPage
<1>3. CASE IndexMarks(d)
  BY <1>3 DEF IndexMarks, JobIs, Marks, Stored, docPage, docGhosts
<1>4. CASE IndexFails(d)
  BY <1>4 DEF IndexFails, JobIs, Marks, Stored, docPage, docGhosts
<1>5. CASE IndexEnds(d)
  BY <1>5 DEF IndexEnds, JobIs, docPage, docGhosts
<1> QED BY <1>1, <1>2, <1>3, <1>4, <1>5

LEMMA IndexStep ==
    ASSUME DocInv, NEW d \in Docs,
           \/ IndexBegins(d) \/ IndexStores(d) \/ IndexMarks(d)
           \/ IndexFails(d) \/ IndexEnds(d)
    PROVE  DocInv'
<1>1. /\ UNCHANGED <<pageDocs, docCall, torn, stranded>>
      /\ docRow' \in [Docs -> RowStates] /\ indexJob' \in [Docs -> JobStates]
      /\ \A e \in Docs : e # d => docRow'[e] = docRow[e] /\ indexJob'[e] = indexJob[e]
      /\ docRow[d] = "none" <=> docRow'[d] = "none"
      /\ docRow[d] = "gone" <=> docRow'[d] = "gone"
      /\ indexJob[d] # "none" /\ indexJob'[d] # "none"
      /\ docRow'[d] = "uploaded" => docRow[d] = "uploaded"
  BY IndexFrame
<1>typed. docRow \in [Docs -> RowStates] /\ indexJob \in [Docs -> JobStates]
  BY DEF DocInv, DocTyped, DocStoreTyped
<1>2. DocTyped'
  BY <1>1 DEF DocInv, DocTyped, DocPageTyped, ListsTyped, DocStoreTyped
<1>3. CallsHold'
  BY <1>1 DEF DocInv, CallsHold
<1>4. /\ indexJob'[d] \in {"marked", "over"} => docRow'[d] # "uploaded"
      /\ indexJob'[d] \in {"marked", "over"} /\ docRow'[d] = "indexed" =>
           \/ indexJob[d] \in {"marked", "over"} /\ docRow[d] = "indexed"
           \/ indexJob[d] = "stored" /\ Stored(d)
  BY <1>1, <1>typed DEF DocInv, JobsHold, IndexBegins, IndexStores, IndexMarks, IndexFails, IndexEnds,
        JobIs, Marks, Stored, JobStates, RowStates
<1>5. JobsHold'
  BY <1>1, <1>4 DEF DocInv, JobsHold
<1>6. /\ \A e \in Docs : e # d => (e \in chunks' <=> e \in chunks)
      /\ d \in chunks' => d \in chunks \/ d \in overrun'
                         \/ (Stored(d) /\ \A k \in Removal(d) : docCall[k].at # "cleared")
      /\ overrun \subseteq overrun'
  BY DEF IndexBegins, IndexStores, IndexMarks, IndexFails, IndexEnds, docGhosts
<1>7. \A e \in Docs : e # d => (Excused(e) => Excused(e)')
  BY <1>1, <1>6 DEF Excused, Removal
<1>8. indexJob'[d] = "stored" => Excused(d)'
  BY <1>1, <1>typed DEF IndexBegins, IndexStores, IndexMarks, IndexFails, IndexEnds, JobIs, Excused,
                        JobStates
<1>9. indexJob'[d] \in {"marked", "over"} /\ docRow'[d] = "indexed" => Excused(d)'
  <2>1. ASSUME indexJob'[d] \in {"marked", "over"}, docRow'[d] = "indexed"
        PROVE  Excused(d)
    BY <1>4, <2>1 DEF DocInv, StoredIsSearchable
  <2>2. ASSUME indexJob'[d] \in {"marked", "over"}, docRow'[d] = "indexed"
        PROVE  chunks' = chunks
    BY <2>2, <1>1, <1>typed DEF IndexBegins, IndexStores, IndexMarks, IndexFails, IndexEnds, JobIs, Stored,
                          DocInv, JobsHold
  <2> QED BY <2>1, <2>2, <1>1 DEF Excused, Removal
<1>10. StoredIsSearchable'
  BY <1>1, <1>7, <1>8, <1>9 DEF DocInv, StoredIsSearchable, Stored
<1>11. ClearedIsClear'
  <2> SUFFICES ASSUME NEW k \in Calls, docCall[k].at = "cleared", docCall[k].doc \in chunks'
               PROVE  docCall[k].doc \in overrun'
    BY <1>1 DEF ClearedIsClear
  <2>1. docCall[k].do = "remove" /\ docCall[k].doc \in Docs
    BY DEF DocInv, CallsHold
  <2>2. docCall[k].doc = d => k \in Removal(d)
    BY <2>1 DEF Removal
  <2> QED BY <2>1, <2>2, <1>6 DEF DocInv, ClearedIsClear
<1>12. RemovedIsForgotten'
  BY <1>1, <1>6 DEF DocInv, RemovedIsForgotten, Stored
<1>13. NobodyWaitsInVain'
  BY <1>1, <1>4, <1>5 DEF DocInv, NobodyWaitsInVain, JobsHold
<1> QED BY <1>2, <1>3, <1>5, <1>10, <1>11, <1>12, <1>13 DEF DocInv

LEMMA CrashStep ==
    ASSUME DocInv, ServerCrashes
    PROVE  DocInv'
<1>typed. docCall \in [Calls -> CallRecords] /\ indexJob \in [Docs -> JobStates]
  BY DEF DocInv, DocTyped, DocPageTyped, DocStoreTyped
<1>1. /\ docCall' \in [Calls -> CallRecords]
      /\ \A k \in Calls :
           /\ docCall'[k].do = docCall[k].do /\ docCall'[k].doc = docCall[k].doc
           /\ docCall'[k].at \notin {"inserted", "found", "cleared"}
  BY <1>typed DEF ServerCrashes, CallRecords, CallPlaces
<1>2. /\ indexJob' \in [Docs -> JobStates]
      /\ \A d \in Docs : indexJob'[d] = IF Indexing(d) THEN "queued" ELSE indexJob[d]
  BY <1>typed DEF ServerCrashes, JobStates
<1>3. /\ UNCHANGED <<pageDocs, docRow, chunks, overrun>>
      /\ torn \subseteq torn' /\ stranded \subseteq stranded'
      /\ \A k \in Calls : docCall[k].at = "cleared" => docCall[k].doc \in torn'
      /\ \A k \in Calls : docCall[k].at = "inserted" => docCall[k].doc \in stranded'
  BY DEF ServerCrashes, docPage
<1>4. DocTyped'
  BY <1>1, <1>2, <1>3 DEF DocInv, DocTyped, DocPageTyped, ListsTyped, DocStoreTyped
<1>5. CallsHold' /\ ClearedIsClear'
  BY <1>1 DEF DocInv, CallsHold, ClearedIsClear
<1>6. JobsHold' /\ RemovedIsForgotten'
  BY <1>2, <1>3 DEF DocInv, JobsHold, RemovedIsForgotten, Indexing
<1>7. \A d \in Docs : Excused(d) => Excused(d)'
  BY <1>3 DEF Excused, Removal
<1>8. StoredIsSearchable'
  BY <1>2, <1>3, <1>7 DEF DocInv, StoredIsSearchable, Stored, Indexing
<1>9. NobodyWaitsInVain'
  BY <1>1, <1>2, <1>3, <1>6 DEF DocInv, NobodyWaitsInVain, JobsHold, Indexing
<1> QED BY <1>4, <1>5, <1>6, <1>8, <1>9 DEF DocInv

-----------------------------------------------------------------------------
(* Documents: the theorem *)

LEMMA DocInit_Inv == Init => DocInv
<1> SUFFICES ASSUME Init PROVE DocInv
  OBVIOUS
<1>1. PICK old \in {"none", "indexed"} :
        /\ docRow = [d \in Docs |-> IF d = 1 THEN old ELSE "none"]
        /\ chunks = IF old = "indexed" THEN {1} \ Blank ELSE {}
        /\ indexJob = [d \in Docs |-> IF d = 1 /\ old = "indexed" THEN "over" ELSE "none"]
  BY DEF Init, DocumentsInit
<1>2. /\ pageDocs = {} /\ torn = {} /\ stranded = {} /\ overrun = {}
      /\ docCall = [k \in Calls |-> IF k = 0 THEN Fetching ELSE NoCall]
  BY DEF Init, DocumentsInit
<1>3. /\ NoCall \in CallRecords /\ Fetching \in CallRecords
      /\ NoCall.do = "none" /\ NoCall.at = "idle"
      /\ Fetching.do = "load" /\ Fetching.at = "listing"
  <2>1. 0 \in 0 .. MaxDocs
    BY DocumentsAssumption
  <2>2. {} \in SUBSET Lists
    OBVIOUS
  <2>3. NoCall \in CallRecords /\ NoCall.do = "none" /\ NoCall.at = "idle"
    BY <2>1, <2>2 DEF NoCall, CallRecords, CallKinds, CallPlaces
  <2>4. Fetching \in CallRecords
    BY <2>3 DEF Fetching, CallRecords, CallKinds, CallPlaces
  <2>5. Fetching.do = "load" /\ Fetching.at = "listing"
    BY DEF Fetching, NoCall
  <2> QED BY <2>3, <2>4, <2>5
<1>4. DocTyped
  BY <1>1, <1>2, <1>3 DEF DocTyped, DocPageTyped, ListsTyped, DocStoreTyped, RowStates, JobStates
<1>5. CallsHold /\ ClearedIsClear
  BY <1>2, <1>3 DEF CallsHold, ClearedIsClear
<1>6. JobsHold /\ RemovedIsForgotten /\ NobodyWaitsInVain
  BY <1>1 DEF JobsHold, RemovedIsForgotten, NobodyWaitsInVain
<1>7. StoredIsSearchable
  BY <1>1 DEF StoredIsSearchable, Excused, Stored
<1> QED BY <1>4, <1>5, <1>6, <1>7 DEF DocInv

LEMMA DocNext_Inv ==
    ASSUME DocInv, [Next]_vars
    PROVE  DocInv'
<1>0. Mine \subseteq Calls
  BY DocumentsAssumption DEF Mine, Calls
<1>1. CASE DocumentsNext
  <2>1. ASSUME NEW k \in Calls,
               \/ ClickUpload(k) \/ (\E d \in Docs : ClickDelete(k, d))
               \/ AskedElsewhere(k, "upload", 0)
               \/ (\E d \in Docs : AskedElsewhere(k, "remove", d))
               \/ CallAnswered(k) \/ ListHandled(k) \/ ListShown(k) \/ CallFails(k)
               \/ UploadRefused(k) \/ RemoveChecked(k)
        PROVE  DocInv'
    BY <2>1, DocPageStep
  <2>2. ASSUME NEW k \in Calls,
               \/ UploadInserted(k) \/ UploadQueued(k) \/ RemoveChunks(k) \/ RemoveRow(k)
        PROVE  DocInv'
    BY <2>2, UploadInsertedStep, UploadQueuedStep, RemoveStep
  <2>3. IndexMoves \/ ServerCrashes => DocInv'
    BY IndexStep, CrashStep DEF IndexMoves
  <2> QED BY <1>0, <1>1, <2>1, <2>2, <2>3 DEF DocumentsNext, UploadMoves
<1>2. CASE UNCHANGED docVars
  BY <1>2, DocUnchanged
<1> QED BY <1>1, <1>2, DocStepKinds

LEMMA DocInv_Sound == DocInv => DocumentsAreSound
<1> SUFFICES ASSUME DocInv PROVE DocumentsAreSound
  OBVIOUS
<1>1. IndexedIsSearchable
  BY DEF DocInv, JobsHold, StoredIsSearchable, IndexedIsSearchable, Excused
<1> QED BY <1>1 DEF DocInv, DocumentsAreSound

(* A document that is ready has its text in the index, a removed one has    *)
(* not, and no upload is forgotten, but for the three cases the ghosts      *)
(* name: two crashes between statements, and an index written behind a      *)
(* removal's back.                                                          *)
THEOREM DocumentsSound == Spec => []DocumentsAreSound
  BY DocInit_Inv, DocNext_Inv, DocInv_Sound, PTL DEF Spec

-----------------------------------------------------------------------------
(* Signing in: the inductive invariant *)

Requests ==
    [do : Handlers, at : Places, account : Accounts \cup {NoAccount},
     password : Nat, token : Nat]

TabsTyped ==
    /\ boot \in [Browsers -> Boots] /\ cookie \in [Browsers -> Nat]
    /\ request \in [Browsers -> Requests]

TablesTyped ==
    /\ accounts \subseteq Accounts /\ password \in [Accounts -> Nat]
    /\ sessions \subseteq [token : Nat, account : Accounts, password : Nat]
    /\ tokens \in Nat /\ raced \in BOOLEAN

(* A handler past its first check acts for an account, and nobody has a     *)
(* token that was not given yet.                                            *)
Holds(r) ==
    /\ r.do \in {"setup", "login"} => r.account \in Accounts
    /\ r.do \in {"logout", "change"} /\ r.at \in {"checked", "written", "revoked"} =>
         r.account \in Accounts
    /\ r.token <= tokens

RequestsHold == \A b \in Browsers : Holds(request[b])

TokensAreGiven ==
    /\ \A b \in Browsers : cookie[b] <= tokens
    /\ \A s \in sessions : 1 <= s.token /\ s.token <= tokens

(* Who is told that nobody is signed in has a cookie that opens nothing.    *)
NobodyIsNobody ==
    \A b \in Browsers : At(b, "me", "no") \/ At(b, "logout", "no") => CookieUsers(b) = {}

(* Unless two setups race, one of them at most is past its check, and none  *)
(* once there is an account.                                                *)
OneSetup ==
    ~raced =>
        \/ /\ accounts = {}
           /\ \A j, k \in Browsers :
                At(j, "setup", "checked") /\ At(k, "setup", "checked") => j = k
        \/ /\ \E a \in Accounts : accounts = {a}
           /\ \A k \in Browsers : ~At(k, "setup", "checked")

SignInv ==
    /\ TabsTyped /\ TablesTyped /\ RequestsHold /\ TokensAreGiven
    /\ NobodyIsNobody /\ OneSetup /\ SessionsFollowPassword /\ SignedOutIsOut

-----------------------------------------------------------------------------
(* Signing in: frame *)

LEMMA SignStepKinds ==
    ASSUME [Next]_vars
    PROVE  SignInNext \/ UNCHANGED signInVars
<1>1. CASE AtDashboard \/ AtAdmin \/ AtMeeting(MeetingNext) \/ Elsewhere
  BY <1>1 DEF AtDashboard, AtAdmin, AtMeeting, Elsewhere
<1>2. CASE AtSignIn
  BY <1>2 DEF AtSignIn
<1>3. CASE AtDocuments(DocumentsNext) \/ AtSearch \/ AtTasks \/ AtRecording
  BY <1>3 DEF AtDocuments, AtSearch, AtTasks, AtRecording, otherVars
<1>4. CASE UNCHANGED vars
  BY <1>4 DEF vars
<1> QED BY <1>1, <1>2, <1>3, <1>4 DEF Next

LEMMA SignUnchanged ==
    ASSUME SignInv, UNCHANGED signInVars
    PROVE  SignInv'
  BY DEF SignInv, TabsTyped, TablesTyped, RequestsHold, Holds, TokensAreGiven, NobodyIsNobody,
         OneSetup, SessionsFollowPassword, SignedOutIsOut, At, CookieUsers, signInVars

-----------------------------------------------------------------------------
(* Steps that leave the tables alone: the page asks, a route answers, an    *)
(* answer arrives or is lost.                                               *)

(* Which form shows afterwards, and with which cookie *)
TabMay(b, r) ==
    /\ boot' \in [Browsers -> Boots] /\ cookie' \in [Browsers -> Nat]
    /\ \A k \in Browsers : cookie'[k] <= tokens
    /\ \A k \in Browsers : k # b => boot'[k] = boot[k] /\ cookie'[k] = cookie[k]
    /\ stayed \subseteq stayed'
    /\ boot'[b] = "login" =>
         \/ boot[b] = "login" /\ cookie'[b] = cookie[b]
         \/ b \in stayed'
         \/ CookieUsers(b)' = {}
    /\ r.do \in {"me", "logout"} /\ r.at = "no" => CookieUsers(b)' = {}

LEMMA RequestStep ==
    ASSUME SignInv, NEW b \in Browsers, NEW r \in Requests, Holds(r), TabMay(b, r),
           kept \subseteq kept',
           At(b, "change", "written") =>
             \A s \in sessions : s.account = request[b].account => s.token \in kept',
           ~(r.do = "setup" /\ r.at = "checked"),
           request' = [request EXCEPT ![b] = r],
           UNCHANGED <<accounts, password, sessions, tokens, late, raced>>
    PROVE  SignInv'
<1>1. /\ request' \in [Browsers -> Requests] /\ request'[b] = r
      /\ \A k \in Browsers : k # b => request'[k] = request[k]
  BY DEF SignInv, TabsTyped
<1>2. \A k \in Browsers : cookie'[k] = cookie[k] => CookieUsers(k)' = CookieUsers(k)
  BY DEF CookieUsers
<1>3. TabsTyped' /\ TablesTyped'
  BY <1>1 DEF SignInv, TabsTyped, TablesTyped, TabMay
<1>4. RequestsHold'
  BY <1>1 DEF SignInv, RequestsHold, Holds
<1>5. TokensAreGiven'
  BY DEF SignInv, TokensAreGiven, TabMay
<1>6. NobodyIsNobody'
  BY <1>1, <1>2 DEF SignInv, NobodyIsNobody, At, TabMay
<1>7. OneSetup'
  BY <1>1 DEF SignInv, OneSetup, At
<1>8. SessionsFollowPassword'
  <2> SUFFICES ASSUME NEW s \in sessions, s.password # password[s.account],
                      s.token \notin late \cup kept'
               PROVE  \E k \in Browsers :
                        At(k, "change", "written")' /\ request'[k].account = s.account
    BY DEF SessionsFollowPassword
  <2>1. PICK k \in Browsers : At(k, "change", "written") /\ request[k].account = s.account
    BY DEF SignInv, SessionsFollowPassword
  <2>2. k # b
    BY <2>1
  <2> QED BY <1>1, <2>1, <2>2 DEF At
<1>9. SignedOutIsOut'
  BY <1>2 DEF SignInv, SignedOutIsOut, TabMay
<1> QED BY <1>3, <1>4, <1>5, <1>6, <1>7, <1>8, <1>9 DEF SignInv

(* The same when the tab stays as it is *)
LEMMA QuietStep ==
    ASSUME SignInv, NEW b \in Browsers, NEW r \in Requests, Holds(r),
           r.do \in {"me", "logout"} /\ r.at = "no" => CookieUsers(b) = {},
           ~At(b, "change", "written"), ~(r.do = "setup" /\ r.at = "checked"),
           request' = [request EXCEPT ![b] = r],
           UNCHANGED <<boot, cookie, accounts, password, sessions, tokens, late, kept, raced, stayed>>
    PROVE  SignInv'
<1>1. CookieUsers(b)' = CookieUsers(b)
  BY DEF CookieUsers
<1>2. TabMay(b, r)
  BY <1>1 DEF TabMay, SignInv, TabsTyped, TokensAreGiven
<1> QED BY <1>2, RequestStep

LEMMA AskedRecord ==
    ASSUME NEW what \in Handlers
    PROVE  /\ Ask(what) \in Requests /\ Ask(what).do = what /\ Ask(what).at = "asked"
           /\ Ask(what).token = 0
<1>1. Quiet \in Requests
  BY DEF Quiet, Requests, Handlers, Places
<1>2. Ask(what) \in Requests
  BY <1>1 DEF Ask, Requests, Places
<1>3. Ask(what).do = what /\ Ask(what).at = "asked" /\ Ask(what).token = 0
  BY DEF Ask, Quiet
<1> QED BY <1>2, <1>3

LEMMA QuietHolds ==
    ASSUME TablesTyped
    PROVE  Quiet \in Requests /\ Quiet.do = "none" /\ Holds(Quiet)
<1>1. Quiet \in Requests
  BY DEF Quiet, Requests, Handlers, Places
<1>2. Quiet.do = "none" /\ Quiet.token = 0
  BY DEF Quiet
<1>3. Holds(Quiet)
  BY <1>2 DEF Holds, TablesTyped
<1> QED BY <1>1, <1>2, <1>3

LEMMA SignPageStep ==
    ASSUME SignInv, NEW b \in Browsers,
           \/ ReloadTab(b) \/ ClickLogout(b)
           \/ \E a \in Accounts : ClickSetup(b, a) \/ \E p \in Passwords : ClickLogin(b, a, p)
           \/ \E p \in Passwords : ClickChange(b, p)
    PROVE  SignInv'
<1>typed. TabsTyped /\ TablesTyped /\ ~At(b, "change", "written")
  BY DEF SignInv, ReloadTab, ClickLogout, ClickSetup, ClickLogin, ClickChange, IsQuiet, At
<1>asks. \A what \in Handlers :
           /\ Ask(what) \in Requests /\ Ask(what).do = what /\ Ask(what).at = "asked"
           /\ Ask(what).token = 0
  BY AskedRecord
<1>1. CASE ReloadTab(b)
  <2>1. Ask("status") \in Requests /\ Holds(Ask("status"))
    BY <1>asks, <1>typed DEF Handlers, Holds, TablesTyped
  <2>2. TabMay(b, Ask("status"))
    BY <1>1, <1>asks DEF ReloadTab, TabMay, SignInv, TabsTyped, TokensAreGiven, Handlers, Boots
  <2>3. request' = [request EXCEPT ![b] = Ask("status")]
        /\ UNCHANGED <<accounts, password, sessions, tokens, late, kept, raced>>
    BY <1>1 DEF ReloadTab
  <2>4. Ask("status").at # "checked"
    BY <1>asks DEF Handlers
  <2> QED BY <2>1, <2>2, <2>3, <2>4, <1>typed, RequestStep
<1>2. ASSUME NEW r \in Requests, r.at = "asked", Holds(r),
             request' = [request EXCEPT ![b] = r],
             UNCHANGED <<boot, cookie, accounts, password, sessions, tokens, late, kept, raced, stayed>>
      PROVE  SignInv'
  BY <1>2, <1>typed, QuietStep
<1>3. CASE ClickLogout(b)
  <2>1. Ask("logout") \in Requests /\ Ask("logout").at = "asked" /\ Holds(Ask("logout"))
    BY <1>asks, <1>typed DEF Handlers, Holds, TablesTyped
  <2> QED BY <1>2, <1>3, <2>1 DEF ClickLogout
<1>4. CASE \E a \in Accounts : ClickSetup(b, a)
  <2> PICK a \in Accounts : ClickSetup(b, a)
    BY <1>4
  <2> DEFINE r == [Ask("setup") EXCEPT !.account = a, !.password = 1]
  <2>1. r \in Requests /\ r.at = "asked" /\ r.token = 0 /\ r.account = a /\ r.do = "setup"
    BY <1>asks DEF Handlers, Requests
  <2>2. request' = [request EXCEPT ![b] = r]
    BY DEF ClickSetup
  <2> HIDE DEF r
  <2>3. Holds(r)
    BY <2>1, <1>typed DEF Holds, TablesTyped
  <2> QED BY <1>2, <2>1, <2>2, <2>3 DEF ClickSetup
<1>5. CASE \E a \in Accounts, p \in Passwords : ClickLogin(b, a, p)
  <2> PICK a \in Accounts, p \in Passwords : ClickLogin(b, a, p)
    BY <1>5
  <2> DEFINE r == [Ask("login") EXCEPT !.account = a, !.password = p]
  <2>0. p \in Nat
    BY SignInAssumption DEF Passwords
  <2>1. r \in Requests /\ r.at = "asked" /\ r.token = 0 /\ r.account = a /\ r.do = "login"
    BY <2>0, <1>asks DEF Handlers, Requests
  <2>2. request' = [request EXCEPT ![b] = r]
    BY DEF ClickLogin
  <2> HIDE DEF r
  <2>3. Holds(r)
    BY <2>1, <1>typed DEF Holds, TablesTyped
  <2> QED BY <1>2, <2>1, <2>2, <2>3 DEF ClickLogin
<1>6. CASE \E p \in Passwords : ClickChange(b, p)
  <2> PICK p \in Passwords : ClickChange(b, p)
    BY <1>6
  <2> DEFINE r == [Ask("change") EXCEPT !.password = p]
  <2>0. p \in Nat
    BY SignInAssumption DEF Passwords
  <2>1. r \in Requests /\ r.at = "asked" /\ r.token = 0 /\ r.do = "change"
    BY <2>0, <1>asks DEF Handlers, Requests
  <2>2. request' = [request EXCEPT ![b] = r]
    BY DEF ClickChange
  <2> HIDE DEF r
  <2>3. Holds(r)
    BY <2>1, <1>typed DEF Holds, TablesTyped
  <2> QED BY <1>2, <2>1, <2>2, <2>3 DEF ClickChange
<1> QED BY <1>1, <1>3, <1>4, <1>5, <1>6

(* A handler goes to its next place, and may have learned an account. *)
LEMMA GoesStep ==
    ASSUME SignInv, NEW b \in Browsers, NEW at \in Places,
           NEW a \in Accounts \cup {NoAccount},
           request' = [request EXCEPT ![b] = [request[b] EXCEPT !.at = at, !.account = a]],
           ~At(b, "change", "written"), ~(request[b].do = "setup" /\ at = "checked"),
           request[b].do \in {"setup", "login"} => a \in Accounts,
           request[b].do \in {"logout", "change"} /\ at \in {"checked", "written", "revoked"} =>
             a \in Accounts,
           request[b].do \in {"me", "logout"} /\ at = "no" => CookieUsers(b) = {},
           UNCHANGED <<boot, cookie, accounts, password, sessions, tokens, late, kept, raced, stayed>>
    PROVE  SignInv'
<1> DEFINE r == [request[b] EXCEPT !.at = at, !.account = a]
<1>1. request[b] \in Requests /\ request[b].token <= tokens
  BY DEF SignInv, TabsTyped, RequestsHold, Holds
<1>2. /\ r \in Requests /\ r.at = at /\ r.account = a /\ r.do = request[b].do
      /\ r.token = request[b].token
  BY <1>1 DEF Requests
<1>3. request' = [request EXCEPT ![b] = r]
  OBVIOUS
<1> HIDE DEF r
<1>4. Holds(r)
  BY <1>1, <1>2 DEF Holds
<1> QED BY <1>2, <1>3, <1>4, QuietStep

(* The same with the account it has *)
LEMMA MovesStep ==
    ASSUME SignInv, NEW b \in Browsers, NEW at \in Places, Moves(b, at),
           ~At(b, "change", "written"), ~(request[b].do = "setup" /\ at = "checked"),
           request[b].do \in {"logout", "change"} =>
             at \notin {"checked", "written", "revoked"} \/ request[b].account \in Accounts,
           request[b].do \in {"me", "logout"} /\ at = "no" => CookieUsers(b) = {},
           UNCHANGED <<boot, cookie, accounts, password, sessions, tokens, late, kept, raced, stayed>>
    PROVE  SignInv'
<1>1. request[b] \in Requests /\ Holds(request[b])
  BY DEF SignInv, TabsTyped, RequestsHold
<1>2. request[b].account \in Accounts \cup {NoAccount}
  BY <1>1 DEF Requests
<1>3. [request[b] EXCEPT !.at = at]
         = [request[b] EXCEPT !.at = at, !.account = request[b].account]
  BY <1>1 DEF Requests
<1>4. request' = [request EXCEPT ![b] = [request[b] EXCEPT !.at = at]]
  BY DEF Moves
<1> QED BY <1>1, <1>2, <1>3, <1>4, GoesStep DEF Holds

LEMMA CookieUsersTyped ==
    ASSUME TablesTyped, NEW b \in Browsers
    PROVE  CookieUsers(b) \subseteq Accounts
  BY DEF TablesTyped, CookieUsers

LEMMA BootHandledStep ==
    ASSUME SignInv, NEW b \in Browsers, BootHandled(b)
    PROVE  SignInv'
<1>0. UNCHANGED <<boot, cookie, accounts, password, sessions, tokens, late, kept, raced, stayed>>
  BY DEF BootHandled
<1>1. CASE At(b, "status", "asked") /\ Moves(b, IF accounts = {} THEN "no" ELSE "yes")
  <2>1. PICK at \in {"no", "yes"} : Moves(b, at)
    BY <1>1
  <2>2. at \in Places
    BY DEF Places
  <2> QED BY <1>0, <1>1, <2>1, <2>2, MovesStep DEF At
<1>2. CASE At(b, "me", "asked") /\ CookieUsers(b) = {} /\ Moves(b, "no")
  BY <1>0, <1>2, MovesStep DEF At, Places
<1>3. CASE /\ At(b, "me", "asked")
           /\ \E a \in CookieUsers(b) :
                request' = [request EXCEPT ![b].at = "yes", ![b].account = a]
  <2>1. PICK a \in CookieUsers(b) :
          request' = [request EXCEPT ![b].at = "yes", ![b].account = a]
    BY <1>3
  <2>2. a \in Accounts
    BY CookieUsersTyped DEF SignInv
  <2>3. request' = [request EXCEPT ![b] = [request[b] EXCEPT !.at = "yes", !.account = a]]
    BY <2>1 DEF SignInv, TabsTyped
  <2>4. "yes" \in Places
    BY DEF Places
  <2> QED BY <1>0, <1>3, <2>2, <2>3, <2>4, GoesStep DEF At
<1> QED BY <1>1, <1>2, <1>3 DEF BootHandled

LEMMA CookieCheckedStep ==
    ASSUME SignInv, NEW b \in Browsers, CookieChecked(b)
    PROVE  SignInv'
<1>0. /\ UNCHANGED <<boot, cookie, accounts, password, sessions, tokens, late, kept, raced, stayed>>
      /\ request[b].at = "asked" /\ request[b].do \in {"logout", "change"}
  BY DEF CookieChecked, At
<1>1. CASE \E a \in CookieUsers(b) :
             request' = [request EXCEPT ![b].at = "checked", ![b].account = a]
  <2>1. PICK a \in CookieUsers(b) :
          request' = [request EXCEPT ![b].at = "checked", ![b].account = a]
    BY <1>1
  <2>2. a \in Accounts
    BY CookieUsersTyped DEF SignInv
  <2>3. request' = [request EXCEPT ![b] = [request[b] EXCEPT !.at = "checked", !.account = a]]
    BY <2>1 DEF SignInv, TabsTyped
  <2>4. "checked" \in Places
    BY DEF Places
  <2> QED BY <1>0, <2>2, <2>3, <2>4, GoesStep DEF At
<1>2. CASE Moves(b, "no") /\ (request[b].do = "logout" => CookieUsers(b) = {})
  BY <1>0, <1>2, MovesStep DEF At, Places
<1> QED BY <1>0, <1>1, <1>2 DEF CookieChecked

LEMMA LoginCheckedStep ==
    ASSUME SignInv, NEW b \in Browsers, LoginChecked(b)
    PROVE  SignInv'
<1>0. /\ UNCHANGED <<boot, cookie, accounts, password, sessions, tokens, late, kept, raced, stayed>>
      /\ request[b].do = "login"
  BY DEF LoginChecked, At
<1>1. PICK at \in {"checked", "no"} : Moves(b, at)
  BY DEF LoginChecked
<1>2. at \in Places
  BY DEF Places
<1> QED BY <1>0, <1>1, <1>2, MovesStep DEF At

-----------------------------------------------------------------------------
(* Answers that arrive, and those that do not *)

LEMMA ArrivalStep ==
    ASSUME SignInv, NEW b \in Browsers, NEW show \in Boots, NEW token \in Nat,
           request' = [request EXCEPT ![b] = Quiet],
           boot' = [boot EXCEPT ![b] = show], cookie' = [cookie EXCEPT ![b] = token],
           token <= tokens, stayed \subseteq stayed', kept \subseteq kept',
           At(b, "change", "written") =>
             \A s \in sessions : s.account = request[b].account => s.token \in kept',
           show = "login" =>
             \/ boot[b] = "login" /\ token = cookie[b]
             \/ b \in stayed'
             \/ {t \in sessions : t.token = token} = {},
           UNCHANGED <<accounts, password, sessions, tokens, late, raced>>
    PROVE  SignInv'
<1>1. Quiet \in Requests /\ Quiet.do = "none" /\ Holds(Quiet)
  BY QuietHolds DEF SignInv
<1>2. boot \in [Browsers -> Boots] /\ cookie \in [Browsers -> Nat]
  BY DEF SignInv, TabsTyped
<1>3. {t \in sessions : t.token = token} = {} => CookieUsers(b)' = {}
  BY <1>2 DEF CookieUsers
<1>4. \A k \in Browsers : cookie'[k] <= tokens
  BY <1>2 DEF SignInv, TokensAreGiven
<1>5. TabMay(b, Quiet)
  BY <1>1, <1>2, <1>3, <1>4 DEF TabMay
<1> QED BY <1>1, <1>5, RequestStep

LEMMA BootArrivesStep ==
    ASSUME SignInv, NEW b \in Browsers, BootArrives(b)
    PROVE  SignInv'
<1>0. UNCHANGED <<cookie, accounts, password, sessions, tokens, late, kept, raced, stayed>>
  BY DEF BootArrives
<1>1. /\ boot \in [Browsers -> Boots] /\ cookie \in [Browsers -> Nat]
      /\ cookie[b] <= tokens
  BY DEF SignInv, TabsTyped, TokensAreGiven
<1>2. CASE /\ At(b, "status", "yes")
           /\ request' = [request EXCEPT ![b] = Ask("me")] /\ UNCHANGED boot
  <2>1. Ask("me") \in Requests /\ Ask("me").at = "asked" /\ Ask("me").do = "me"
        /\ Ask("me").token = 0
    BY AskedRecord DEF Handlers
  <2>2. Holds(Ask("me"))
    BY <2>1 DEF Holds, SignInv, TablesTyped
  <2> QED BY <1>0, <1>2, <2>1, <2>2, QuietStep DEF At
<1>3. CASE /\ At(b, "status", "no") \/ At(b, "me", "no") \/ At(b, "me", "yes")
           /\ boot' = [boot EXCEPT ![b] =
                         IF request[b].do = "status" THEN "needs_setup"
                         ELSE IF request[b].at = "yes" THEN "ready" ELSE "login"]
           /\ request' = [request EXCEPT ![b] = Quiet]
  <2> DEFINE show == IF request[b].do = "status" THEN "needs_setup"
                     ELSE IF request[b].at = "yes" THEN "ready" ELSE "login"
  <2>1. show \in Boots
    BY DEF Boots
  <2>2. show = "login" => At(b, "me", "no")
    BY <1>3 DEF At
  <2>3. boot' = [boot EXCEPT ![b] = show]
    BY <1>3
  <2>4. ~At(b, "change", "written")
    BY <1>3 DEF At
  <2> HIDE DEF show
  <2>5. show = "login" => {t \in sessions : t.token = cookie[b]} = {}
    BY <2>2 DEF SignInv, NobodyIsNobody, CookieUsers
  <2>6. cookie' = [cookie EXCEPT ![b] = cookie[b]]
    BY <1>0, <1>1
  <2>7. cookie[b] \in Nat
    BY <1>1
  <2> QED BY <1>0, <1>1, <1>3, <2>1, <2>3, <2>4, <2>5, <2>6, <2>7, ArrivalStep
<1> QED BY <1>2, <1>3 DEF BootArrives

LEMMA FormArrivesStep ==
    ASSUME SignInv, NEW b \in Browsers, FormArrives(b)
    PROVE  SignInv'
<1>0. /\ UNCHANGED <<accounts, password, sessions, tokens, late, kept, raced, stayed>>
      /\ request[b].at \in {"yes", "no"} /\ request' = [request EXCEPT ![b] = Quiet]
  BY DEF FormArrives
<1>1. /\ boot \in [Browsers -> Boots] /\ cookie \in [Browsers -> Nat]
      /\ request[b] \in Requests /\ cookie[b] <= tokens /\ request[b].token <= tokens
  BY DEF SignInv, TabsTyped, TokensAreGiven, RequestsHold, Holds
<1>2. CASE /\ cookie' = [cookie EXCEPT ![b] = request[b].token]
           /\ boot' = [boot EXCEPT ![b] = "ready"]
  <2>1. request[b].token \in Nat /\ "ready" \in Boots /\ ~At(b, "change", "written")
    BY <1>0, <1>1 DEF Requests, Boots, At
  <2> QED BY <1>0, <1>1, <1>2, <2>1, ArrivalStep
<1>3. CASE UNCHANGED <<cookie, boot>>
  <2>1. boot' = [boot EXCEPT ![b] = boot[b]] /\ cookie' = [cookie EXCEPT ![b] = cookie[b]]
    BY <1>1, <1>3
  <2>2. boot[b] \in Boots /\ cookie[b] \in Nat /\ ~At(b, "change", "written")
    BY <1>0, <1>1 DEF At
  <2> QED BY <1>0, <1>1, <2>1, <2>2, ArrivalStep
<1> QED BY <1>2, <1>3 DEF FormArrives

LEMMA LogoutArrivesStep ==
    ASSUME SignInv, NEW b \in Browsers, LogoutArrives(b)
    PROVE  SignInv'
<1>0. /\ UNCHANGED <<accounts, password, sessions, tokens, late, kept, raced, stayed>>
      /\ At(b, "logout", "yes") \/ At(b, "logout", "no")
      /\ request' = [request EXCEPT ![b] = Quiet]
      /\ boot' = [boot EXCEPT ![b] = "login"] /\ "login" \in Boots
  BY DEF LogoutArrives, SignedOut, Boots
<1>1. cookie \in [Browsers -> Nat] /\ cookie[b] <= tokens /\ tokens \in Nat
  BY DEF SignInv, TabsTyped, TablesTyped, TokensAreGiven
<1>2. ~At(b, "change", "written")
  BY <1>0 DEF At
<1>3. CASE At(b, "logout", "yes")
  <2>1. cookie' = [cookie EXCEPT ![b] = 0]
    BY <1>3 DEF LogoutArrives, At
  <2>2. {t \in sessions : t.token = 0} = {}
    BY DEF SignInv, TokensAreGiven
  <2>3. 0 \in Nat /\ 0 <= tokens
    BY <1>1
  <2> QED BY <1>0, <1>2, <2>1, <2>2, <2>3, ArrivalStep
<1>4. CASE At(b, "logout", "no")
  <2>1. cookie' = [cookie EXCEPT ![b] = cookie[b]]
    BY <1>4 DEF LogoutArrives, At
  <2>2. {t \in sessions : t.token = cookie[b]} = {}
    BY <1>4 DEF SignInv, NobodyIsNobody, CookieUsers
  <2> QED BY <1>0, <1>1, <1>2, <2>1, <2>2, ArrivalStep
<1> QED BY <1>0, <1>3, <1>4

LEMMA RequestLostStep ==
    ASSUME SignInv, NEW b \in Browsers, RequestLost(b)
    PROVE  SignInv'
<1>0. /\ UNCHANGED <<cookie, accounts, password, sessions, tokens, late, raced>>
      /\ request' = [request EXCEPT ![b] = Quiet]
  BY DEF RequestLost
<1>1. /\ boot \in [Browsers -> Boots] /\ cookie \in [Browsers -> Nat]
      /\ cookie[b] <= tokens
  BY DEF SignInv, TabsTyped, TokensAreGiven
<1>2. PICK show \in Boots :
        /\ boot' = [boot EXCEPT ![b] = show] /\ stayed \subseteq stayed'
        /\ show = "login" => boot[b] = "login" \/ b \in stayed'
  <2>1. CASE boot' = [boot EXCEPT ![b] = "offline"] /\ UNCHANGED stayed
    BY <2>1 DEF Boots
  <2>2. CASE SignedOut(b) /\ stayed' = stayed \cup {b}
    BY <2>2 DEF SignedOut, Boots
  <2>3. CASE UNCHANGED <<boot, stayed>>
    <3>1. boot[b] \in Boots /\ boot' = [boot EXCEPT ![b] = boot[b]]
      BY <1>1, <2>3
    <3> QED BY <2>3, <3>1
  <2> QED BY <2>1, <2>2, <2>3 DEF RequestLost
<1>3. cookie' = [cookie EXCEPT ![b] = cookie[b]] /\ cookie[b] \in Nat
  BY <1>0, <1>1
<1>4. /\ kept \subseteq kept'
      /\ At(b, "change", "written") =>
           \A s \in sessions : s.account = request[b].account => s.token \in kept'
  BY DEF RequestLost
<1> QED BY <1>0, <1>1, <1>2, <1>3, <1>4, ArrivalStep

-----------------------------------------------------------------------------
(* Statements that write the tables *)

(* request of b goes on, and those of the others stay *)
LEMMA OthersStay ==
    ASSUME TabsTyped, NEW b \in Browsers, NEW at \in Places, Moves(b, at)
    PROVE  /\ request' \in [Browsers -> Requests]
           /\ request'[b].at = at /\ request'[b].do = request[b].do
           /\ request'[b].account = request[b].account
           /\ request'[b].token = request[b].token
           /\ \A k \in Browsers : k # b => request'[k] = request[k]
<1>1. request \in [Browsers -> Requests] /\ request[b] \in Requests
  BY DEF TabsTyped
<1>2. [request[b] EXCEPT !.at = at] \in Requests
  BY <1>1 DEF Requests
<1> QED BY <1>1, <1>2 DEF Moves, Requests

LEMMA SetupCheckedStep ==
    ASSUME SignInv, NEW b \in Browsers, SetupChecked(b)
    PROVE  SignInv'
<1>0. /\ UNCHANGED <<boot, cookie, accounts, password, sessions, tokens, late, kept, stayed>>
      /\ At(b, "setup", "asked") /\ TabsTyped
  BY DEF SetupChecked, SignInv
<1>1. PICK at \in Places :
        Moves(b, at) /\ at = IF accounts = {} THEN "checked" ELSE "no"
  BY DEF SetupChecked, Places
<1>2. /\ request' \in [Browsers -> Requests]
      /\ request'[b].at = at /\ request'[b].do = "setup"
      /\ request'[b].account = request[b].account
      /\ request'[b].token = request[b].token
      /\ \A k \in Browsers : k # b => request'[k] = request[k]
  BY <1>0, <1>1, OthersStay DEF At
<1>3. \A k \in Browsers : CookieUsers(k)' = CookieUsers(k)
  BY <1>0 DEF CookieUsers
<1>4. TabsTyped' /\ TablesTyped' /\ RequestsHold' /\ TokensAreGiven'
  <2>1. raced' \in BOOLEAN
    BY <1>0 DEF SetupChecked, SignInv, TablesTyped
  <2>2. TabsTyped'
    BY <1>0, <1>2 DEF TabsTyped
  <2>3. TablesTyped'
    BY <1>0, <2>1 DEF SignInv, TablesTyped
  <2>4. RequestsHold'
    BY <1>0, <1>2 DEF SignInv, RequestsHold, Holds, At
  <2> QED BY <1>0, <2>2, <2>3, <2>4 DEF SignInv, TokensAreGiven
<1>5. NobodyIsNobody'
  BY <1>2, <1>3 DEF SignInv, NobodyIsNobody, At
<1>6. OneSetup'
  <2>1. CASE accounts = {}
    <3>1. ~raced' => ~raced /\ \A k \in Browsers : ~At(k, "setup", "checked")
      BY <2>1 DEF SetupChecked
    <3>2. ~raced' => \A k \in Browsers : At(k, "setup", "checked")' => k = b
      BY <1>2, <3>1 DEF At
    <3> QED BY <1>0, <2>1, <3>2 DEF OneSetup
  <2>2. CASE accounts # {}
    <3>1. \A k \in Browsers : At(k, "setup", "checked")' => At(k, "setup", "checked")
      BY <1>1, <1>2, <2>2 DEF At
    <3>2. ~raced' => ~raced
      BY DEF SetupChecked
    <3> QED BY <1>0, <2>2, <3>1, <3>2 DEF SignInv, OneSetup
  <2> QED BY <2>1, <2>2
<1>7. SessionsFollowPassword'
  BY <1>0, <1>2 DEF SignInv, SessionsFollowPassword, At
<1>8. SignedOutIsOut'
  BY <1>0, <1>3 DEF SignInv, SignedOutIsOut
<1> QED BY <1>4, <1>5, <1>6, <1>7, <1>8 DEF SignInv

LEMMA SetupInsertedStep ==
    ASSUME SignInv, NEW b \in Browsers, SetupInserted(b)
    PROVE  SignInv'
<1> DEFINE a == request[b].account
<1>0. /\ UNCHANGED <<boot, cookie, password, sessions, tokens, late, kept, raced, stayed>>
      /\ At(b, "setup", "checked") /\ TabsTyped /\ accounts' = accounts \cup {a}
  BY DEF SetupInserted, SignInv
<1>1. PICK at \in Places : Moves(b, at) /\ at \in {"no", "written"}
  BY DEF SetupInserted, Places
<1>2. /\ request' \in [Browsers -> Requests]
      /\ request'[b].at = at /\ request'[b].do = "setup"
      /\ request'[b].account = request[b].account
      /\ request'[b].token = request[b].token
      /\ \A k \in Browsers : k # b => request'[k] = request[k]
  BY <1>0, <1>1, OthersStay DEF At
<1>3. \A k \in Browsers : CookieUsers(k)' = CookieUsers(k)
  BY <1>0 DEF CookieUsers
<1>a. a \in Accounts
  BY <1>0 DEF SignInv, RequestsHold, Holds, At
<1> HIDE DEF a
<1>4. TabsTyped' /\ TablesTyped' /\ RequestsHold' /\ TokensAreGiven'
  <2>1. TabsTyped'
    BY <1>0, <1>2 DEF TabsTyped
  <2>2. TablesTyped'
    BY <1>0, <1>a DEF SignInv, TablesTyped
  <2>3. RequestsHold'
    BY <1>0, <1>2 DEF SignInv, RequestsHold, Holds, At
  <2> QED BY <1>0, <2>1, <2>2, <2>3 DEF SignInv, TokensAreGiven
<1>5. NobodyIsNobody'
  BY <1>2, <1>3 DEF SignInv, NobodyIsNobody, At
<1>6. OneSetup'
  <2>1. ~raced =>
          accounts = {} /\ \A k \in Browsers : At(k, "setup", "checked") => k = b
    BY <1>0 DEF SignInv, OneSetup
  <2>2. ~raced => \A k \in Browsers : ~At(k, "setup", "checked")'
    BY <1>1, <1>2, <2>1 DEF At
  <2> QED BY <1>0, <1>a, <2>1, <2>2 DEF OneSetup
<1>7. SessionsFollowPassword'
  BY <1>0, <1>2 DEF SignInv, SessionsFollowPassword, At
<1>8. SignedOutIsOut'
  BY <1>0, <1>3 DEF SignInv, SignedOutIsOut
<1> QED BY <1>4, <1>5, <1>6, <1>7, <1>8 DEF SignInv

(* A new session opens for no cookie that is about. *)
LEMMA CreateStep ==
    ASSUME SignInv, NEW b \in Browsers, request[b].account \in Accounts,
           ~At(b, "change", "written"),
           CreateSession(b, request[b].account, request[b].password),
           UNCHANGED <<boot, cookie, accounts, password, kept, raced, stayed>>
    PROVE  SignInv'
<1> DEFINE s0 == [token |-> tokens + 1, account |-> request[b].account,
                  password |-> request[b].password]
           r == [request[b] EXCEPT !.at = "yes", !.token = tokens + 1]
<1>1. /\ request[b] \in Requests /\ tokens \in Nat /\ tokens' = tokens + 1
      /\ request \in [Browsers -> Requests]
  BY DEF SignInv, TabsTyped, TablesTyped, CreateSession
<1>2. /\ r \in Requests /\ r.at = "yes" /\ r.do = request[b].do /\ r.token = tokens + 1
      /\ r.account = request[b].account
  <2>1. tokens + 1 \in Nat /\ "yes" \in Places
    BY <1>1 DEF Places
  <2>2. r \in Requests
    BY <1>1, <2>1 DEF Requests
  <2> QED BY <1>1, <2>2 DEF Requests
<1>3. request' = [request EXCEPT ![b] = r]
  BY <1>1 DEF CreateSession, Requests
<1>4. /\ sessions' = sessions \cup {s0} /\ s0.token = tokens + 1
      /\ s0.account = request[b].account /\ s0.password = request[b].password
      /\ s0 \in [token : Nat, account : Accounts, password : Nat]
  BY <1>1 DEF CreateSession, Requests
<1>5. late \subseteq late' /\ (password[s0.account] # s0.password => s0.token \in late')
  BY <1>1 DEF CreateSession
<1> HIDE DEF r, s0
<1>6. /\ request' \in [Browsers -> Requests] /\ request'[b] = r
      /\ \A k \in Browsers : k # b => request'[k] = request[k]
  BY <1>1, <1>2, <1>3
<1>7. \A k \in Browsers : CookieUsers(k)' = CookieUsers(k)
  <2> SUFFICES ASSUME NEW k \in Browsers
               PROVE  CookieUsers(k)' = CookieUsers(k)
    OBVIOUS
  <2>1. cookie[k] \in Nat /\ cookie[k] <= tokens
    BY DEF SignInv, TabsTyped, TokensAreGiven
  <2>2. s0.token # cookie[k]
    BY <1>1, <1>4, <2>1
  <2>3. {t \in sessions' : t.token = cookie[k]} = {t \in sessions : t.token = cookie[k]}
    BY <1>4, <2>2
  <2> QED BY <2>3 DEF CookieUsers
<1>8. TabsTyped' /\ TablesTyped'
  BY <1>1, <1>4, <1>6 DEF SignInv, TabsTyped, TablesTyped
<1>9. RequestsHold'
  <2> SUFFICES ASSUME NEW k \in Browsers PROVE Holds(request[k])'
    BY DEF RequestsHold
  <2>1. request[k] \in Requests /\ Holds(request[k])
    BY DEF SignInv, TabsTyped, RequestsHold
  <2>2. request[k].token \in Nat
    BY <2>1 DEF Requests
  <2>3. CASE k # b
    BY <1>1, <1>6, <2>1, <2>2, <2>3 DEF Holds
  <2>4. CASE k = b
    BY <1>1, <1>2, <1>6, <2>4 DEF Holds
  <2> QED BY <2>3, <2>4
<1>10. TokensAreGiven'
  <2>1. \A k \in Browsers : cookie[k] \in Nat /\ cookie[k] <= tokens
    BY DEF SignInv, TabsTyped, TokensAreGiven
  <2>2. \A s \in sessions : s.token \in Nat /\ 1 <= s.token /\ s.token <= tokens
    BY DEF SignInv, TablesTyped, TokensAreGiven
  <2> QED BY <1>1, <1>4, <2>1, <2>2 DEF TokensAreGiven
<1>11. NobodyIsNobody'
  BY <1>2, <1>6, <1>7 DEF SignInv, NobodyIsNobody, At
<1>12. OneSetup'
  BY <1>2, <1>6 DEF SignInv, OneSetup, At
<1>13. SessionsFollowPassword'
  <2>1. \A k \in Browsers :
          At(k, "change", "written") =>
            At(k, "change", "written")' /\ request'[k].account = request[k].account
    BY <1>6 DEF At
  <2> QED BY <1>4, <1>5, <2>1 DEF SignInv, SessionsFollowPassword
<1>14. SignedOutIsOut'
  BY <1>7 DEF SignInv, SignedOutIsOut
<1> QED BY <1>8, <1>9, <1>10, <1>11, <1>12, <1>13, <1>14 DEF SignInv

LEMMA SessionStep ==
    ASSUME SignInv, NEW b \in Browsers,
           SetupSession(b) \/ LoginSession(b) \/ ChangeSession(b)
    PROVE  SignInv'
<1>1. /\ UNCHANGED <<boot, cookie, accounts, password, kept, raced, stayed>>
      /\ CreateSession(b, request[b].account, request[b].password)
  BY DEF SetupSession, LoginSession, ChangeSession
<1>2. request[b].account \in Accounts /\ ~At(b, "change", "written")
  BY DEF SetupSession, LoginSession, ChangeSession, SignInv, RequestsHold, Holds, At
<1> QED BY <1>1, <1>2, CreateStep

(* Deleting the sessions of an account shuts out, and lets nobody in. *)
LEMMA RevokeStep ==
    ASSUME SignInv, NEW b \in Browsers, NEW at \in {"yes", "revoked"},
           request[b].do \in {"logout", "change"}, request[b].account \in Accounts,
           Revoke(request[b].account), Moves(b, at),
           UNCHANGED <<boot, cookie, accounts, password, tokens, late, kept, raced, stayed>>
    PROVE  SignInv'
<1>0. TabsTyped /\ at \in Places
  BY DEF SignInv, Places
<1>1. /\ request' \in [Browsers -> Requests]
      /\ request'[b].at = at /\ request'[b].do = request[b].do
      /\ request'[b].account = request[b].account
      /\ request'[b].token = request[b].token
      /\ \A k \in Browsers : k # b => request'[k] = request[k]
  BY <1>0, OthersStay
<1>2. /\ sessions' \subseteq sessions
      /\ \A s \in sessions' : s.account # request[b].account
  BY DEF Revoke
<1>3. \A k \in Browsers : CookieUsers(k)' \subseteq CookieUsers(k)
  BY <1>2 DEF CookieUsers
<1>4. TabsTyped' /\ TablesTyped'
  BY <1>1, <1>2 DEF SignInv, TabsTyped, TablesTyped
<1>5. RequestsHold' /\ TokensAreGiven'
  BY <1>1, <1>2 DEF SignInv, RequestsHold, Holds, TokensAreGiven
<1>6. NobodyIsNobody'
  BY <1>1, <1>3 DEF SignInv, NobodyIsNobody, At
<1>7. OneSetup'
  BY <1>1 DEF SignInv, OneSetup, At
<1>8. SessionsFollowPassword'
  <2> SUFFICES ASSUME NEW s \in sessions', s.password # password[s.account]
               PROVE  \/ s.token \in late \cup kept
                      \/ \E k \in Browsers :
                           At(k, "change", "written")' /\ request'[k].account = s.account
    BY DEF SessionsFollowPassword
  <2>1. s \in sessions /\ s.account # request[b].account
    BY <1>2
  <2>2. ASSUME s.token \notin late \cup kept
        PROVE  \E k \in Browsers :
                 At(k, "change", "written") /\ request[k].account = s.account
    BY <2>1, <2>2 DEF SignInv, SessionsFollowPassword
  <2> QED BY <1>1, <2>1, <2>2 DEF At
<1>9. SignedOutIsOut'
  BY <1>3 DEF SignInv, SignedOutIsOut
<1> QED BY <1>4, <1>5, <1>6, <1>7, <1>8, <1>9 DEF SignInv

LEMMA RevokingStep ==
    ASSUME SignInv, NEW b \in Browsers, LogoutRevokes(b) \/ ChangeRevokes(b)
    PROVE  SignInv'
<1>1. /\ request[b].do \in {"logout", "change"} /\ Revoke(request[b].account)
      /\ UNCHANGED <<boot, cookie, accounts, password, tokens, late, kept, raced, stayed>>
      /\ Moves(b, "yes") \/ Moves(b, "revoked")
  BY DEF LogoutRevokes, ChangeRevokes, At
<1>2. request[b].account \in Accounts
  BY DEF LogoutRevokes, ChangeRevokes, SignInv, RequestsHold, Holds, At
<1> QED BY <1>1, <1>2, RevokeStep

LEMMA ChangeWrittenStep ==
    ASSUME SignInv, NEW b \in Browsers, ChangeWritten(b)
    PROVE  SignInv'
<1> DEFINE a == request[b].account
           r == [request[b] EXCEPT !.at = "written", !.password = password[a] + 1]
<1>0. /\ UNCHANGED <<boot, cookie, accounts, sessions, tokens, late, kept, raced, stayed>>
      /\ At(b, "change", "checked") /\ TabsTyped
      /\ password' = [password EXCEPT ![a] = @ + 1]
  BY DEF ChangeWritten, SignInv
<1>1. /\ request \in [Browsers -> Requests] /\ request[b] \in Requests
      /\ password \in [Accounts -> Nat]
  BY DEF SignInv, TabsTyped, TablesTyped
<1>a. a \in Accounts
  BY <1>0 DEF SignInv, RequestsHold, Holds, At
<1>2. /\ r \in Requests /\ r.do = "change" /\ r.at = "written" /\ r.account = a
      /\ r.token = request[b].token
  <2>1. password[a] + 1 \in Nat /\ "written" \in Places
    BY <1>1, <1>a DEF Places
  <2>2. r \in Requests
    BY <1>1, <2>1 DEF Requests
  <2>3. request[b].do = "change"
    BY <1>0 DEF At
  <2> QED BY <1>1, <2>2, <2>3 DEF Requests
<1>3. request' = [request EXCEPT ![b] = r]
  BY <1>1 DEF ChangeWritten
<1> HIDE DEF r
<1>4. /\ request' \in [Browsers -> Requests] /\ request'[b] = r
      /\ \A k \in Browsers : k # b => request'[k] = request[k]
  BY <1>1, <1>2, <1>3
<1>5. /\ password' \in [Accounts -> Nat]
      /\ \A x \in Accounts : x # a => password'[x] = password[x]
  BY <1>0, <1>1, <1>a
<1>6. \A k \in Browsers : CookieUsers(k)' = CookieUsers(k)
  BY <1>0 DEF CookieUsers
<1>7. At(b, "change", "written")' /\ request'[b].account = a
  BY <1>2, <1>4 DEF At
<1> HIDE DEF a
<1>8. TabsTyped' /\ TablesTyped'
  BY <1>0, <1>4, <1>5 DEF SignInv, TabsTyped, TablesTyped
<1>9. RequestsHold' /\ TokensAreGiven'
  BY <1>0, <1>2, <1>4, <1>a DEF SignInv, RequestsHold, Holds, TokensAreGiven
<1>10. NobodyIsNobody'
  BY <1>2, <1>4, <1>6 DEF SignInv, NobodyIsNobody, At
<1>11. OneSetup'
  BY <1>0, <1>2, <1>4 DEF SignInv, OneSetup, At
<1>12. SessionsFollowPassword'
  <2> SUFFICES ASSUME NEW s \in sessions, s.password # password'[s.account],
                      s.account # a, s.token \notin late \cup kept
               PROVE  \E k \in Browsers :
                        At(k, "change", "written")' /\ request'[k].account = s.account
    BY <1>0, <1>7 DEF SessionsFollowPassword
  <2>1. s.account \in Accounts
    BY DEF SignInv, TablesTyped
  <2>2. PICK k \in Browsers : At(k, "change", "written") /\ request[k].account = s.account
    BY <1>5, <2>1 DEF SignInv, SessionsFollowPassword
  <2>3. k # b
    BY <1>0, <2>2 DEF At
  <2> QED BY <1>4, <2>2, <2>3 DEF At
<1>13. SignedOutIsOut'
  BY <1>0, <1>6 DEF SignInv, SignedOutIsOut
<1> QED BY <1>8, <1>9, <1>10, <1>11, <1>12, <1>13 DEF SignInv

-----------------------------------------------------------------------------
(* Signing in: the theorem *)

LEMMA SignInit_Inv == Init => SignInv
<1> SUFFICES ASSUME Init PROVE SignInv
  OBVIOUS
<1>1. /\ boot = [b \in Browsers |-> "loading"] /\ cookie = [b \in Browsers |-> 0]
      /\ request = [b \in Browsers |-> Ask("status")]
      /\ accounts \in {{}} \cup {{a} : a \in Accounts}
      /\ password = [a \in Accounts |-> 1]
      /\ sessions = {} /\ tokens = 0 /\ raced = FALSE
  BY DEF Init, SignInInit
<1>2. Ask("status") \in Requests /\ Ask("status").at = "asked" /\ Ask("status").token = 0
      /\ Ask("status").do = "status"
  BY AskedRecord DEF Handlers
<1>3. TabsTyped
  BY <1>1, <1>2 DEF TabsTyped, Boots
<1>4. TablesTyped /\ RequestsHold /\ TokensAreGiven
  <2>1. accounts \subseteq Accounts
    BY <1>1
  <2>2. TablesTyped
    BY <1>1, <2>1 DEF TablesTyped
  <2>3. RequestsHold
    BY <1>1, <1>2 DEF RequestsHold, Holds
  <2> QED BY <1>1, <2>2, <2>3 DEF TokensAreGiven
<1>5. NobodyIsNobody /\ SessionsFollowPassword /\ SignedOutIsOut
  BY <1>1, <1>2 DEF NobodyIsNobody, SessionsFollowPassword, SignedOutIsOut, At
<1>6. OneSetup
  BY <1>1, <1>2 DEF OneSetup, At
<1> QED BY <1>3, <1>4, <1>5, <1>6 DEF SignInv

LEMMA SignNext_Inv ==
    ASSUME SignInv, [Next]_vars
    PROVE  SignInv'
<1>1. CASE SignInNext
  BY <1>1, SignPageStep, BootHandledStep, BootArrivesStep, SetupCheckedStep, SetupInsertedStep,
     SessionStep, LoginCheckedStep, CookieCheckedStep, RevokingStep, ChangeWrittenStep,
     FormArrivesStep, LogoutArrivesStep, RequestLostStep DEF SignInNext
<1>2. CASE UNCHANGED signInVars
  BY <1>2, SignUnchanged
<1> QED BY <1>1, <1>2, SignStepKinds

LEMMA SignInv_Sound == SignInv => SignInIsSound
<1> SUFFICES ASSUME SignInv PROVE SignInIsSound
  OBVIOUS
<1>1. ASSUME ~raced PROVE Cardinality(accounts) \in {0, 1}
  <2>1. CASE accounts = {}
    BY <2>1, FS_EmptySet
  <2>2. CASE \E a \in Accounts : accounts = {a}
    BY <2>2, FS_Singleton
  <2> QED BY <1>1, <2>1, <2>2 DEF SignInv, OneSetup
<1>2. FirstAccountIsOne
  BY <1>1 DEF FirstAccountIsOne
<1> QED BY <1>2 DEF SignInv, SignInIsSound

(* One account comes of the setup form, a session never outlives the        *)
(* password it was made with, and who is shown the sign-in form is signed   *)
(* out, but for the four cases the ghosts name: two setups that both find   *)
(* the table empty, a session made by a handler that had seen the password  *)
(* before, those of a change that failed between its two commits, and a     *)
(* sign-out that was lost.                                                  *)
THEOREM SignInSound == Spec => []SignInIsSound
  BY SignInit_Inv, SignNext_Inv, SignInv_Sound, PTL DEF Spec

=============================================================================
