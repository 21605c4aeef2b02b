---------------------------- MODULE AdminScreen -----------------------------
(***************************************************************************)
(* The server-management page (AdminPage.tsx) against the admin routes.    *)
(* Every handler is an async function whose awaits are steps here, and     *)
(* nothing keeps the administrator from starting the next one meanwhile:   *)
(* a click is a handler in flight, and click 0 is the load on mounting.    *)
(***************************************************************************)
EXTENDS CloudSettings

CONSTANT MaxClicks    \* bound: handlers started on one visit of the page

ASSUME ClicksAssumption == MaxClicks \in Nat

VARIABLES
    open,         \* the page is mounted
    shown,        \* settings: the answer on screen, if any
    shownMode,    \* modeStatus: the answer on screen, if any
    listed,       \* users: the new account is in the table on screen
    error,        \* an error is on screen
    notice,       \* the click whose success the notice tells, or 0
    told,         \* the click whose success nuMessage tells, or 0
    modal,        \* the removal dialog, its word typed
    click,        \* click[k]: the handler started by click k
    archived,     \* server: the meeting of the archive is stored
    member,       \* server: the account of the new-user form exists
    done,         \* ghost: clicks whose operation the server has carried out
    doubt,        \* ghost: since the last load on its own, handlers overlapped,
                  \*        a request was lost or somebody else changed a setting
    patched       \* ghost: the profile was patched since the mode was shown

tables     == <<open, shown, shownMode, listed>>
messages   == <<error, notice, told>>
adminView  == <<tables, messages, modal>>
stores     == <<archived, member>>
adminVars  == <<adminView, click, stores, done, doubt, patched>>

Clicks  == 0 .. MaxClicks
Idle    == [do |-> "none", at |-> "idle", arg |-> "none", up |-> FALSE, got |-> {},
            mode |-> {}, users |-> {}]
Over    == [Idle EXCEPT !.at = "over"]
Loading == [Idle EXCEPT !.do = "load", !.at = "asked"]

InFlight(k) == click[k].at \notin {"idle", "over"}
Alone(k)    == \A j \in Clicks \ {k} : ~InFlight(j)

AdminInit ==
    /\ open = FALSE /\ shown = {} /\ shownMode = {} /\ listed = FALSE
    /\ error = FALSE /\ notice = 0 /\ told = 0 /\ modal = "closed"
    /\ click = [k \in Clicks |-> Idle] /\ archived = TRUE /\ member = FALSE
    /\ done = {} /\ doubt = FALSE /\ patched = FALSE

(* The page mounts and loads; one visit is modelled, of a page that keeps   *)
(* nothing from an earlier one.                                             *)
OpenAdmin ==
    /\ ~open /\ open' = TRUE
    /\ click' = [click EXCEPT ![0] = Loading]
    /\ UNCHANGED <<cloudVars, shown, shownMode, listed, messages, modal, stores,
                   done, doubt, patched>>

-----------------------------------------------------------------------------
(* Clicks *)

(* The page without settings shows nothing to click at. *)
Ready(k) ==
    /\ open /\ shown # {}
    /\ k > 0 /\ click[k] = Idle /\ \A j \in Clicks : j < k => click[j] # Idle

Begin(k, what, arg) ==
    /\ click' = [click EXCEPT ![k] = [Idle EXCEPT !.do = what, !.at = "asked", !.arg = arg]]
    /\ doubt' = (doubt \/ ~Alone(k))
    /\ UNCHANGED <<cloudVars, tables, stores, done, patched>>

ClickProfile(k, p) ==
    /\ Ready(k)
    /\ Begin(k, "profile", p)
    /\ error' = FALSE /\ UNCHANGED <<notice, told, modal>>

(* A credential is saved, or cleared by the button a set one has; the page  *)
(* forgets the input at the click, whatever becomes of the request.         *)
ClickKey(k, key, value) ==
    /\ Ready(k)
    /\ ~value => \E s \in shown : key \in s.keys
    /\ Begin(k, IF value THEN "setKey" ELSE "clearKey", key)
    /\ error' = FALSE /\ UNCHANGED <<notice, told, modal>>

(* «Online» is disabled while the mode on screen says it is not available.  *)
ClickMode(k, m) ==
    /\ Ready(k)
    /\ m = "online" => \E s \in shownMode : s.available
    /\ Begin(k, "mode", m)
    /\ error' = FALSE /\ notice' = 0 /\ UNCHANGED <<told, modal>>

(* backupDisabledReason, of the settings on screen *)
BackupOffered == \E s \in shown : s.profile # "air_gapped" /\ "supabase" \in s.keys

ClickBackup(k) ==
    /\ Ready(k) /\ BackupOffered
    /\ Begin(k, "backup", "none")
    /\ error' = FALSE /\ notice' = 0 /\ UNCHANGED <<told, modal>>

(* createUser *)
ClickUser(k) ==
    /\ Ready(k)
    /\ Begin(k, "user", "none")
    /\ told' = 0 /\ UNCHANGED <<error, notice, modal>>

(* The removal dialog is opened and the word its button wants typed, or it  *)
(* is closed again.                                                         *)
Dialog ==
    /\ open /\ shown # {}
    /\ modal' = IF modal = "closed" THEN "typed" ELSE "closed"
    /\ UNCHANGED <<cloudVars, tables, messages, click, stores, done, doubt, patched>>

ClickRemove(k) ==
    /\ Ready(k) /\ modal = "typed"
    /\ modal' = "closed"
    /\ Begin(k, "remove", "none")
    /\ error' = FALSE /\ UNCHANGED <<notice, told>>

(* mutationCounter: the assistant has carried out a confirmed skill.        *)
Reload(k) ==
    /\ Ready(k)
    /\ click' = [click EXCEPT ![k] = Loading]
    /\ doubt' = ~Alone(k)
    /\ UNCHANGED <<cloudVars, adminView, stores, done, patched>>

-----------------------------------------------------------------------------
(* The server *)

Refused(k) ==
    /\ click' = [click EXCEPT ![k].at = "refused"]
    /\ UNCHANGED <<cloudVars, stores, done>>

CarriedOut(k) ==
    /\ click' = [click EXCEPT ![k].at = "answered"]
    /\ done' = done \cup {k}
    /\ UNCHANGED cloudVars

(* Of the requests of loadAll, the settings, the users and the mode, in any *)
(* order                                                                    *)
LoadHandled(k) ==
    /\ click[k].do = "load" /\ click[k].at = "asked"
    /\ \/ /\ click[k].got = {}
          /\ click' = [click EXCEPT ![k].got = {SettingsOut}]
       \/ /\ click[k].users = {}
          /\ click' = [click EXCEPT ![k].users = {member}]
       \/ /\ click[k].mode = {}
          /\ \E up \in BOOLEAN :
               click' = [click EXCEPT ![k].mode = {ModeStatus(up)}]
    /\ UNCHANGED <<cloudVars, adminView, stores, done, doubt, patched>>

(* PUT /settings answers with the settings as they are now.                 *)
PatchHandled(k) ==
    /\ click[k].at = "asked"
    /\ \/ click[k].do = "profile" /\ SetProfile(click[k].arg)
       \/ click[k].do = "setKey" /\ SetKey(click[k].arg, TRUE)
       \/ click[k].do = "clearKey" /\ SetKey(click[k].arg, FALSE)
    /\ click' = [click EXCEPT ![k].at = "answered", ![k].got = {SettingsOut'}]
    /\ done' = done \cup {k}
    /\ UNCHANGED <<switching, others, adminView, stores, doubt, patched>>

(* PUT /mode is refused, or checked, *)
ModeChecked(k) ==
    /\ click[k].do = "mode" /\ click[k].at = "asked"
    /\ \E up \in BOOLEAN :
         click' = [click EXCEPT ![k].at = IF SwitchAllowed(click[k].arg, up)
                                         THEN "checked" ELSE "refused",
                               ![k].up = up]
    /\ UNCHANGED <<cloudVars, adminView, stores, done, doubt, patched>>

(* then carried out and answered with a new probe. *)
ModeHandled(k) ==
    /\ click[k].do = "mode" /\ click[k].at = "checked"
    /\ SetMode(click[k].arg, click[k].up)
    /\ \E later \in BOOLEAN :
         click' = [click EXCEPT ![k].at = "answered", ![k].mode = {ModeStatus(later)'}]
    /\ done' = done \cup {k}
    /\ UNCHANGED <<switching, others, stores, adminView, doubt, patched>>

(* trigger_backup has its own refusals, *)
BackupHandled(k) ==
    /\ click[k].do = "backup" /\ click[k].at = "asked"
    /\ IF profile = "air_gapped" \/ "supabase" \notin keys
       THEN Refused(k)
       ELSE CarriedOut(k) /\ UNCHANGED stores
    /\ UNCHANGED <<adminView, doubt, patched>>

(* remove_meeting refuses a meeting that is gone, or being recorded for all *)
(* this page knows,                                                         *)
RemoveHandled(k) ==
    /\ click[k].do = "remove" /\ click[k].at = "asked"
    /\ \/ Refused(k)
       \/ archived /\ CarriedOut(k) /\ archived' = FALSE /\ UNCHANGED member
    /\ UNCHANGED <<adminView, doubt, patched>>

(* and create_user a name that is taken. *)
UserHandled(k) ==
    /\ click[k].do = "user" /\ click[k].at = "asked"
    /\ IF member
       THEN Refused(k)
       ELSE CarriedOut(k) /\ member' = TRUE /\ UNCHANGED archived
    /\ UNCHANGED <<adminView, doubt, patched>>

(* switchMode fetches the settings afterwards, createUser the users. *)
RefetchHandled(k) ==
    /\ click[k].at = "refetch"
    /\ click' = [click EXCEPT ![k].at = "refetched", ![k].got = {SettingsOut},
                              ![k].users = {member}]
    /\ UNCHANGED <<cloudVars, adminView, stores, done, doubt, patched>>

-----------------------------------------------------------------------------
(* The answers at the page *)

LoadArrives(k) ==
    /\ click[k].do = "load"
    /\ click[k].got # {} /\ click[k].mode # {} /\ click[k].users # {}
    /\ shown' = click[k].got /\ shownMode' = click[k].mode
    /\ listed' = (TRUE \in click[k].users)
    /\ patched' = FALSE
    /\ click' = [click EXCEPT ![k] = Over]
    /\ UNCHANGED <<cloudVars, open, messages, modal, stores, done, doubt>>

PatchArrives_Unshown(k) ==
    /\ click[k].do \in {"profile", "setKey", "clearKey"} /\ click[k].at = "answered"
    /\ patched' = (patched \/ click[k].do = "profile")
    /\ click' = [click EXCEPT ![k] = Over]
    /\ UNCHANGED <<cloudVars, tables, messages, modal, stores, done, doubt>>

(* patchSettings shows the settings; the mode on screen stays. *)
PatchArrives(k) ==
    /\ click[k].do \in {"profile", "setKey", "clearKey"} /\ click[k].at = "answered"
    /\ shown' = click[k].got
    /\ patched' = (patched \/ click[k].do = "profile")
    /\ click' = [click EXCEPT ![k] = Over]
    /\ UNCHANGED <<cloudVars, open, shownMode, listed, messages, modal, stores, done, doubt>>

ModeArrives(k) ==
    /\ click[k].do = "mode" /\ click[k].at = "answered"
    /\ shownMode' = click[k].mode /\ patched' = FALSE
    /\ click' = [click EXCEPT ![k].at = "refetch"]
    /\ UNCHANGED <<cloudVars, open, shown, listed, messages, modal, stores, done, doubt>>

UserArrives(k) ==
    /\ click[k].do = "user" /\ click[k].at = "answered"
    /\ click' = [click EXCEPT ![k].at = "refetch"]
    /\ UNCHANGED <<cloudVars, adminView, stores, done, doubt, patched>>

RefetchArrives(k) ==
    /\ click[k].at = "refetched"
    /\ IF click[k].do = "mode"
       THEN shown' = click[k].got /\ notice' = k /\ UNCHANGED <<listed, told>>
       ELSE listed' = (TRUE \in click[k].users) /\ told' = k /\ UNCHANGED <<shown, notice>>
    /\ click' = [click EXCEPT ![k] = Over]
    /\ UNCHANGED <<cloudVars, open, shownMode, error, modal, stores, done, doubt, patched>>

BackupArrives(k) ==
    /\ click[k].do = "backup" /\ click[k].at = "answered"
    /\ notice' = k
    /\ click' = [click EXCEPT ![k] = Over]
    /\ UNCHANGED <<cloudVars, tables, error, told, modal, stores, done, doubt, patched>>

(* removeMeeting goes on with loadAll. *)
RemoveArrives(k) ==
    /\ click[k].do = "remove" /\ click[k].at = "answered"
    /\ notice' = k
    /\ click' = [click EXCEPT ![k] = Loading]
    /\ UNCHANGED <<cloudVars, tables, error, told, modal, stores, done, doubt, patched>>

(* The catch blocks: refused, or lost before or after the server acted.     *)
(* The new-user form has an error text of its own in place of nuMessage.    *)
ClickFails(k) ==
    /\ InFlight(k)
    /\ IF click[k].do = "user" THEN told' = 0 /\ UNCHANGED error
                               ELSE error' = TRUE /\ UNCHANGED told
    /\ doubt' = (doubt \/ click[k].at # "refused")
    /\ click' = [click EXCEPT ![k] = Over]
    /\ UNCHANGED <<cloudVars, tables, notice, modal, stores, done, patched>>

-----------------------------------------------------------------------------
AdminNext ==
    \/ OpenAdmin \/ Dialog
    \/ \E k \in Clicks :
         \/ \E p \in Profiles : ClickProfile(k, p)
         \/ \E key \in Keys, value \in BOOLEAN : ClickKey(k, key, value)
         \/ \E m \in Modes : ClickMode(k, m)
         \/ ClickBackup(k) \/ ClickUser(k) \/ ClickRemove(k) \/ Reload(k)
         \/ LoadHandled(k) \/ PatchHandled(k) \/ ModeChecked(k) \/ ModeHandled(k)
         \/ BackupHandled(k) \/ RemoveHandled(k) \/ UserHandled(k) \/ RefetchHandled(k)
         \/ LoadArrives(k) \/ PatchArrives(k) \/ ModeArrives(k) \/ UserArrives(k)
         \/ RefetchArrives(k) \/ BackupArrives(k) \/ RemoveArrives(k)
         \/ ClickFails(k)

AdminTypeOK ==
    /\ open \in BOOLEAN /\ listed \in BOOLEAN
    /\ error \in BOOLEAN /\ notice \in Clicks /\ told \in Clicks
    /\ shown \subseteq [profile : Profiles, keys : SUBSET Keys]
    /\ shownMode \subseteq [mode : Modes, available : BOOLEAN]
    /\ modal \in {"closed", "typed"}
    /\ \A k \in Clicks :
         click[k].at \in {"idle", "asked", "checked", "answered", "refused", "refetch",
                         "refetched", "over"}
    /\ archived \in BOOLEAN /\ member \in BOOLEAN /\ done \subseteq Clicks
    /\ doubt \in BOOLEAN /\ patched \in BOOLEAN

(* What the page tells: a message of success is only of an operation that   *)
(* the server has carried out, whatever handlers overlap or fail, and a     *)
(* page at rest that nothing came between shows the settings and the users  *)
(* of the server, with the one exception that a patch of the profile leaves *)
(* the old mode on screen.                                                  *)
NoticeIsTrue == {notice, told} \ {0} \subseteq done

ShownIsServer ==
    (open /\ shown # {} /\ ~doubt /\ \A k \in Clicks : ~InFlight(k)) =>
        /\ shown = {SettingsOut} /\ listed = member
        /\ \A s \in shownMode : s.mode = ServerMode \/ patched

AdminIsTruthful == NoticeIsTrue /\ ShownIsServer

=============================================================================
