--------------------------- MODULE CloudSettings ----------------------------
(***************************************************************************)
(* The server's cloud settings: the connectivity profile, the offline or   *)
(* online switch and the credentials (platform_ops.py, connectivity.py,    *)
(* api/admin.py, api/system.py), with the operations that change them.     *)
(* ConsentForm and AdminScreen are two screens that work with them.        *)
(***************************************************************************)
EXTENDS Naturals

CONSTANTS
    Keys,        \* the credentials that can be configured
    FirstKeys,   \* the credentials set at the start
    MaxOthers    \* bound: changes made elsewhere

ASSUME OthersAssumption == FirstKeys \subseteq Keys /\ MaxOthers \in Nat

VARIABLES
    profile,     \* the connectivity profile
    mode,        \* the stored server_mode
    keys,        \* the credentials that are set
    switching,   \* switches of the mode elsewhere between their check and their write
    reachable,   \* ghost: the last switch to online followed a good probe
    reopened,    \* ghost: an air-gapped server with a stored "online" was reopened
    others       \* changes made elsewhere so far

settingVars == <<profile, mode, keys, reachable, reopened>>
cloudVars   == <<settingVars, switching, others>>

Profiles == {"auto", "air_gapped"}
Modes    == {"offline", "online"}

(* get_server_mode: the air-gapped profile hides the stored mode, no more.  *)
ServerMode == IF profile = "air_gapped" THEN "offline" ELSE mode
Online     == ServerMode = "online"

(* What the admin routes answer; up is what a probe of the internet says,   *)
(* which an air-gapped server never makes.                                  *)
SettingsOut    == [profile |-> profile, keys |-> keys]
ModeStatus(up) == [mode |-> ServerMode, available |-> up /\ profile # "air_gapped"]

(* cloud_readiness, the reasons that close the consent box told apart *)
Readiness ==
    IF profile = "air_gapped" THEN "air_gapped"
    ELSE IF ~Online THEN "offline_mode" ELSE "usable"

CloudInit ==
    /\ profile \in Profiles /\ mode = "offline" /\ keys = FirstKeys
    /\ switching = {} /\ reachable = FALSE /\ reopened = FALSE /\ others = 0

(* apply_settings: the profile; the stored mode stays as it is. *)
SetProfile(p) ==
    /\ profile' = p
    /\ reopened' = (p = "auto" /\ (reopened \/ (profile = "air_gapped" /\ mode = "online")))
    /\ UNCHANGED <<mode, keys, reachable>>

(* apply_settings: a credential is set, or cleared by an empty value.       *)
SetKey(k, value) ==
    /\ keys' = IF value THEN keys \cup {k} ELSE keys \ {k}
    /\ UNCHANGED <<profile, mode, reachable, reopened>>

SwitchAllowed_Unprobed(m, up) == profile # "air_gapped"

(* _check_mode_switch: up is what the probe says, which takes a while.      *)
SwitchAllowed(m, up) == profile # "air_gapped" /\ (m = "online" => up)

(* The mode is written some time after its check, whatever the profile and  *)
(* the stored mode are by then.                                             *)
SetMode(m, up) ==
    /\ mode' = m
    /\ reachable' = (m = "online" /\ up)
    /\ reopened' = FALSE
    /\ UNCHANGED <<profile, keys>>

(* Another administrator, or the assistant for one, changes a setting, *)
SettingElsewhere ==
    /\ others < MaxOthers /\ others' = others + 1
    /\ \/ \E p \in Profiles : SetProfile(p)
       \/ \E k \in Keys, value \in BOOLEAN : SetKey(k, value)
    /\ UNCHANGED switching

(* or switches the mode. *)
SwitchElsewhere ==
    /\ others < MaxOthers /\ others' = others + 1
    /\ switching = {}
    /\ \E m \in Modes, up \in BOOLEAN :
         SwitchAllowed(m, up) /\ switching' = {[mode |-> m, up |-> up]}
    /\ UNCHANGED settingVars

SwitchedElsewhere ==
    /\ \E s \in switching : SetMode(s.mode, s.up)
    /\ switching' = {}
    /\ UNCHANGED others

ChangedElsewhere == SettingElsewhere \/ SwitchElsewhere \/ SwitchedElsewhere

CloudTypeOK ==
    /\ profile \in Profiles /\ mode \in Modes /\ keys \subseteq Keys
    /\ reachable \in BOOLEAN /\ reopened \in BOOLEAN
    /\ switching \subseteq [mode : Modes, up : BOOLEAN] /\ others \in 0 .. MaxOthers

(* Whoever switches what: a server that works online was found reachable by *)
(* the switch that put it online, unless it was isolated and opened again,  *)
(* which takes up the mode of before without a probe.                       *)
OnlineWasProbed == Online => reachable \/ reopened

=============================================================================
