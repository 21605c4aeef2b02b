------------------------------- MODULE SignIn --------------------------------
(***************************************************************************)
(* Signing in and out: the boot of the application (AppContext.tsx,        *)
(* App.tsx), the first-account, sign-in and password forms (SetupPage,     *)
(* LoginPage, SettingsPage) and the routes behind them (api/auth.py).      *)
(* A route runs on a thread of its own and is several statements, so the   *)
(* handlers of two browsers interleave between any two of them, and fail   *)
(* there.                                                                  *)
(***************************************************************************)
EXTENDS Naturals, FiniteSets

CONSTANTS
    Browsers,       \* each with one tab and its cookie
    Accounts,       \* user names
    NoAccount,
    MaxTokens,      \* bound: sessions ever made
    MaxPasswords,   \* bound: passwords an account ever has
    MaxBroken       \* bound: requests and answers that are lost, handlers that fail

ASSUME SignInAssumption ==
    /\ NoAccount \notin Accounts
    /\ MaxTokens \in Nat /\ MaxPasswords \in Nat \ {0} /\ MaxBroken \in Nat

VARIABLES
    boot,        \* boot[b]: what App.tsx renders
    who,         \* who[b]: user of the application
    cookie,      \* cookie[b]: token of the session cookie, or 0
    request,     \* request[b]: the request of the page, and its handler
    accounts,    \* server: users, of whom those made by setup administer
    password,    \* server: password[a], in the order of the changes
    sessions,    \* server: auth_sessions, each with the password it was made with
    tokens,      \* tokens given so far
    broken,      \* requests and answers lost and handlers failed so far
    late,        \* ghost: sessions made when their password was no longer current
    kept,        \* ghost: sessions left by a change that failed before its DELETE
    raced,       \* ghost: two setups have both found an empty table
    stayed       \* ghost: browsers whose sign-out was lost

signInVars ==
    <<boot, who, cookie, request, accounts, password, sessions, tokens, broken,
      late, kept, raced, stayed>>

Boots     == {"loading", "needs_setup", "login", "ready", "offline"}
Handlers  == {"none", "status", "me", "login", "setup", "logout", "change"}
Places    == {"asked", "checked", "written", "revoked", "yes", "no"}
Passwords == 1 .. MaxPasswords

Quiet == [do |-> "none", at |-> "no", account |-> NoAccount, password |-> 0, token |-> 0]
Ask(what) == [Quiet EXCEPT !.do = what, !.at = "asked"]

IsQuiet(b)      == request[b].do = "none"
At(b, what, at) == request[b].do = what /\ request[b].at = at
Moves(b, at)    == request' = [request EXCEPT ![b].at = at]

(* _user_for_token: whose session the cookie of b names *)
CookieUsers(b) == {s.account : s \in {t \in sessions : t.token = cookie[b]}}

(* _create_session, with the password the handler has seen or set *)
CreateSession(b, a, seen) ==
    /\ tokens < MaxTokens /\ tokens' = tokens + 1
    /\ sessions' = sessions \cup {[token |-> tokens', account |-> a, password |-> seen]}
    /\ late' = IF password[a] = seen THEN late ELSE late \cup {tokens'}
    /\ request' = [request EXCEPT ![b].at = "yes", ![b].token = tokens',
                                  ![b].account = a]

SignInInit ==
    /\ boot = [b \in Browsers |-> "loading"]
    /\ who = [b \in Browsers |-> NoAccount]
    /\ cookie = [b \in Browsers |-> 0]
    /\ request = [b \in Browsers |-> Ask("status")]
    /\ accounts \in {{}} \cup {{a} : a \in Accounts}
    /\ password = [a \in Accounts |-> 1]
    /\ sessions = {} /\ tokens = 0 /\ broken = 0
    /\ late = {} /\ kept = {} /\ raced = FALSE /\ stayed = {}

-----------------------------------------------------------------------------
(* Boot: is there an account, and whose cookie is this? *)

ReloadTab(b) ==
    /\ IsQuiet(b) /\ boot[b] # "loading"
    /\ boot' = [boot EXCEPT ![b] = "loading"]
    /\ who' = [who EXCEPT ![b] = NoAccount]
    /\ request' = [request EXCEPT ![b] = Ask("status")]
    /\ UNCHANGED <<cookie, accounts, password, sessions, tokens, broken, late, kept, raced, stayed>>

BootHandled(b) ==
    /\ \/ /\ At(b, "status", "asked")
          /\ Moves(b, IF accounts = {} THEN "no" ELSE "yes")
       \/ /\ At(b, "me", "asked") /\ CookieUsers(b) = {}
          /\ Moves(b, "no")
       \/ /\ At(b, "me", "asked")
          /\ \E a \in CookieUsers(b) :
               request' = [request EXCEPT ![b].at = "yes", ![b].account = a]
    /\ UNCHANGED <<boot, who, cookie, accounts, password, sessions, tokens, broken,
                   late, kept, raced, stayed>>

BootArrives(b) ==
    /\ \/ /\ At(b, "status", "yes")
          /\ request' = [request EXCEPT ![b] = Ask("me")]
          /\ UNCHANGED <<boot, who>>
       \/ /\ At(b, "status", "no") \/ At(b, "me", "no") \/ At(b, "me", "yes")
          /\ boot' = [boot EXCEPT ![b] =
                        IF request[b].do = "status" THEN "needs_setup"
                        ELSE IF request[b].at = "yes" THEN "ready" ELSE "login"]
          /\ who' = [who EXCEPT ![b] = request[b].account]
          /\ request' = [request EXCEPT ![b] = Quiet]
    /\ UNCHANGED <<cookie, accounts, password, sessions, tokens, broken, late, kept, raced, stayed>>

-----------------------------------------------------------------------------
(* The forms *)

(* The setup form asks for an account; the password of setup is the first.  *)
ClickSetup(b, a) ==
    /\ IsQuiet(b) /\ boot[b] = "needs_setup"
    /\ request' = [request EXCEPT ![b] = [Ask("setup") EXCEPT !.account = a,
                                                              !.password = 1]]
    /\ UNCHANGED <<boot, who, cookie, accounts, password, sessions, tokens, broken,
                   late, kept, raced, stayed>>

(* Somebody types the password he knows, which need not be the current one. *)
ClickLogin(b, a, p) ==
    /\ IsQuiet(b) /\ boot[b] = "login"
    /\ request' = [request EXCEPT ![b] = [Ask("login") EXCEPT !.account = a,
                                                              !.password = p]]
    /\ UNCHANGED <<boot, who, cookie, accounts, password, sessions, tokens, broken,
                   late, kept, raced, stayed>>

ClickLogout(b) ==
    /\ IsQuiet(b) /\ boot[b] = "ready"
    /\ request' = [request EXCEPT ![b] = Ask("logout")]
    /\ UNCHANGED <<boot, who, cookie, accounts, password, sessions, tokens, broken,
                   late, kept, raced, stayed>>

ClickChange(b, p) ==
    /\ IsQuiet(b) /\ boot[b] = "ready"
    /\ request' = [request EXCEPT ![b] = [Ask("change") EXCEPT !.password = p]]
    /\ UNCHANGED <<boot, who, cookie, accounts, password, sessions, tokens, broken,
                   late, kept, raced, stayed>>

-----------------------------------------------------------------------------
(* The routes, statement by statement *)

SetupChecked(b) ==
    /\ At(b, "setup", "asked")
    /\ Moves(b, IF accounts = {} THEN "checked" ELSE "no")
    /\ raced' = (raced \/ (accounts = {} /\ \E k \in Browsers : At(k, "setup", "checked")))
    /\ UNCHANGED <<boot, who, cookie, accounts, password, sessions, tokens, broken,
                   late, kept, stayed>>

(* A name that has been taken meanwhile is refused by the table.            *)
SetupInserted(b) ==
    /\ At(b, "setup", "checked")
    /\ LET a == request[b].account
       IN /\ Moves(b, IF a \in accounts THEN "no" ELSE "written")
          /\ accounts' = accounts \cup {a}
    /\ UNCHANGED <<boot, who, cookie, password, sessions, tokens, broken, late, kept, raced, stayed>>

SetupSession(b) ==
    /\ At(b, "setup", "written")
    /\ CreateSession(b, request[b].account, request[b].password)
    /\ UNCHANGED <<boot, who, cookie, accounts, password, broken, kept, raced, stayed>>

LoginChecked(b) ==
    /\ At(b, "login", "asked")
    /\ LET a == request[b].account
       IN Moves(b, IF a \in accounts /\ password[a] = request[b].password
                   THEN "checked" ELSE "no")
    /\ UNCHANGED <<boot, who, cookie, accounts, password, sessions, tokens, broken,
                   late, kept, raced, stayed>>

LoginSession(b) ==
    /\ At(b, "login", "checked")
    /\ CreateSession(b, request[b].account, request[b].password)
    /\ UNCHANGED <<boot, who, cookie, accounts, password, broken, kept, raced, stayed>>

(* logout and change_password first ask whose the cookie is. *)
CookieChecked(b) ==
    /\ At(b, "logout", "asked") \/ At(b, "change", "asked")
    /\ IF \E a \in CookieUsers(b) :
            request[b].do = "change" => password[a] = request[b].password
       THEN \E a \in CookieUsers(b) :
              request' = [request EXCEPT ![b].at = "checked", ![b].account = a]
       ELSE Moves(b, "no")
    /\ UNCHANGED <<boot, who, cookie, accounts, password, sessions, tokens, broken,
                   late, kept, raced, stayed>>

(* The sessions of an account are deleted, on every device. *)
Revoke(a) == sessions' = {s \in sessions : s.account # a}

LogoutRevokes(b) ==
    /\ At(b, "logout", "checked")
    /\ Revoke(request[b].account)
    /\ Moves(b, "yes")
    /\ UNCHANGED <<boot, who, cookie, accounts, password, tokens, broken, late, kept, raced, stayed>>

ChangeWritten(b) ==
    /\ At(b, "change", "checked")
    /\ LET a == request[b].account
       IN /\ password[a] < MaxPasswords
          /\ password' = [password EXCEPT ![a] = @ + 1]
          /\ request' = [request EXCEPT ![b].at = "written",
                                        ![b].password = password[a] + 1]
    /\ UNCHANGED <<boot, who, cookie, accounts, sessions, tokens, broken, late, kept, raced, stayed>>

ChangeRevokes_Nothing(b) ==
    /\ At(b, "change", "written")
    /\ Moves(b, "revoked")
    /\ UNCHANGED <<boot, who, cookie, accounts, password, sessions, tokens, broken,
                   late, kept, raced, stayed>>

ChangeRevokes(b) ==
    /\ At(b, "change", "written")
    /\ Revoke(request[b].account)
    /\ Moves(b, "revoked")
    /\ UNCHANGED <<boot, who, cookie, accounts, password, tokens, broken, late, kept, raced, stayed>>

ChangeSession(b) ==
    /\ At(b, "change", "revoked")
    /\ CreateSession(b, request[b].account, request[b].password)
    /\ UNCHANGED <<boot, who, cookie, accounts, password, broken, kept, raced, stayed>>

-----------------------------------------------------------------------------
(* The answers.  A refusal leaves a form with an error and the application  *)
(* where it was, except that logout signs out whatever the answer.          *)

FormArrives(b) ==
    /\ request[b].do \in {"setup", "login", "change"} /\ request[b].at \in {"yes", "no"}
    /\ IF request[b].at = "yes"
       THEN /\ cookie' = [cookie EXCEPT ![b] = request[b].token]
            /\ boot' = [boot EXCEPT ![b] = "ready"]
            /\ who' = [who EXCEPT ![b] = IF request[b].do = "change" THEN @
                                         ELSE request[b].account]
       ELSE UNCHANGED <<cookie, boot, who>>
    /\ request' = [request EXCEPT ![b] = Quiet]
    /\ UNCHANGED <<accounts, password, sessions, tokens, broken, late, kept, raced, stayed>>

SignedOut(b) ==
    /\ boot' = [boot EXCEPT ![b] = "login"]
    /\ who' = [who EXCEPT ![b] = NoAccount]

LogoutArrives(b) ==
    /\ At(b, "logout", "yes") \/ At(b, "logout", "no")
    /\ cookie' = [cookie EXCEPT ![b] = IF request[b].at = "yes" THEN 0 ELSE @]
    /\ SignedOut(b)
    /\ request' = [request EXCEPT ![b] = Quiet]
    /\ UNCHANGED <<accounts, password, sessions, tokens, broken, late, kept, raced, stayed>>

(* A request is lost, its handler fails between two statements, as all do in*)
(* a crash, or the answer is lost; the tables stay as they are then.        *)
RequestLost(b) ==
    /\ ~IsQuiet(b)
    /\ broken < MaxBroken /\ broken' = broken + 1
    /\ \/ /\ request[b].do \in {"status", "me"}
          /\ boot' = [boot EXCEPT ![b] = "offline"]
          /\ UNCHANGED <<who, stayed>>
       \/ /\ request[b].do = "logout"
          /\ SignedOut(b)
          /\ stayed' = stayed \cup {b}
       \/ /\ request[b].do \in {"setup", "login", "change"}
          /\ UNCHANGED <<boot, who, stayed>>
    /\ kept' = IF At(b, "change", "written")
               THEN kept \cup {s.token : s \in {t \in sessions : t.account = request[b].account}}
               ELSE kept
    /\ request' = [request EXCEPT ![b] = Quiet]
    /\ UNCHANGED <<cookie, accounts, password, sessions, tokens, late, raced>>

SignInNext ==
    \E b \in Browsers :
        \/ ReloadTab(b) \/ BootHandled(b) \/ BootArrives(b)
        \/ \E a \in Accounts : ClickSetup(b, a) \/ \E p \in Passwords : ClickLogin(b, a, p)
        \/ ClickLogout(b) \/ \E p \in Passwords : ClickChange(b, p)
        \/ SetupChecked(b) \/ SetupInserted(b) \/ SetupSession(b)
        \/ LoginChecked(b) \/ LoginSession(b)
        \/ CookieChecked(b) \/ LogoutRevokes(b)
        \/ ChangeWritten(b) \/ ChangeRevokes(b) \/ ChangeSession(b)
        \/ FormArrives(b) \/ LogoutArrives(b) \/ RequestLost(b)

-----------------------------------------------------------------------------
SignInTypeOK ==
    /\ boot \in [Browsers -> Boots] /\ who \in [Browsers -> Accounts \cup {NoAccount}]
    /\ cookie \in [Browsers -> 0 .. MaxTokens]
    /\ request \in [Browsers -> [do : Handlers, at : Places,
                                 account : Accounts \cup {NoAccount},
                                 password : 0 .. MaxPasswords, token : 0 .. MaxTokens]]
    /\ accounts \subseteq Accounts /\ password \in [Accounts -> Passwords]
    /\ sessions \subseteq [token : 1 .. MaxTokens, account : Accounts, password : Passwords]
    /\ tokens \in 0 .. MaxTokens /\ broken \in 0 .. MaxBroken
    /\ late \subseteq 1 .. MaxTokens /\ kept \subseteq 1 .. MaxTokens
    /\ raced \in BOOLEAN /\ stayed \subseteq Browsers

(* One account, the administrator's, comes of the setup form, unless two    *)
(* setups have both found the table empty.                                  *)
FirstAccountIsOne == Cardinality(accounts) > 1 => raced

(* A change of the password ends every session made with an earlier one, on *)
(* all devices, from the moment its handler has deleted them; such a session*)
(* can only survive if it was made after the deletion by a handler that had *)
(* seen the old password before, or if the handler of the change failed     *)
(* between its two commits: «revokes every existing session» of auth.py:118 *)
(* does not hold then.                                                      *)
SessionsFollowPassword ==
    \A s \in sessions :
        s.password # password[s.account] =>
            \/ s.token \in late \cup kept
            \/ \E b \in Browsers : At(b, "change", "written")
                                   /\ request[b].account = s.account

(* At the sign-in form no session is left behind that a reload would take   *)
(* up, unless the request to sign out was lost.                             *)
SignedOutIsOut ==
    \A b \in Browsers : (boot[b] = "login" /\ CookieUsers(b) # {}) => b \in stayed

SignInIsSound == FirstAccountIsOne /\ SessionsFollowPassword /\ SignedOutIsOut

=============================================================================
