------------------------------- MODULE Screens -------------------------------
(***************************************************************************)
(* Screens of the web UI against the server: sign-in, the setup form of    *)
(* the dashboard, the server-management page, the page of one meeting, the *)
(* documents, the search, the follow-up of tasks, and the desk beside a    *)
(* recording.                                                              *)
(* The router mounts one page at a time (App.tsx) and the state of a page  *)
(* goes with it, so a tab is at one of them and stays there; what other    *)
(* tabs and other users do to the settings meanwhile is ChangedElsewhere.  *)
(***************************************************************************)
EXTENDS ConsentForm, AdminScreen, MeetingScreen, SignIn, Documents,
        SearchScreen, TaskScreen, RecordingDesk

CONSTANT MaxBeside    \* bound: changes made elsewhere beside the management page

ASSUME BesideAssumption == MaxBeside \in Nat

VARIABLE route    \* the page the tab is at

workVars == <<docVars, searchVars, taskVars, deskVars>>
vars == <<route, cloudVars, consentVars, adminVars, meetingVars, signInVars, workVars>>

Routes == {"signin", "dashboard", "admin", "meeting", "documents", "search", "actions",
           "recording"}

(* Only two pages have to do with the settings of the cloud, one with who   *)
(* the accounts are, one with what documents there are, one with a search.  *)
FirstAccount == CHOOSE a \in Accounts : TRUE
FirstPhrase  == CHOOSE p \in Phrases : TRUE

Init ==
    /\ route \in Routes
    /\ CloudInit /\ ConsentInit /\ AdminInit /\ PageClosed /\ SignInInit
    /\ DocumentsInit /\ SearchInit /\ TasksInit /\ DeskInit
    /\ route \notin {"dashboard", "admin"} => profile = "auto"
    /\ route # "signin" => accounts = {FirstAccount}
    /\ route # "documents" => chunks = {}
    /\ route # "search" => urlQuery = NoQuery
    /\ micName = FirstPhrase

AtDashboard ==
    /\ route = "dashboard" /\ ConsentNext
    /\ UNCHANGED <<route, adminVars, meetingVars, signInVars, workVars>>

AtAdmin ==
    /\ route = "admin" /\ AdminNext
    /\ UNCHANGED <<route, consentVars, meetingVars, signInVars, workVars>>

AtMeeting(Action) ==
    /\ route = "meeting" /\ Action
    /\ UNCHANGED <<route, cloudVars, consentVars, adminVars, signInVars, workVars>>

AtSignIn ==
    /\ route = "signin" /\ SignInNext
    /\ UNCHANGED <<route, cloudVars, consentVars, adminVars, meetingVars, workVars>>

otherVars == <<route, cloudVars, consentVars, adminVars, meetingVars, signInVars>>

AtDocuments(Action) ==
    /\ route = "documents" /\ Action
    /\ UNCHANGED <<otherVars, searchVars, taskVars, deskVars>>

AtSearch ==
    /\ route = "search" /\ SearchNext
    /\ UNCHANGED <<otherVars, docVars, taskVars, deskVars>>

AtTasks ==
    /\ route = "actions" /\ TasksNext
    /\ UNCHANGED <<otherVars, docVars, searchVars, deskVars>>

AtRecording ==
    /\ route = "recording" /\ DeskNext
    /\ UNCHANGED <<otherVars, docVars, searchVars, taskVars>>

Elsewhere ==
    /\ route \in {"dashboard", "admin"} /\ ChangedElsewhere
    /\ route = "admin" => others' <= MaxBeside
    /\ doubt' = (doubt \/ open)
    /\ UNCHANGED <<route, consentVars, adminView, click, stores, done, patched, meetingVars,
                   signInVars, workVars>>

Next ==
    \/ AtSignIn \/ AtDashboard \/ AtAdmin \/ AtMeeting(MeetingNext) \/ Elsewhere
    \/ AtDocuments(DocumentsNext) \/ AtSearch \/ AtTasks \/ AtRecording

(* The interval ticks, requests are handled and their answers shown: timers *)
(* and a server that is up, whose handlers go on to their next statement    *)
(* and whose worker runs what is queued.  Nothing else has to happen:       *)
(* neither clicks nor the quality pass, and a request may fail instead.     *)
Fairness ==
    /\ WF_vars(AtMeeting(Tick))
    /\ WF_vars(AtMeeting(LoadMoves)) /\ WF_vars(AtMeeting(LoadEnds))
    /\ WF_vars(AtMeeting(PollMoves)) /\ WF_vars(AtMeeting(PollEnds))
    /\ WF_vars(AtDocuments(UploadMoves)) /\ WF_vars(AtDocuments(IndexMoves))

Spec == Init /\ [][Next]_vars /\ Fairness

TypeOK ==
    /\ route \in Routes
    /\ CloudTypeOK /\ ConsentTypeOK /\ AdminTypeOK /\ MeetingTypeOK /\ SignInTypeOK
    /\ DocumentsTypeOK /\ SearchTypeOK /\ TasksTypeOK /\ DeskTypeOK

(* What the cloud gets: a server online was probed, and every upload of     *)
(* audio is covered by the consent, its row and the mode.                   *)
CloudIsCovered == OnlineWasProbed /\ UploadsAreCovered

(* What a page at rest tells is so, and what its buttons act on is what it  *)
(* shows, unless requests overlapped, failed, or somebody else came         *)
(* between: the ghosts of each page name just what excuses it.              *)
PagesAreTruthful ==
    /\ AdminIsTruthful /\ ShownIsRouted /\ DocumentsAreListed
    /\ HitsAreOfTheUrl /\ TasksAreShown /\ DeskIsTruthful

=============================================================================
