----------------------------- MODULE PagesProofs -----------------------------
(***************************************************************************)
(* What the pages show, proved of Screens for any value of its constants:  *)
(* PagesAreTruthful, of which every page has a part with an inductive      *)
(* invariant of its own, and TypeOK.                                       *)
(***************************************************************************)
EXTENDS ScreensProofs

-----------------------------------------------------------------------------
(* The inductive invariants *)

(* Search: the searches of a page are begun in order, each of a query. *)
SearchRecords == [q : Queries \cup {NoQuery}, kind : Kinds, at : {"idle", "asked", "over"}]
Hits          == [q : Queries, kind : Kinds]

SearchTyped ==
    /\ urlQuery \in Queries \cup {NoQuery} /\ query \in Queries \cup {NoQuery}
    /\ kind \in Kinds /\ hits \subseteq Hits
    /\ busy \in BOOLEAN /\ searchError \in BOOLEAN
    /\ search \in [Searches -> SearchRecords]
    /\ strayed \in BOOLEAN /\ doubled \in BOOLEAN

InOrder ==
    \A i, j \in Searches : j < i /\ search[i] # Unasked => search[j] # Unasked

AskedForUrl ==
    \A i \in Searches : Asking(i) => search[i].q \in Queries
                                     /\ (search[i].q = urlQuery \/ strayed)

AskedAlone ==
    ~doubled => \A i, j \in Searches : Asking(i) /\ j > i => search[j] = Unasked

SearchInv == SearchTyped /\ InOrder /\ AskedForUrl /\ AskedAlone /\ HitsAreOfTheUrl

(* Tasks: while the list is not stale, at most one handler is under way,    *)
(* and it asks for the next status of the task at the server, or brings the *)
(* list of the server.                                                      *)
StatusLists  == [Tasks -> TaskStatuses]
CycleRecords == [task : SUBSET Tasks, want : TaskStatuses,
                 at : {"idle", "asked", "answered", "listing", "listed", "over"},
                 got : SUBSET StatusLists]

TasksTyped ==
    /\ items \subseteq StatusLists /\ taskError \in BOOLEAN
    /\ cycling \in [Cycles -> CycleRecords]
    /\ taskStatus \in StatusLists
    /\ devices \in 0 .. MaxDevices /\ stale \in BOOLEAN /\ skipped \in BOOLEAN

OneCycle ==
    ~stale => \A j, k \in Cycles : Cycling(j) /\ Cycling(k) => j = k

CycleIsNext ==
    ~stale => \A k \in Cycles :
        cycling[k].at = "asked" => /\ items = {taskStatus}
                                   /\ \A t \in cycling[k].task :
                                        cycling[k].want = NextStatus(taskStatus[t])

ListedIsServer ==
    ~stale => \A k \in Cycles : cycling[k].at = "listed" => cycling[k].got = {taskStatus}

TasksInv == TasksTyped /\ OneCycle /\ CycleIsNext /\ ListedIsServer /\ TasksAreShown

(* The desk: the counters count the requests that are over, or stored.      *)
DeskRecords == [do : {"none", "note", "mark", "rename"},
                at : {"idle", "asked", "answered", "over"},
                phrase : Phrases \cup {NoPhrase}]

DeskTyped ==
    /\ note \in Phrases \cup {NoPhrase}
    /\ noteSaved \in Nat /\ bookmarkCount \in Nat
    /\ micShown \in Phrases /\ micName \in Phrases
    /\ desk \in [Entries -> DeskRecords]
    /\ notes \subseteq Entries /\ bookmarks \in Nat
    /\ deskLost \in 0 .. MaxDeskLost /\ unstored \in Nat /\ unsaid \in Nat
    /\ retyped \in BOOLEAN /\ renamedTwice \in BOOLEAN

DeskEntries ==
    \A k \in Entries :
        /\ desk[k].do = "rename" => desk[k].phrase \in Phrases
        /\ desk[k].do = "none" => desk[k].at = "idle"

Answered(k) == desk[k].at = "answered"
Finished(k) == desk[k].at = "over"
MarkEntries == {k \in Entries : desk[k].do = "mark"}
MarksSeen   == {k \in MarkEntries : Finished(k)}
MarksServed == {k \in MarkEntries : Answered(k) \/ Finished(k)}
NotesSeen   == {k \in notes : Finished(k)}

NotesAreServed ==
    \A k \in Entries : /\ k \in notes => desk[k].do = "note" /\ (Answered(k) \/ Finished(k))
                       /\ desk[k].do = "note" /\ Answered(k) => k \in notes

NotesCounted == noteSaved + unsaid = Cardinality(NotesSeen)
MarksCounted == /\ bookmarkCount = Cardinality(MarksSeen)
                /\ bookmarks + unstored = Cardinality(MarksServed)

InputIsNote ==
    ~retyped => /\ wiped = {}
                /\ \A k \in Entries : OnDesk(k) /\ desk[k].do = "note" =>
                     note = desk[k].phrase \/ note = NoPhrase

OneRename ==
    ~renamedTwice =>
        /\ \A j, k \in Entries : OnDesk(j) /\ desk[j].do = "rename"
                                 /\ OnDesk(k) /\ desk[k].do = "rename" => j = k
        /\ \A k \in Entries : desk[k].do = "rename" /\ Answered(k) => micName = desk[k].phrase
        /\ (\A k \in Entries : desk[k].do = "rename" => ~Answered(k)) => micShown = micName

DeskInv ==
    /\ DeskTyped /\ DeskEntries /\ NotesAreServed /\ NotesCounted /\ MarksCounted
    /\ InputIsNote /\ OneRename

(* Documents: one upload of the page at a time, and while nothing is in     *)
(* doubt at most one handler of it, which brings the list of the server as  *)
(* long as nobody else changes that.                                        *)
Uploads(k) == docCall[k].do = "upload" /\ Busy(k)

OneUpload ==
    /\ uploading \in BOOLEAN
    /\ \A j, k \in Mine : Uploads(j) /\ Uploads(k) => j = k
    /\ uploading <=> \E k \in Mine : Uploads(k)

IsServers(list) == DOMAIN list = {d \in Docs : Stored(d)}

OneCall ==
    ~docDoubt =>
        /\ \A j, k \in Mine : Busy(j) /\ Busy(k) => j = k
        /\ ~unlisted => \A k \in Mine :
             docCall[k].at = "listed" => \A list \in docCall[k].got : IsServers(list)
        /\ ~unlisted /\ (\A k \in Mine : ~Busy(k)) => \A list \in pageDocs : IsServers(list)

ListInv == OneUpload /\ OneCall

DocRest ==
    /\ docError \in BOOLEAN /\ docDoubt \in BOOLEAN /\ unlisted \in BOOLEAN
    /\ chunks \subseteq Docs /\ harm \in 0 .. MaxHarm
    /\ torn \subseteq Docs /\ stranded \subseteq Docs /\ overrun \subseteq Docs

(* One meeting: what is loaded, polled or edited of a meeting that the URL  *)
(* does not name is older than the URL, and nothing goes on at a closed page*)
OldLoads ==
    /\ \A l \in loads : l.of # url => l.old
    /\ \A p \in polls : p.of # url => p.old
    /\ \A e \in edits : e.of # url => e.old

ClosedIsIdle ==
    url = Nowhere => ~ticking /\ on = {} /\ loads = {} /\ polls = {} /\ edits = {}

(* The management page: what a handler carries is of the server as it is,   *)
(* and while nothing is in doubt at most one is under way, which brings     *)
(* what the page does not show of the server.                               *)
AdminRest ==
    /\ open \in BOOLEAN /\ listed \in BOOLEAN
    /\ error \in BOOLEAN /\ notice \in Clicks /\ told \in Clicks
    /\ shown \subseteq ShownSettings /\ shownMode \subseteq ShownModes
    /\ modal \in {"closed", "typed"} /\ done \subseteq Clicks
    /\ doubt \in BOOLEAN /\ patched \in BOOLEAN

PatchClicks == {"profile", "setKey", "clearKey"}
Acted       == {"answered", "refetch", "refetched"}

Carries(k) == click[k].got # {} \/ click[k].users # {} \/ click[k].mode # {}

(* What a handler is at, and what it has by then *)
RecordFits(k) ==
    /\ click[k].at = "answered" => click[k].do \notin {"none", "load"}
    /\ click[k].at \in {"refetch", "refetched"} => click[k].do \in {"mode", "user"}
    /\ click[k].do = "load" => click[k].at = "asked"
    /\ ~InFlight(k) \/ (click[k].at \in {"asked", "checked"} /\ click[k].do # "load")
         => ~Carries(k)
    /\ (click[k].do \in PatchClicks /\ click[k].at = "answered") => click[k].got # {}
    /\ click[k].at = "refetched" => click[k].got # {} /\ click[k].users # {}

(* There is nothing to click at before the first settings are shown.        *)
ShownFirst == \A k \in Clicks : click[k].do \notin {"none", "load"} => shown # {}

AnsweredIsDone == \A k \in Clicks : click[k].at \in Acted => k \in done

ClosedAdmin == ~open => shown = {} /\ \A k \in Clicks : click[k] = Idle

(* What a handler still owes the page *)
OwesSettings(k) ==
    click[k].do = "load" \/ (click[k].do \in PatchClicks /\ click[k].at = "answered")
OwesUsers(k) ==
    click[k].do = "load" \/ (click[k].do = "user" /\ click[k].at \in Acted)
OwesMode(k) ==
    click[k].do = "load" \/ (click[k].do \in {"mode", "profile"} /\ click[k].at = "answered")

ShownOrOwed(k) ==
    (open /\ shown # {}) =>
        /\ shown = {SettingsOut} \/ OwesSettings(k)
        /\ listed = member \/ OwesUsers(k)
        /\ (\A s \in shownMode : s.mode = ServerMode \/ patched) \/ OwesMode(k)

CarriesNow(k) ==
    /\ click[k].got \subseteq {SettingsOut} /\ click[k].users \subseteq {member}
    /\ \A s \in click[k].mode : s.mode = ServerMode

AtMostOne ==
    ~doubt => /\ \E k \in Clicks : Alone(k) /\ ShownOrOwed(k)
              /\ \A k \in Clicks : CarriesNow(k)

AdminInv ==
    /\ AdminRest /\ (\A k \in Clicks : RecordFits(k)) /\ AnsweredIsDone /\ NoticeIsTrue
    /\ ShownFirst /\ ClosedAdmin /\ AtMostOne

-----------------------------------------------------------------------------
(* Frames: every step is one of a single page, or leaves the page alone. *)

LEMMA PageKinds ==
    ASSUME [Next]_vars
    PROVE  /\ SearchNext \/ UNCHANGED searchVars
           /\ TasksNext \/ UNCHANGED taskVars
           /\ DeskNext \/ UNCHANGED deskVars
           /\ MeetingNext \/ UNCHANGED meetingVars
           /\ route' = route
<1> USE DEF otherVars, workVars
<1>1. CASE AtDashboard \/ AtAdmin \/ AtSignIn \/ Elsewhere
  BY <1>1 DEF AtDashboard, AtAdmin, AtSignIn, Elsewhere
<1>2. CASE AtMeeting(MeetingNext)
  BY <1>2 DEF AtMeeting
<1>3. CASE AtDocuments(DocumentsNext)
  BY <1>3 DEF AtDocuments
<1>4. CASE AtSearch \/ AtTasks \/ AtRecording
  BY <1>4 DEF AtSearch, AtTasks, AtRecording
<1>5. CASE UNCHANGED vars
  BY <1>5 DEF vars
<1> QED BY <1>1, <1>2, <1>3, <1>4, <1>5 DEF Next

-----------------------------------------------------------------------------
(* The search *)

LEMMA AskedSearch ==
    ASSUME NEW q \in Queries, NEW k \in Kinds
    PROVE  /\ Asked(q, k) \in SearchRecords /\ Asked(q, k) # Unasked
           /\ Asked(q, k).at = "asked" /\ Asked(q, k).q = q
<1>1. "asked" \in {"idle", "asked", "over"}
  OBVIOUS
<1> QED BY <1>1 DEF Asked, Unasked, SearchRecords

LEMMA UnaskedIsIdle == Unasked.at = "idle"
  BY DEF Unasked

LEMMA SearchUnchanged ==
    ASSUME SearchInv, UNCHANGED searchVars
    PROVE  SearchInv'
  BY DEF SearchInv, SearchTyped, InOrder, AskedForUrl, AskedAlone, HitsAreOfTheUrl, LastAsked,
         SomeAsking, Asking, searchVars

(* The input and the filter are only read when a search is begun. *)
LEMMA InputStep ==
    ASSUME SearchInv, query' \in Queries \cup {NoQuery}, kind' \in Kinds,
           UNCHANGED <<urlQuery, hits, busy, searchError, search, strayed, doubled>>
    PROVE  SearchInv'
  BY DEF SearchInv, SearchTyped, InOrder, AskedForUrl, AskedAlone, HitsAreOfTheUrl, LastAsked,
         SomeAsking, Asking

(* Searches are begun one by one, or two together that count as doubled. *)
LEMMA BeginStep ==
    ASSUME SearchInv, NEW q \in Queries, NEW i \in Searches, NEW n \in Searches,
           n \in {i, i + 1}, Unused(i),
           search' \in [Searches -> SearchRecords],
           \A j \in {i, n} : search'[j].at = "asked" /\ search'[j].q = q,
           \A j \in Searches \ {i, n} : search'[j] = search[j],
           busy' = TRUE, searchError' = FALSE,
           urlQuery' = q, query' \in Queries \cup {NoQuery},
           strayed' \in BOOLEAN, doubled' \in BOOLEAN,
           SomeAsking /\ (q # urlQuery \/ strayed) => strayed',
           SomeAsking \/ n # i => doubled',
           UNCHANGED <<kind, hits>>
    PROVE  SearchInv'
<1>0. /\ i \in Nat /\ n \in Nat /\ Searches \subseteq Nat
      /\ \A j \in Searches : j < i => search[j] # Unasked
      /\ search[i] = Unasked
  <2>1. Searches \subseteq Nat
    BY DEF Searches
  <2>2. \A j \in Searches : j < i => j \in 1 .. (i - 1)
    BY <2>1 DEF Searches
  <2> QED BY <2>1, <2>2 DEF Unused
<1>2. \A j \in Searches : j >= i => search[j] = Unasked
  <2> SUFFICES ASSUME NEW j \in Searches, j > i, search[j] # Unasked
               PROVE  FALSE
    BY <1>0
  <2> QED BY <1>0 DEF SearchInv, InOrder
<1>3. search'[i] # Unasked /\ search'[n] # Unasked
  BY UnaskedIsIdle
<1>4. SearchTyped'
  BY DEF SearchInv, SearchTyped
<1>5. InOrder'
  <2> SUFFICES ASSUME NEW l \in Searches, NEW j \in Searches, j < l, search'[l] # Unasked
               PROVE  search'[j] # Unasked
    BY DEF InOrder
  <2>1. l <= n
    BY <1>0, <1>2
  <2>2. j < i \/ j = i
    BY <1>0, <2>1
  <2> QED BY <1>0, <1>3, <2>2
<1>6. AskedForUrl'
  <2> SUFFICES ASSUME NEW j \in Searches, Asking(j)'
               PROVE  search'[j].q \in Queries /\ (search'[j].q = q \/ strayed')
    BY DEF AskedForUrl
  <2>1. CASE j = i \/ j = n
    BY <2>1
  <2>2. CASE j # i /\ j # n
    BY <2>2 DEF SearchInv, AskedForUrl, Asking, SomeAsking
  <2> QED BY <2>1, <2>2
<1>7. AskedAlone'
  <2> SUFFICES ASSUME ~doubled', NEW l \in Searches, NEW j \in Searches, Asking(l)', j > l
               PROVE  search'[j] = Unasked
    BY DEF AskedAlone
  <2>1. n = i /\ ~SomeAsking
    BY DEF SearchInv
  <2>2. l = i
    BY <2>1 DEF Asking, SomeAsking
  <2>3. j \in Nat /\ j > i
    BY <1>0, <2>2
  <2>4. j # i /\ j >= i
    BY <1>0, <2>3
  <2> QED BY <1>2, <2>1, <2>4
<1>8. HitsAreOfTheUrl'
  BY DEF HitsAreOfTheUrl, SomeAsking, Asking
<1> QED BY <1>4, <1>5, <1>6, <1>7, <1>8 DEF SearchInv

LEMMA RunStep ==
    ASSUME SearchInv, (\E q \in Queries : TopBar(q)) \/ SubmitAgain \/ SubmitNew
    PROVE  SearchInv'
<1>k. /\ "all" \in Kinds /\ kind \in Kinds /\ query \in Queries \cup {NoQuery}
      /\ strayed \in BOOLEAN /\ SomeAsking \in BOOLEAN
      /\ search \in [Searches -> SearchRecords]
  BY DEF SearchInv, SearchTyped, Kinds, SomeAsking
<1>1. ASSUME NEW q \in Queries, TopBar(q) PROVE SearchInv'
  <2>1. PICK i \in Searches : Unused(i) /\ Runs([j \in {i} |-> UrlEffect(q)])
    BY <1>1 DEF TopBar
  <2>2. search' = [j \in Searches |-> IF j = i THEN Asked(q, "all") ELSE search[j]]
    BY <2>1 DEF Runs, UrlEffect
  <2>3. /\ Asked(q, "all") \in SearchRecords
        /\ Asked(q, "all").at = "asked" /\ Asked(q, "all").q = q
    BY <1>k, AskedSearch
  <2>4. /\ busy' = TRUE /\ searchError' = FALSE /\ urlQuery' = q /\ query' = q
        /\ strayed' = SomeAsking /\ doubled' = SomeAsking /\ UNCHANGED <<kind, hits>>
    BY <1>1, <2>1 DEF TopBar, Runs
  <2>5. /\ search' \in [Searches -> SearchRecords]
        /\ search'[i].at = "asked" /\ search'[i].q = q
        /\ \A j \in Searches \ {i, i} : search'[j] = search[j]
    BY <1>k, <2>2, <2>3
  <2> QED BY <1>k, <2>1, <2>4, <2>5, BeginStep
<1>2. CASE SubmitAgain
  <2>1. PICK i \in Searches : Unused(i) /\ Runs([j \in {i} |-> Asked(query, kind)])
    BY <1>2 DEF SubmitAgain
  <2>2. query \in Queries /\ query = urlQuery
    BY <1>2, <1>k DEF SubmitAgain, Submittable
  <2>3. search' = [j \in Searches |-> IF j = i THEN Asked(query, kind) ELSE search[j]]
    BY <2>1 DEF Runs
  <2>4. /\ Asked(query, kind) \in SearchRecords
        /\ Asked(query, kind).at = "asked" /\ Asked(query, kind).q = query
    BY <1>k, <2>2, AskedSearch
  <2>5. /\ busy' = TRUE /\ searchError' = FALSE /\ urlQuery' = query /\ query' = query
        /\ strayed' = (strayed /\ SomeAsking) /\ doubled' = SomeAsking
        /\ UNCHANGED <<kind, hits>>
    BY <1>2, <2>1, <2>2 DEF SubmitAgain, Runs
  <2>6. /\ search' \in [Searches -> SearchRecords]
        /\ search'[i].at = "asked" /\ search'[i].q = query
        /\ \A j \in Searches \ {i, i} : search'[j] = search[j]
    BY <1>k, <2>3, <2>4
  <2> QED BY <1>k, <2>1, <2>2, <2>5, <2>6, BeginStep
<1>3. CASE SubmitNew
  <2>1. PICK i \in Searches :
          /\ Unused(i) /\ i < MaxSearches
          /\ Runs([j \in {i, i + 1} |-> IF j = i THEN Asked(query, kind)
                                                 ELSE UrlEffect(query)])
    BY <1>3 DEF SubmitNew
  <2>2. query \in Queries
    BY <1>3, <1>k DEF SubmitNew, Submittable
  <2>3. i + 1 \in Searches /\ i + 1 # i
    BY <2>1, SearchAssumption DEF Searches
  <2>4. search' = [j \in Searches |-> IF j = i THEN Asked(query, kind)
                                      ELSE IF j = i + 1 THEN Asked(query, "all") ELSE search[j]]
    BY <2>1 DEF Runs, UrlEffect
  <2>5. \A k \in {kind, "all"} :
          /\ Asked(query, k) \in SearchRecords
          /\ Asked(query, k).at = "asked" /\ Asked(query, k).q = query
    BY <1>k, <2>2, AskedSearch
  <2>6. /\ busy' = TRUE /\ searchError' = FALSE /\ urlQuery' = query /\ query' = query
        /\ strayed' = SomeAsking /\ doubled' = TRUE /\ UNCHANGED <<kind, hits>>
    BY <1>3, <2>1 DEF SubmitNew, Runs
  <2>7. /\ search' \in [Searches -> SearchRecords]
        /\ \A j \in {i, i + 1} : search'[j].at = "asked" /\ search'[j].q = query
        /\ \A j \in Searches \ {i, i + 1} : search'[j] = search[j]
    BY <1>k, <2>3, <2>4, <2>5
  <2> QED BY <1>k, <2>1, <2>2, <2>3, <2>6, <2>7, BeginStep
<1> QED BY <1>1, <1>2, <1>3, <1>k

LEMMA AnswerStep ==
    ASSUME SearchInv, NEW i \in Searches, SearchAnswered(i) \/ SearchFails(i)
    PROVE  SearchInv'
<1>0. /\ Asking(i) /\ search' = [search EXCEPT ![i].at = "over"] /\ busy' = FALSE
      /\ UNCHANGED <<urlQuery, query, kind, strayed, doubled>>
      /\ Searches \subseteq Nat
  BY DEF SearchAnswered, SearchFails, Searches
<1>1. /\ search' \in [Searches -> SearchRecords]
      /\ search'[i].at = "over" /\ search'[i].q = search[i].q /\ search'[i].kind = search[i].kind
      /\ \A j \in Searches : j # i => search'[j] = search[j]
  <2>1. "over" \in {"idle", "asked", "over"} /\ search[i] \in SearchRecords
    BY DEF SearchInv, SearchTyped
  <2> QED BY <1>0, <2>1 DEF SearchInv, SearchTyped, SearchRecords
<1>2. search[i] # Unasked /\ search'[i] # Unasked
  BY <1>0, <1>1, UnaskedIsIdle DEF Asking
<1>3. /\ search[i].q \in Queries /\ search[i].kind \in Kinds
      /\ search[i].q = urlQuery \/ strayed
  BY <1>0 DEF SearchInv, SearchTyped, SearchRecords, AskedForUrl
<1>4. SearchTyped'
  <2>1. hits' \subseteq Hits
    <3>1. CASE UNCHANGED hits
      BY <3>1 DEF SearchInv, SearchTyped
    <3>2. CASE hits' = {[q |-> search[i].q, kind |-> search[i].kind]}
      BY <3>2, <1>3 DEF Hits
    <3> QED BY <3>1, <3>2 DEF SearchAnswered, SearchFails
  <2>2. searchError' \in BOOLEAN
    BY DEF SearchAnswered, SearchFails, SearchInv, SearchTyped
  <2> QED BY <1>0, <1>1, <2>1, <2>2 DEF SearchInv, SearchTyped
<1>5. InOrder'
  BY <1>1, <1>2 DEF SearchInv, InOrder
<1>6. AskedForUrl' /\ AskedAlone'
  <2>1. \A j \in Searches : Asking(j)' => Asking(j) /\ j # i
    BY <1>1 DEF Asking
  <2>2. AskedForUrl'
    BY <1>0, <1>1, <2>1 DEF SearchInv, AskedForUrl
  <2>3. AskedAlone'
    <3> SUFFICES ASSUME ~doubled, NEW l \in Searches, NEW j \in Searches, Asking(l)', j > l
                 PROVE  search'[j] = Unasked
      BY <1>0 DEF AskedAlone
    <3>1. search[j] = Unasked
      BY <2>1 DEF SearchInv, AskedAlone
    <3> QED BY <1>1, <1>2, <3>1
  <2> QED BY <2>2, <2>3
<1>7. HitsAreOfTheUrl'
  <2>1. CASE SearchFails(i)
    BY <1>0, <2>1 DEF SearchFails, HitsAreOfTheUrl
  <2>2. CASE SearchAnswered(i)
    <3>1. hits' = {[q |-> search[i].q, kind |-> search[i].kind]}
      BY <2>2 DEF SearchAnswered
    <3>2. ASSUME ~doubled PROVE LastAsked' = i
      <4>1. \A j \in Searches : j > i => search'[j] = Unasked
        BY <1>0, <1>1, <3>2 DEF SearchInv, AskedAlone
      <4>2. ASSUME NEW j \in Searches, search'[j] # Unasked,
                   \A l \in Searches : l > j => search'[l] = Unasked
            PROVE  j = i
        <5>1. i \in Nat /\ j \in Nat /\ ~(i > j) /\ ~(j > i)
          BY <1>0, <1>2, <4>1, <4>2
        <5> QED BY <5>1
      <4> QED BY <1>2, <4>1, <4>2 DEF LastAsked
    <3> QED BY <1>0, <1>1, <1>3, <3>1, <3>2 DEF HitsAreOfTheUrl
  <2> QED BY <2>1, <2>2
<1> QED BY <1>4, <1>5, <1>6, <1>7 DEF SearchInv

LEMMA SearchInit_Inv == Init => SearchInv
<1> SUFFICES ASSUME Init PROVE SearchInv
  OBVIOUS
<1>1. /\ urlQuery \in Queries \cup {NoQuery} /\ query = urlQuery
      /\ kind = "all" /\ hits = {} /\ searchError = FALSE
      /\ busy = (urlQuery # NoQuery)
      /\ search = [i \in Searches |-> IF i = 1 /\ urlQuery # NoQuery
                                      THEN UrlEffect(urlQuery) ELSE Unasked]
      /\ strayed = FALSE /\ doubled = FALSE
  BY DEF Init, SearchInit
<1>2. 1 \in Searches /\ Searches \subseteq Nat \ {0} /\ "all" \in Kinds
  BY SearchAssumption DEF Searches, Kinds
<1>3. Unasked \in SearchRecords /\ Unasked.at = "idle"
  <2>1. "idle" \in {"idle", "asked", "over"}
    OBVIOUS
  <2> QED BY <1>2, <2>1 DEF Unasked, SearchRecords
<1>4. urlQuery # NoQuery => /\ UrlEffect(urlQuery) \in SearchRecords
                            /\ UrlEffect(urlQuery).at = "asked"
                            /\ UrlEffect(urlQuery).q = urlQuery
                            /\ urlQuery \in Queries
  BY <1>1, <1>2, AskedSearch DEF UrlEffect
<1>5. search \in [Searches -> SearchRecords]
  BY <1>1, <1>3, <1>4
<1>6. SearchTyped
  BY <1>1, <1>2, <1>5 DEF SearchTyped
<1>7. \A i \in Searches : search[i] # Unasked => i = 1 /\ search[i] = UrlEffect(urlQuery)
                                                 /\ urlQuery # NoQuery
  BY <1>1
<1>8. InOrder /\ AskedForUrl /\ AskedAlone
  <2>1. InOrder
    BY <1>2, <1>7 DEF InOrder
  <2>2. AskedForUrl
    BY <1>3, <1>4, <1>7 DEF AskedForUrl, Asking
  <2>3. AskedAlone
    BY <1>2, <1>3, <1>7 DEF AskedAlone, Asking
  <2> QED BY <2>1, <2>2, <2>3
<1>9. HitsAreOfTheUrl
  <2>1. urlQuery # NoQuery => Asking(1)
    BY <1>1, <1>2, <1>4 DEF Asking
  <2> QED BY <1>1, <1>2, <2>1 DEF HitsAreOfTheUrl, SomeAsking
<1> QED BY <1>6, <1>8, <1>9 DEF SearchInv

(* The URL loses its query: a search under way is no longer its own. *)
LEMMA ClearStep ==
    ASSUME SearchInv, ClearUrl
    PROVE  SearchInv'
<1>1. /\ urlQuery' = NoQuery /\ query' = NoQuery
      /\ strayed' = (strayed \/ SomeAsking)
      /\ UNCHANGED <<kind, hits, busy, searchError, search, doubled>>
  BY DEF ClearUrl
<1>2. SearchTyped'
  BY <1>1 DEF SearchInv, SearchTyped
<1>3. InOrder' /\ AskedAlone'
  BY <1>1 DEF SearchInv, InOrder, AskedAlone, Asking
<1>4. AskedForUrl'
  BY <1>1 DEF SearchInv, AskedForUrl, Asking, SomeAsking
<1>5. SomeAsking' = SomeAsking /\ LastAsked' = LastAsked
  BY <1>1 DEF SomeAsking, Asking, LastAsked
<1>6. HitsAreOfTheUrl'
  BY <1>1, <1>5 DEF SearchInv, HitsAreOfTheUrl
<1> QED BY <1>2, <1>3, <1>4, <1>6 DEF SearchInv

LEMMA SearchNext_Inv ==
    ASSUME SearchInv, [Next]_vars
    PROVE  SearchInv'
<1>1. ASSUME NEW q \in Queries \cup {NoQuery}, TypeQuery(q) PROVE SearchInv'
  BY <1>1, InputStep DEF TypeQuery, SearchInv, SearchTyped
<1>2. ASSUME NEW k \in Kinds, PickKind(k) PROVE SearchInv'
  BY <1>2, InputStep DEF PickKind, SearchInv, SearchTyped
<1>3. CASE SearchNext
  BY <1>1, <1>2, <1>3, ClearStep, RunStep, AnswerStep DEF SearchNext
<1> QED BY <1>3, SearchUnchanged, PageKinds

-----------------------------------------------------------------------------
(* The tasks *)

LEMMA TasksUnchanged ==
    ASSUME TasksInv, UNCHANGED taskVars
    PROVE  TasksInv'
  BY DEF TasksInv, TasksTyped, OneCycle, CycleIsNext, ListedIsServer, TasksAreShown, Cycling,
         taskVars

LEMMA NextStatusTyped == \A s \in TaskStatuses : NextStatus(s) \in TaskStatuses
  BY DEF NextStatus, TaskStatuses

(* A handler that goes on, alone or with the list in doubt: what is left to *)
(* show is what the step itself brings.                                     *)
LEMMA CycleStep ==
    ASSUME TasksInv, NEW k \in Cycles, NEW r \in CycleRecords,
           cycling' = [cycling EXCEPT ![k] = r],
           items' \subseteq StatusLists, taskError' \in BOOLEAN, taskStatus' \in StatusLists,
           devices' \in 0 .. MaxDevices, stale' \in BOOLEAN, skipped' = FALSE,
           ~stale' => Lonely(k),
           ~stale' /\ r.at = "asked" =>
             items' = {taskStatus'} /\ \A t \in r.task : r.want = NextStatus(taskStatus'[t]),
           ~stale' /\ r.at = "listed" => r.got = {taskStatus'},
           ~stale' /\ r.at \in {"idle", "over"} => items' = {taskStatus'}
    PROVE  TasksInv'
<1>1. /\ cycling' \in [Cycles -> CycleRecords] /\ cycling'[k] = r
      /\ \A j \in Cycles : j # k => cycling'[j] = cycling[j]
  BY DEF TasksInv, TasksTyped
<1>2. TasksTyped'
  BY <1>1 DEF TasksTyped
<1>3. ~stale' => \A j \in Cycles : j # k => cycling'[j].at \in {"idle", "over"}
  BY <1>1 DEF Lonely, Cycling
<1>4. OneCycle'
  BY <1>3 DEF OneCycle, Cycling
<1>5. CycleIsNext' /\ ListedIsServer'
  BY <1>1, <1>3 DEF CycleIsNext, ListedIsServer
<1>6. TasksAreShown'
  BY <1>1 DEF TasksAreShown, Cycling, CycleRecords
<1> QED BY <1>2, <1>4, <1>5, <1>6 DEF TasksInv

(* With a list that is not stale, who is under way is alone. *)
LEMMA FreshIsLonely ==
    ASSUME TasksInv, NEW k \in Cycles, ~stale, Cycling(k)
    PROVE  Lonely(k)
  BY DEF TasksInv, OneCycle, Lonely

LEMMA TasksStep ==
    ASSUME TasksInv, TasksNext
    PROVE  TasksInv'
<1>0. /\ items \subseteq StatusLists /\ taskError \in BOOLEAN /\ skipped = FALSE
      /\ cycling \in [Cycles -> CycleRecords] /\ taskStatus \in StatusLists
      /\ devices \in 0 .. MaxDevices /\ stale \in BOOLEAN
  BY DEF TasksInv, TasksTyped, TasksAreShown
<1>1. ASSUME NEW k \in Cycles, NEW t \in Tasks, ClickCycle(k, t) PROVE TasksInv'
  <2>1. PICK list \in items : cycling' = [cycling EXCEPT ![k] =
            [Resting EXCEPT !.task = {t}, !.want = NextStatus(list[t]), !.at = "asked"]]
    BY <1>1 DEF ClickCycle
  <2> DEFINE r == [Resting EXCEPT !.task = {t}, !.want = NextStatus(list[t]), !.at = "asked"]
  <2>2. r.task = {t} /\ r.want = NextStatus(list[t]) /\ r.at = "asked" /\ r.got = {}
    BY DEF Resting
  <2>3. r \in CycleRecords
    <3>1. list[t] \in TaskStatuses
      BY <1>0 DEF StatusLists
    <3>2. NextStatus(list[t]) \in TaskStatuses
      BY <3>1, NextStatusTyped
    <3>3. {t} \in SUBSET Tasks /\ {} \in SUBSET StatusLists
      OBVIOUS
    <3>4. "asked" \in {"idle", "asked", "answered", "listing", "listed", "over"}
      OBVIOUS
    <3> QED BY <3>2, <3>3, <3>4 DEF Resting, CycleRecords
  <2>4. cycling' = [cycling EXCEPT ![k] = r]
    BY <2>1
  <2> HIDE DEF r
  <2>5. /\ stale' = (stale \/ ~Lonely(k))
        /\ UNCHANGED <<items, taskError, taskStatus, devices, skipped>>
        /\ ~Cycling(k)
    BY <1>1 DEF ClickCycle, Cycling, Resting
  <2>6. stale' \in BOOLEAN
    BY <1>0, <2>5
  <2>7. ~stale' => ~stale /\ Lonely(k)
    BY <2>5
  <2>8. ~stale' => items = {taskStatus}
    BY <2>5, <2>7 DEF TasksInv, TasksAreShown, Lonely
  <2>9. ~stale' => \A u \in r.task : r.want = NextStatus(taskStatus'[u])
    BY <2>2, <2>5, <2>8
  <2> QED BY <1>0, <2>2, <2>3, <2>4, <2>5, <2>6, <2>7, <2>8, <2>9, CycleStep
<1>2. ASSUME NEW k \in Cycles, CycleHandled(k) PROVE TasksInv'
  <2>1. PICK t \in cycling[k].task :
          /\ taskStatus' = [taskStatus EXCEPT ![t] = cycling[k].want]
          /\ skipped' = (skipped \/ (~stale /\ cycling[k].want # NextStatus(taskStatus[t])))
    BY <1>2 DEF CycleHandled
  <2> DEFINE r == [cycling[k] EXCEPT !.at = "answered"]
  <2>2. cycling[k] \in CycleRecords
    BY <1>0
  <2>3. r \in CycleRecords /\ r.at = "answered"
    BY <2>2 DEF CycleRecords
  <2>4. cycling' = [cycling EXCEPT ![k] = r]
    BY <1>2 DEF CycleHandled
  <2> HIDE DEF r
  <2>5. /\ cycling[k].at = "asked" /\ UNCHANGED <<items, taskError, devices, stale>>
    BY <1>2 DEF CycleHandled
  <2>6. taskStatus' \in StatusLists
    BY <1>0, <2>1, <2>2 DEF StatusLists, CycleRecords
  <2>7. skipped' = FALSE
    BY <1>0, <2>1, <2>5 DEF TasksInv, CycleIsNext
  <2>8. ~stale' => Lonely(k)
    BY <2>5, FreshIsLonely DEF Cycling
  <2> QED BY <1>0, <2>3, <2>4, <2>5, <2>6, <2>7, <2>8, CycleStep
<1>3. ASSUME NEW k \in Cycles, TasksListed(k) PROVE TasksInv'
  <2> DEFINE r == [cycling[k] EXCEPT !.at = "listed", !.got = {taskStatus}]
  <2>1. cycling[k] \in CycleRecords /\ {taskStatus} \in SUBSET StatusLists
    BY <1>0
  <2>2. r \in CycleRecords /\ r.at = "listed" /\ r.got = {taskStatus}
    BY <2>1 DEF CycleRecords
  <2>3. cycling' = [cycling EXCEPT ![k] = r]
    BY <1>0, <1>3 DEF TasksListed
  <2> HIDE DEF r
  <2>4. /\ stale' = ~Lonely(k)
        /\ UNCHANGED <<items, taskError, taskStatus, devices, skipped>>
    BY <1>3 DEF TasksListed
  <2> QED BY <1>0, <2>2, <2>3, <2>4, CycleStep
<1>4. ASSUME NEW k \in Cycles, NEW at \in {"over"},
             cycling' = [cycling EXCEPT ![k].at = at, ![k].got = {}]
      PROVE  \E r \in CycleRecords : cycling' = [cycling EXCEPT ![k] = r] /\ r.at = "over"
  <2> DEFINE r == [cycling[k] EXCEPT !.at = at, !.got = {}]
  <2>1. cycling[k] \in CycleRecords /\ {} \in SUBSET StatusLists
    BY <1>0
  <2>2. r \in CycleRecords /\ r.at = "over"
    BY <2>1 DEF CycleRecords
  <2>3. cycling' = [cycling EXCEPT ![k] = r]
    BY <1>0, <1>4
  <2> HIDE DEF r
  <2> QED BY <2>2, <2>3
<1>5. ASSUME NEW k \in Cycles, TasksShown(k) PROVE TasksInv'
  <2>1. PICK r \in CycleRecords : cycling' = [cycling EXCEPT ![k] = r] /\ r.at = "over"
    BY <1>4, <1>5 DEF TasksShown
  <2>2. /\ cycling[k].at = "listed" /\ items' = cycling[k].got
        /\ UNCHANGED <<taskError, taskStatus, devices, stale, skipped>>
    BY <1>5 DEF TasksShown
  <2>3. items' \subseteq StatusLists
    BY <1>0, <2>2 DEF CycleRecords
  <2>4. ~stale' => Lonely(k) /\ items' = {taskStatus}
    BY <2>2, FreshIsLonely DEF Cycling, TasksInv, ListedIsServer
  <2> QED BY <1>0, <2>1, <2>2, <2>3, <2>4, CycleStep
<1>6. ASSUME NEW k \in Cycles, CycleFails(k) PROVE TasksInv'
  <2>1. PICK r \in CycleRecords : cycling' = [cycling EXCEPT ![k] = r] /\ r.at = "over"
    BY <1>4, <1>6 DEF CycleFails
  <2>2. /\ stale' = TRUE /\ UNCHANGED <<items, taskStatus, devices, skipped>>
        /\ taskError' \in BOOLEAN
    BY <1>0, <1>6 DEF CycleFails
  <2> QED BY <1>0, <2>1, <2>2, CycleStep
<1>7. ASSUME NEW t \in Tasks, NEW s \in TaskStatuses, OtherDevice(t, s) PROVE TasksInv'
  <2>1. /\ stale' = TRUE /\ UNCHANGED <<items, taskError, cycling, skipped>>
        /\ devices' \in 0 .. MaxDevices /\ taskStatus' \in StatusLists
    BY <1>0, <1>7, TasksAssumption DEF OtherDevice, StatusLists
  <2>2. TasksTyped'
    BY <1>0, <2>1 DEF TasksTyped
  <2> QED BY <1>0, <2>1, <2>2 DEF TasksInv, OneCycle, CycleIsNext, ListedIsServer, TasksAreShown
<1> QED BY <1>1, <1>2, <1>3, <1>5, <1>6, <1>7 DEF TasksNext

LEMMA TasksInit_Inv == Init => TasksInv
<1> SUFFICES ASSUME Init PROVE TasksInv
  OBVIOUS
<1>1. /\ items = {} /\ taskError = FALSE
      /\ cycling = [k \in Cycles |-> IF k = 0 THEN [Resting EXCEPT !.at = "listing"]
                                     ELSE Resting]
      /\ taskStatus = [t \in Tasks |-> "open"]
      /\ devices = 0 /\ stale = FALSE /\ skipped = FALSE
  BY DEF Init, TasksInit
<1>2. 0 \in Cycles /\ 0 \in 0 .. MaxDevices /\ "open" \in TaskStatuses
      /\ {} \in SUBSET Tasks /\ {} \in SUBSET StatusLists
  BY TasksAssumption DEF Cycles, TaskStatuses
<1>3. \A at \in {"idle", "listing"} : [Resting EXCEPT !.at = at] \in CycleRecords
                                      /\ [Resting EXCEPT !.at = at].at = at
  BY <1>2 DEF Resting, CycleRecords
<1>4. Resting \in CycleRecords /\ Resting.at = "idle"
  BY <1>3 DEF Resting
<1>5. TasksTyped
  <2>1. cycling \in [Cycles -> CycleRecords]
    BY <1>1, <1>3, <1>4
  <2>2. taskStatus \in StatusLists
    BY <1>1, <1>2 DEF StatusLists
  <2> QED BY <1>1, <1>2, <2>1, <2>2 DEF TasksTyped
<1>6. \A k \in Cycles : cycling[k].at = IF k = 0 THEN "listing" ELSE "idle"
  BY <1>1, <1>3, <1>4
<1>7. OneCycle /\ CycleIsNext /\ ListedIsServer /\ TasksAreShown
  BY <1>1, <1>2, <1>6 DEF OneCycle, CycleIsNext, ListedIsServer, TasksAreShown, Cycling
<1> QED BY <1>5, <1>7 DEF TasksInv

LEMMA TasksNext_Inv ==
    ASSUME TasksInv, [Next]_vars
    PROVE  TasksInv'
  BY TasksStep, TasksUnchanged, PageKinds

-----------------------------------------------------------------------------
(* The desk *)

LEMMA DeskUnchanged ==
    ASSUME DeskInv, UNCHANGED deskVars
    PROVE  DeskInv'
  BY DEF DeskInv, DeskTyped, DeskEntries, NotesAreServed, NotesCounted, MarksCounted,
         InputIsNote, OneRename, MarksSeen, MarksServed, MarkEntries, NotesSeen, Answered,
         Finished, OnDesk, deskVars, deskView, deskStore, deskGhosts

LEMMA EntriesFinite ==
    /\ IsFiniteSet(Entries) /\ Cardinality(Entries) = MaxDesk
    /\ \A S \in SUBSET Entries :
         IsFiniteSet(S) /\ Cardinality(S) \in Nat /\ Cardinality(S) <= MaxDesk
<1>1. IsFiniteSet(Entries) /\ Cardinality(Entries) = MaxDesk
  BY FS_Interval, DeskAssumption DEF Entries
<1>2. ASSUME NEW S \in SUBSET Entries
      PROVE  IsFiniteSet(S) /\ Cardinality(S) \in Nat /\ Cardinality(S) <= MaxDesk
  BY <1>1, FS_Subset, FS_CardinalityType
<1> QED BY <1>1, <1>2

(* The k-th request goes on: it keeps what it asks for. *)
LEMMA EntryMoves ==
    ASSUME DeskInv, NEW k \in Entries, NEW at \in {"answered", "over"}, EntryGoes(k, at)
    PROVE  /\ desk' \in [Entries -> DeskRecords]
           /\ desk'[k].at = at
           /\ \A j \in Entries : desk'[j].do = desk[j].do /\ desk'[j].phrase = desk[j].phrase
           /\ \A j \in Entries : j # k => desk'[j].at = desk[j].at
<1>1. desk \in [Entries -> DeskRecords] /\ desk[k] \in DeskRecords
  BY DEF DeskInv, DeskTyped
<1>2. at \in {"idle", "asked", "answered", "over"}
  OBVIOUS
<1> QED BY <1>1, <1>2 DEF EntryGoes, DeskRecords

(* Counting goes on by one where one request is added to a set. *)
LEMMA OneMore ==
    ASSUME NEW S \in SUBSET Entries, NEW k \in Entries, k \notin S
    PROVE  Cardinality(S \cup {k}) = Cardinality(S) + 1
  BY EntriesFinite, FS_AddElement

(* A request is put on the desk. *)
LEMMA AsksStep ==
    ASSUME DeskInv, NEW k \in Entries, NEW what \in {"note", "mark", "rename"},
           NEW p \in Phrases \cup {NoPhrase}, what = "rename" => p \in Phrases,
           Asks(k, what, p), UNCHANGED retyped, renamedTwice' \in BOOLEAN,
           what = "note" => note = p /\ note # NoPhrase,
           ~renamedTwice' => ~renamedTwice /\ (what = "rename" => ~SomeOnDesk("rename"))
    PROVE  DeskInv'
<1>0. /\ UNCHANGED <<note, noteSaved, bookmarkCount, micShown, notes, bookmarks, micName,
                     deskLost, unstored, unsaid, wiped>>
      /\ desk[k].at = "idle" /\ desk[k].do = "none"
      /\ desk \in [Entries -> DeskRecords]
  BY DEF Asks, deskView, deskStore, NoEntry, DeskInv, DeskTyped
<1> DEFINE r == [do |-> what, at |-> "asked", phrase |-> p]
<1>1. r \in DeskRecords /\ r.do = what /\ r.at = "asked" /\ r.phrase = p
  <2>1. "asked" \in {"idle", "asked", "answered", "over"}
        /\ what \in {"none", "note", "mark", "rename"}
    OBVIOUS
  <2> QED BY <2>1 DEF DeskRecords
<1>2. desk' = [desk EXCEPT ![k] = r]
  BY DEF Asks
<1> HIDE DEF r
<1>3. /\ desk' \in [Entries -> DeskRecords] /\ desk'[k] = r
      /\ \A j \in Entries : j # k => desk'[j] = desk[j]
  BY <1>0, <1>1, <1>2
<1>4. DeskTyped'
  BY <1>0, <1>3 DEF DeskInv, DeskTyped
<1>5. DeskEntries' /\ NotesAreServed'
  <2>1. DeskEntries'
    BY <1>1, <1>3 DEF DeskInv, DeskEntries
  <2>2. k \notin notes
    BY <1>0 DEF DeskInv, NotesAreServed
  <2> QED BY <1>0, <1>1, <1>3, <2>1, <2>2 DEF DeskInv, NotesAreServed, Answered, Finished
<1>6. NotesCounted' /\ MarksCounted'
  <2>1. \A j \in Entries :
          /\ Finished(j)' = Finished(j) /\ Answered(j)' = Answered(j)
          /\ Finished(j) \/ Answered(j) => desk'[j] = desk[j]
    BY <1>0, <1>1, <1>3 DEF Answered, Finished
  <2>2. NotesSeen' = NotesSeen
    BY <1>0, <2>1 DEF NotesSeen, DeskInv, DeskTyped
  <2>3. MarksSeen' = MarksSeen /\ MarksServed' = MarksServed
    BY <2>1 DEF MarksSeen, MarksServed, MarkEntries
  <2> QED BY <1>0, <2>2, <2>3 DEF DeskInv, NotesCounted, MarksCounted
<1>7. InputIsNote'
  BY <1>0, <1>1, <1>3 DEF DeskInv, InputIsNote, OnDesk
<1>8. OneRename'
  <2> SUFFICES ASSUME ~renamedTwice'
               PROVE  OneRename'
    BY DEF OneRename
  <2>1. \A j \in Entries : Answered(j)' => j # k /\ Answered(j)
    BY <1>1, <1>3 DEF Answered
  <2>2. \A j \in Entries : OnDesk(j)' => j = k \/ OnDesk(j)
    BY <1>3 DEF OnDesk
  <2>3. \A j \in Entries :
          OnDesk(j)' /\ desk'[j].do = "rename" =>
            \/ j = k /\ what = "rename"
            \/ OnDesk(j) /\ desk[j].do = "rename"
    BY <1>1, <1>3, <2>2
  <2>4. \A i, j \in Entries : OnDesk(i)' /\ desk'[i].do = "rename"
                              /\ OnDesk(j)' /\ desk'[j].do = "rename" => i = j
    BY <2>3 DEF DeskInv, OneRename, SomeOnDesk
  <2>5. \A j \in Entries : desk[j].do = "rename" /\ Answered(j) =>
                             desk'[j].do = "rename" /\ Answered(j)'
    BY <1>0, <1>3 DEF Answered
  <2> QED BY <1>0, <1>3, <2>1, <2>4, <2>5 DEF DeskInv, OneRename
<1> QED BY <1>4, <1>5, <1>6, <1>7, <1>8 DEF DeskInv

LEMMA TypeNoteStep ==
    ASSUME DeskInv, NEW p \in Phrases \cup {NoPhrase}, TypeNote(p)
    PROVE  DeskInv'
<1>1. /\ UNCHANGED <<noteSaved, bookmarkCount, micShown, desk, notes, bookmarks, micName,
                     deskLost, unstored, unsaid, wiped, renamedTwice>>
      /\ note' = p /\ retyped' = (retyped \/ SomeOnDesk("note"))
  BY DEF TypeNote, deskStore
<1>2. DeskTyped'
  <2>1. retyped' \in BOOLEAN
    BY <1>1 DEF DeskInv, DeskTyped, SomeOnDesk
  <2> QED BY <1>1, <2>1 DEF DeskInv, DeskTyped
<1>3. DeskEntries' /\ NotesAreServed' /\ NotesCounted' /\ MarksCounted' /\ OneRename'
  BY <1>1 DEF DeskInv, DeskEntries, NotesAreServed, NotesCounted, MarksCounted, OneRename,
     NotesSeen, MarksSeen, MarksServed, MarkEntries, Answered, Finished, OnDesk
<1>4. InputIsNote'
  BY <1>1 DEF DeskInv, InputIsNote, SomeOnDesk, OnDesk
<1> QED BY <1>2, <1>3, <1>4 DEF DeskInv

LEMMA EntryHandledStep ==
    ASSUME DeskInv, NEW k \in Entries, EntryHandled(k)
    PROVE  DeskInv'
<1>0. /\ UNCHANGED <<note, noteSaved, bookmarkCount, micShown, deskLost,
                     unstored, unsaid, retyped, wiped, renamedTwice>>
      /\ desk[k].at = "asked" /\ EntryGoes(k, "answered")
      /\ desk \in [Entries -> DeskRecords]
  BY DEF EntryHandled, deskView, deskGhosts, DeskInv, DeskTyped
<1>1. /\ desk' \in [Entries -> DeskRecords]
      /\ desk'[k].at = "answered"
      /\ \A j \in Entries : desk'[j].do = desk[j].do /\ desk'[j].phrase = desk[j].phrase
      /\ \A j \in Entries : j # k => desk'[j].at = desk[j].at
  BY <1>0, EntryMoves
<1>2. \A j \in Entries : OnDesk(j)' => OnDesk(j)
  BY <1>0, <1>1 DEF OnDesk
<1>3. DeskEntries' /\ InputIsNote'
  <2>1. desk[k].do # "none"
    BY <1>0 DEF DeskInv, DeskEntries
  <2>2. DeskEntries'
    BY <1>0, <1>1, <2>1 DEF DeskInv, DeskEntries
  <2> QED BY <1>0, <1>1, <1>2, <2>2 DEF DeskInv, InputIsNote
<1>4. k \notin notes
  BY <1>0 DEF DeskInv, NotesAreServed, Answered, Finished
<1>5. \A j \in Entries : Finished(j)' = Finished(j)
  BY <1>0, <1>1 DEF Finished
<1>6. MarksSeen' = MarksSeen
  BY <1>1, <1>5 DEF MarksSeen, MarkEntries
<1>7. \A j \in Entries : j # k => Answered(j)' = Answered(j)
  BY <1>1 DEF Answered
<1>8. desk[k].do # "mark" => MarksServed' = MarksServed
  BY <1>0, <1>1, <1>5, <1>7 DEF MarksServed, MarkEntries
<1>9. desk[k].do # "rename" => OneRename' \/ micName' # micName
  <2>1. \A j \in Entries : desk[j].do = "rename" /\ desk[k].do # "rename" =>
                             Answered(j)' = Answered(j)
    BY <1>7
  <2> QED BY <1>0, <1>1, <1>2, <2>1 DEF DeskInv, OneRename
<1>10. CASE desk[k].do = "note" /\ notes' = notes \cup {k} /\ UNCHANGED <<bookmarks, micName>>
  <2>1. DeskTyped'
    BY <1>0, <1>1, <1>10 DEF DeskInv, DeskTyped
  <2>2. NotesAreServed'
    BY <1>0, <1>1, <1>10 DEF DeskInv, NotesAreServed, Answered, Finished
  <2>3. NotesSeen' = NotesSeen
    <3>1. ~Finished(k)'
      BY <1>1 DEF Finished
    <3> QED BY <1>4, <1>5, <1>10, <3>1 DEF NotesSeen, DeskInv, DeskTyped
  <2>4. NotesCounted' /\ MarksCounted'
    BY <1>0, <1>6, <1>8, <1>10, <2>3 DEF DeskInv, NotesCounted, MarksCounted
  <2> QED BY <1>3, <1>9, <1>10, <2>1, <2>2, <2>4 DEF DeskInv
<1>11. CASE desk[k].do = "mark" /\ bookmarks' = bookmarks + 1 /\ UNCHANGED <<notes, micName>>
  <2>1. DeskTyped'
    BY <1>0, <1>1, <1>11 DEF DeskInv, DeskTyped
  <2>2. NotesAreServed'
    BY <1>0, <1>1, <1>11 DEF DeskInv, NotesAreServed, Answered, Finished
  <2>3. NotesSeen' = NotesSeen
    BY <1>5, <1>11 DEF NotesSeen, DeskInv, DeskTyped
  <2>4. MarksServed' = MarksServed \cup {k} /\ k \notin MarksServed
    BY <1>0, <1>1, <1>5, <1>7, <1>11 DEF MarksServed, MarkEntries, Answered, Finished
  <2>5. MarksServed \in SUBSET Entries
    BY DEF MarksServed, MarkEntries
  <2>6. Cardinality(MarksServed') = Cardinality(MarksServed) + 1
    BY <2>4, <2>5, OneMore
  <2>7. NotesCounted'
    BY <1>0, <2>3 DEF DeskInv, NotesCounted
  <2>8. MarksCounted'
    BY <1>0, <1>6, <1>11, <2>5, <2>6, EntriesFinite DEF DeskInv, DeskTyped, MarksCounted
  <2> QED BY <1>3, <1>9, <1>11, <2>1, <2>2, <2>7, <2>8 DEF DeskInv
<1>12. CASE desk[k].do = "rename" /\ micName' = desk[k].phrase /\ UNCHANGED <<notes, bookmarks>>
  <2>1. desk[k].phrase \in Phrases
    BY <1>12 DEF DeskInv, DeskEntries
  <2>2. DeskTyped'
    BY <1>0, <1>1, <1>12, <2>1 DEF DeskInv, DeskTyped
  <2>3. NotesAreServed'
    BY <1>0, <1>1, <1>12 DEF DeskInv, NotesAreServed, Answered, Finished
  <2>4. NotesSeen' = NotesSeen
    BY <1>5, <1>12 DEF NotesSeen, DeskInv, DeskTyped
  <2>5. NotesCounted' /\ MarksCounted'
    BY <1>0, <1>6, <1>8, <1>12, <2>4 DEF DeskInv, NotesCounted, MarksCounted
  <2>6. OneRename'
    <3> SUFFICES ASSUME ~renamedTwice PROVE OneRename'
      BY <1>0 DEF OneRename
    <3>1. \A j \in Entries : OnDesk(j) /\ desk[j].do = "rename" => j = k
      BY <1>0, <1>12 DEF DeskInv, OneRename, OnDesk
    <3>2. \A j \in Entries : desk'[j].do = "rename" /\ OnDesk(j)' => j = k
      BY <1>1, <1>2, <3>1
    <3>3. Answered(k)' /\ desk'[k].do = "rename" /\ micName' = desk'[k].phrase
      BY <1>1, <1>12 DEF Answered
    <3>4. \A j \in Entries : Answered(j)' => OnDesk(j)'
      BY DEF Answered, OnDesk
    <3> QED BY <3>2, <3>3, <3>4 DEF OneRename
  <2> QED BY <1>3, <2>2, <2>3, <2>5, <2>6 DEF DeskInv
<1> QED BY <1>10, <1>11, <1>12 DEF EntryHandled

(* A request is over; the rest of the handler shows in what it changes. *)
LEMMA EntryOver ==
    ASSUME DeskInv, NEW k \in Entries, OnDesk(k), EntryGoes(k, "over"),
           UNCHANGED <<notes, bookmarks, micName>>,
           note' \in Phrases \cup {NoPhrase}, noteSaved' \in Nat, bookmarkCount' \in Nat,
           micShown' \in Phrases, deskLost' \in 0 .. MaxDeskLost,
           unstored' \in Nat, unsaid' \in Nat, UNCHANGED retyped, renamedTwice' \in BOOLEAN,
           noteSaved' + unsaid' = noteSaved + unsaid + (IF k \in notes THEN 1 ELSE 0),
           bookmarkCount' = bookmarkCount + (IF desk[k].do = "mark" THEN 1 ELSE 0),
           unstored' = unstored + (IF desk[k].do = "mark" /\ ~Answered(k) THEN 1 ELSE 0),
           ~retyped => wiped' = {} /\ note' \in {note, NoPhrase},
           ~renamedTwice' => /\ ~renamedTwice
                             /\ desk[k].do = "rename" => Answered(k)
                             /\ micShown' = IF desk[k].do = "rename" THEN desk[k].phrase
                                            ELSE micShown
    PROVE  DeskInv'
<1>1. /\ desk' \in [Entries -> DeskRecords]
      /\ desk'[k].at = "over"
      /\ \A j \in Entries : desk'[j].do = desk[j].do /\ desk'[j].phrase = desk[j].phrase
      /\ \A j \in Entries : j # k => desk'[j].at = desk[j].at
  BY EntryMoves
<1>0. desk[k].at \in {"asked", "answered"}
  BY DEF OnDesk
<1>2. \A j \in Entries : /\ OnDesk(j)' <=> OnDesk(j) /\ j # k
                         /\ Answered(j)' <=> Answered(j) /\ j # k
                         /\ Finished(j)' <=> Finished(j) \/ j = k
  BY <1>1 DEF OnDesk, Answered, Finished
<1>3. ~Finished(k) /\ desk[k].do # "none"
  BY <1>0 DEF Finished, DeskInv, DeskEntries
<1>4. DeskTyped'
  BY <1>1 DEF DeskInv, DeskTyped
<1>5. DeskEntries' /\ NotesAreServed'
  <2>1. DeskEntries'
    BY <1>1, <1>3 DEF DeskInv, DeskEntries
  <2> QED BY <1>1, <1>2, <2>1 DEF DeskInv, NotesAreServed
<1>6. NotesCounted'
  <2>0. NotesSeen \in SUBSET Entries /\ notes \subseteq Entries
    BY DEF NotesSeen, DeskInv, DeskTyped
  <2>1. CASE k \in notes
    <3>1. NotesSeen' = NotesSeen \cup {k} /\ k \notin NotesSeen
      BY <1>2, <1>3, <2>0, <2>1 DEF NotesSeen
    <3>2. Cardinality(NotesSeen') = Cardinality(NotesSeen) + 1
      BY <2>0, <3>1, OneMore
    <3> QED BY <2>1, <3>2 DEF DeskInv, NotesCounted
  <2>2. CASE k \notin notes
    <3>1. NotesSeen' = NotesSeen
      BY <1>2, <2>0, <2>2 DEF NotesSeen
    <3>2. noteSaved + unsaid \in Nat
      BY DEF DeskInv, DeskTyped
    <3> QED BY <2>2, <3>1, <3>2 DEF DeskInv, NotesCounted
  <2> QED BY <2>1, <2>2
<1>7. MarksCounted'
  <2>0. MarksSeen \in SUBSET Entries /\ MarksServed \in SUBSET Entries
        /\ MarkEntries' = MarkEntries
    BY <1>1 DEF MarksSeen, MarksServed, MarkEntries
  <2>t. bookmarkCount \in Nat /\ bookmarks \in Nat /\ unstored \in Nat
    BY DEF DeskInv, DeskTyped
  <2>1. CASE desk[k].do # "mark"
    <3>1. MarksSeen' = MarksSeen /\ MarksServed' = MarksServed
      BY <1>2, <2>0, <2>1 DEF MarksSeen, MarksServed, MarkEntries
    <3> QED BY <2>1, <2>t, <3>1 DEF DeskInv, MarksCounted
  <2>2. CASE desk[k].do = "mark"
    <3>0. k \in MarkEntries
      BY <2>2 DEF MarkEntries
    <3>1. MarksSeen' = MarksSeen \cup {k} /\ k \notin MarksSeen
      BY <1>2, <1>3, <2>0, <3>0 DEF MarksSeen, MarkEntries
    <3>2. bookmarkCount' = Cardinality(MarksSeen')
      BY <2>0, <2>2, <3>1, OneMore DEF DeskInv, MarksCounted
    <3>3. CASE Answered(k)
      <4>1. MarksServed' = MarksServed
        BY <1>2, <2>0, <3>0, <3>3 DEF MarksServed, MarkEntries
      <4> QED BY <2>t, <3>2, <3>3, <4>1 DEF DeskInv, MarksCounted
    <3>4. CASE ~Answered(k)
      <4>1. MarksServed' = MarksServed \cup {k} /\ k \notin MarksServed
        BY <1>2, <1>3, <2>0, <3>0, <3>4 DEF MarksServed, MarkEntries
      <4>2. Cardinality(MarksServed') = Cardinality(MarksServed) + 1
            /\ Cardinality(MarksServed) \in Nat
        BY <2>0, <4>1, OneMore, EntriesFinite
      <4> QED BY <2>2, <2>t, <3>2, <3>4, <4>2 DEF DeskInv, MarksCounted
    <3> QED BY <3>3, <3>4
  <2> QED BY <2>1, <2>2
<1>8. InputIsNote'
  BY <1>1, <1>2 DEF DeskInv, InputIsNote
<1>9. OneRename'
  <2> SUFFICES ASSUME ~renamedTwice'
               PROVE  OneRename'
    BY DEF OneRename
  <2>1. \A i, j \in Entries : OnDesk(i)' /\ desk'[i].do = "rename"
                              /\ OnDesk(j)' /\ desk'[j].do = "rename" => i = j
    BY <1>1, <1>2 DEF DeskInv, OneRename
  <2>2. \A j \in Entries : desk'[j].do = "rename" /\ Answered(j)' => micName' = desk'[j].phrase
    BY <1>1, <1>2 DEF DeskInv, OneRename
  <2>3. CASE desk[k].do = "rename"
    BY <2>1, <2>2, <2>3 DEF DeskInv, OneRename
  <2>4. CASE desk[k].do # "rename"
    <3>1. (\A j \in Entries : desk'[j].do = "rename" => ~Answered(j)') =>
            \A j \in Entries : desk[j].do = "rename" => ~Answered(j)
      BY <1>1, <1>2, <2>4
    <3> QED BY <2>1, <2>2, <2>4, <3>1 DEF DeskInv, OneRename
  <2> QED BY <2>3, <2>4
<1> QED BY <1>4, <1>5, <1>6, <1>7, <1>8, <1>9 DEF DeskInv

LEMMA DeskAnswerStep ==
    ASSUME DeskInv, NEW k \in Entries,
           NoteSaved(k) \/ BookmarkCounted(k) \/ MicRenamed(k) \/ EntryFails(k)
    PROVE  DeskInv'
<1>0. /\ note \in Phrases \cup {NoPhrase} /\ noteSaved \in Nat /\ bookmarkCount \in Nat
      /\ micShown \in Phrases /\ deskLost \in 0 .. MaxDeskLost
      /\ unstored \in Nat /\ unsaid \in Nat /\ retyped \in BOOLEAN /\ renamedTwice \in BOOLEAN
  BY DEF DeskInv, DeskTyped
<1>n. /\ desk[k].do = "note" /\ Answered(k) => k \in notes
      /\ k \in notes /\ OnDesk(k) => desk[k].do = "note" /\ Answered(k)
  BY DEF DeskInv, NotesAreServed, Answered, Finished, OnDesk
<1>w. ~retyped => wiped = {}
  BY DEF DeskInv, InputIsNote
<1>1. CASE NoteSaved(k)
  <2>1. /\ desk[k].do = "note" /\ Answered(k) /\ OnDesk(k) /\ EntryGoes(k, "over")
        /\ note' = NoPhrase /\ noteSaved' = noteSaved + 1
        /\ wiped' = (wiped \cup {note}) \ ({NoPhrase} \cup {desk[j].phrase : j \in notes})
        /\ UNCHANGED <<bookmarkCount, micShown, notes, bookmarks, micName, deskLost, unstored,
                       unsaid, retyped, renamedTwice>>
    BY <1>1 DEF NoteSaved, Answered, OnDesk, deskStore
  <2>2. ~retyped => note \in {desk[k].phrase, NoPhrase}
    BY <2>1 DEF DeskInv, InputIsNote
  <2>3. ~retyped => wiped' = {}
    BY <1>n, <1>w, <2>1, <2>2
  <2>4. noteSaved' \in Nat
        /\ noteSaved' + unsaid' = noteSaved + unsaid + (IF k \in notes THEN 1 ELSE 0)
    BY <1>0, <1>n, <2>1
  <2> QED BY <1>0, <2>1, <2>3, <2>4, EntryOver
<1>2. CASE BookmarkCounted(k)
  <2>1. /\ desk[k].do = "mark" /\ OnDesk(k) /\ EntryGoes(k, "over")
        /\ bookmarkCount' = bookmarkCount + 1
        /\ UNCHANGED <<note, noteSaved, micShown, notes, bookmarks, micName, unsaid, retyped,
                       wiped, renamedTwice>>
    BY <1>2 DEF BookmarkCounted, deskStore
  <2>2. unstored' = unstored + (IF ~Answered(k) THEN 1 ELSE 0)
    BY <1>0, <1>2 DEF BookmarkCounted, Answered
  <2>3. deskLost' \in 0 .. MaxDeskLost
    BY <1>0, <1>2, DeskAssumption DEF BookmarkCounted
  <2>4. /\ unstored' \in Nat /\ bookmarkCount' \in Nat
        /\ noteSaved' + unsaid' = noteSaved + unsaid + (IF k \in notes THEN 1 ELSE 0)
    BY <1>0, <1>n, <2>1, <2>2
  <2> QED BY <1>0, <1>w, <2>1, <2>2, <2>3, <2>4, EntryOver
<1>3. CASE MicRenamed(k)
  <2>1. /\ desk[k].do = "rename" /\ OnDesk(k) /\ Answered(k) /\ EntryGoes(k, "over")
        /\ micShown' = desk[k].phrase
        /\ UNCHANGED <<note, noteSaved, bookmarkCount, notes, bookmarks, micName, deskLost,
                       unstored, unsaid, retyped, wiped, renamedTwice>>
    BY <1>3 DEF MicRenamed, Answered, OnDesk, deskStore, deskGhosts
  <2>2. micShown' \in Phrases
    BY <2>1 DEF DeskInv, DeskEntries
  <2>3. noteSaved' + unsaid' = noteSaved + unsaid + (IF k \in notes THEN 1 ELSE 0)
    BY <1>0, <1>n, <2>1
  <2>4. bookmarkCount' = bookmarkCount + 0 /\ unstored' = unstored + 0
    BY <1>0, <2>1
  <2> QED BY <1>0, <1>w, <2>1, <2>2, <2>3, <2>4, EntryOver
<1>4. CASE EntryFails(k)
  <2>1. /\ desk[k].do \in {"note", "rename"} /\ OnDesk(k) /\ EntryGoes(k, "over")
        /\ deskLost < MaxDeskLost /\ deskLost' = deskLost + 1
        /\ renamedTwice' = (renamedTwice \/ desk[k].do = "rename")
        /\ UNCHANGED <<note, noteSaved, bookmarkCount, micShown, notes, bookmarks, micName,
                       unstored, retyped, wiped>>
    BY <1>4 DEF EntryFails, deskView, deskStore
  <2>2. unsaid' = unsaid + (IF desk[k].do = "note" /\ Answered(k) THEN 1 ELSE 0)
    BY <1>0, <1>4 DEF EntryFails, Answered
  <2>3. deskLost' \in 0 .. MaxDeskLost
    BY <1>0, <2>1, DeskAssumption
  <2>4. /\ unsaid' \in Nat
        /\ noteSaved' + unsaid' = noteSaved + unsaid + (IF k \in notes THEN 1 ELSE 0)
    BY <1>0, <1>n, <2>1, <2>2
  <2>5. bookmarkCount' = bookmarkCount + 0 /\ unstored' = unstored + 0
    BY <1>0, <2>1
  <2>6. ~renamedTwice' => ~renamedTwice /\ desk[k].do # "rename"
    BY <2>1
  <2>7. renamedTwice' \in BOOLEAN
    BY <1>0, <2>1
  <2> QED BY <1>0, <1>w, <2>1, <2>3, <2>4, <2>5, <2>6, <2>7, EntryOver
<1> QED BY <1>1, <1>2, <1>3, <1>4

LEMMA DeskInit_Inv == Init => DeskInv
<1> SUFFICES ASSUME Init PROVE DeskInv
  OBVIOUS
<1>1. /\ note = NoPhrase /\ noteSaved = 0 /\ bookmarkCount = 0
      /\ micName \in Phrases /\ micShown = micName
      /\ desk = [k \in Entries |-> NoEntry]
      /\ notes = {} /\ bookmarks = 0 /\ deskLost = 0
      /\ unstored = 0 /\ unsaid = 0 /\ retyped = FALSE /\ wiped = {} /\ renamedTwice = FALSE
  BY DEF Init, DeskInit
<1>2. NoEntry \in DeskRecords /\ NoEntry.at = "idle" /\ NoEntry.do = "none"
  BY DEF NoEntry, DeskRecords
<1>3. DeskTyped
  <2>1. 0 \in 0 .. MaxDeskLost
    BY DeskAssumption
  <2> QED BY <1>1, <1>2, <2>1 DEF DeskTyped
<1>4. DeskEntries /\ NotesAreServed /\ InputIsNote /\ OneRename
  BY <1>1, <1>2 DEF DeskEntries, NotesAreServed, InputIsNote, OneRename, Answered, OnDesk
<1>5. NotesCounted /\ MarksCounted
  <2>1. NotesSeen = {} /\ MarksSeen = {} /\ MarksServed = {}
    BY <1>1, <1>2 DEF NotesSeen, MarksSeen, MarksServed, MarkEntries
  <2> QED BY <1>1, <2>1, FS_EmptySet DEF NotesCounted, MarksCounted
<1> QED BY <1>3, <1>4, <1>5 DEF DeskInv

LEMMA DeskNext_Inv ==
    ASSUME DeskInv, [Next]_vars
    PROVE  DeskInv'
<1>t. note \in Phrases \cup {NoPhrase} /\ renamedTwice \in BOOLEAN
  BY DEF DeskInv, DeskTyped
<1>1. ASSUME NEW k \in Entries, SaveNote(k) PROVE DeskInv'
  BY <1>1, <1>t, AsksStep DEF SaveNote
<1>2. ASSUME NEW k \in Entries, AddBookmark(k) PROVE DeskInv'
  <2>1. NoPhrase \in Phrases \cup {NoPhrase}
    OBVIOUS
  <2> QED BY <1>2, <1>t, <2>1, AsksStep DEF AddBookmark
<1>3. ASSUME NEW k \in Entries, NEW p \in Phrases, RenameMic(k, p) PROVE DeskInv'
  <2>1. /\ Asks(k, "rename", p) /\ UNCHANGED retyped
        /\ renamedTwice' = (renamedTwice \/ SomeOnDesk("rename"))
    BY <1>3 DEF RenameMic
  <2>2. renamedTwice' \in BOOLEAN /\ (~renamedTwice' => ~renamedTwice /\ ~SomeOnDesk("rename"))
    BY <1>t, <2>1 DEF SomeOnDesk
  <2> QED BY <2>1, <2>2, AsksStep
<1>4. ASSUME NEW p \in Phrases, RenamedElsewhere(p) PROVE DeskInv'
  <2>1. /\ micName' = p /\ renamedTwice' = TRUE
        /\ UNCHANGED <<deskView, desk, notes, bookmarks, deskLost, unstored, unsaid, retyped,
                       wiped>>
    BY <1>4 DEF RenamedElsewhere
  <2>2. DeskTyped'
    BY <2>1 DEF DeskInv, DeskTyped, deskView
  <2>3. OneRename'
    BY <2>1 DEF OneRename
  <2>4. DeskEntries' /\ NotesAreServed' /\ InputIsNote'
    BY <2>1 DEF DeskInv, DeskEntries, NotesAreServed, InputIsNote, Answered, Finished, OnDesk,
                deskView
  <2>5. NotesCounted' /\ MarksCounted'
    BY <2>1 DEF DeskInv, NotesCounted, MarksCounted, NotesSeen, MarksSeen, MarksServed,
                MarkEntries, Answered, Finished, deskView
  <2> QED BY <2>2, <2>3, <2>4, <2>5 DEF DeskInv
<1>5. CASE DeskNext
  BY <1>1, <1>2, <1>3, <1>4, <1>5, TypeNoteStep, EntryHandledStep, DeskAnswerStep DEF DeskNext
<1> QED BY <1>5, DeskUnchanged, PageKinds

(* At rest every stored note and every mark is among those that are over. *)
LEMMA DeskInv_Truthful == DeskInv => DeskIsTruthful
<1> SUFFICES ASSUME DeskInv PROVE DeskIsTruthful
  OBVIOUS
<1>1. TypedIsKept
  BY DEF DeskInv, InputIsNote, TypedIsKept
<1>2. ASSUME \A k \in Entries : ~OnDesk(k)
      PROVE  /\ Cardinality(notes) = noteSaved + unsaid
             /\ bookmarkCount = bookmarks + unstored
             /\ micShown = micName \/ renamedTwice
  <2>1. \A k \in Entries : ~Answered(k)
    BY <1>2 DEF OnDesk, Answered
  <2>2. NotesSeen = notes
    BY <2>1 DEF DeskInv, DeskTyped, NotesAreServed, NotesSeen
  <2>3. MarksSeen = MarksServed
    BY <2>1 DEF MarksSeen, MarksServed, MarkEntries
  <2>4. micShown = micName \/ renamedTwice
    BY <2>1 DEF DeskInv, OneRename
  <2> QED BY <2>2, <2>3, <2>4 DEF DeskInv, NotesCounted, MarksCounted
<1>3. CountersAreTrue
  BY <1>2 DEF CountersAreTrue
<1> QED BY <1>1, <1>3 DEF DeskIsTruthful

(* The counters count requests, of which there are MaxDesk. *)
LEMMA DeskInv_Typed == DeskInv => DeskTypeOK
<1> SUFFICES ASSUME DeskInv PROVE DeskTypeOK
  OBVIOUS
<1>1. NotesSeen \in SUBSET Entries /\ MarksSeen \in SUBSET Entries /\ MarksServed \in SUBSET Entries
  BY DEF NotesSeen, MarksSeen, MarksServed, MarkEntries, DeskInv, DeskTyped
<1>2. /\ noteSaved + unsaid <= MaxDesk /\ bookmarkCount <= MaxDesk
      /\ bookmarks + unstored <= MaxDesk
  BY <1>1, EntriesFinite DEF DeskInv, NotesCounted, MarksCounted
<1>3. /\ noteSaved \in 0 .. MaxDesk /\ bookmarkCount \in 0 .. MaxDesk
      /\ bookmarks \in 0 .. MaxDesk
  BY <1>2, DeskAssumption DEF DeskInv, DeskTyped
<1> QED BY <1>3 DEF DeskInv, DeskTyped, DeskTypeOK

-----------------------------------------------------------------------------
(* The list of the documents *)

LEMMA ListUnchanged ==
    ASSUME ListInv, UNCHANGED docVars
    PROVE  ListInv'
  BY DEF ListInv, OneUpload, OneCall, Uploads, Busy, IsServers, Stored, docVars, docPage, docStore

(* A handler goes on.  Its upload starts, goes on or ends with it, and what *)
(* it shows is the server's while nothing is in doubt.                      *)
LEMMA HandlerStep ==
    ASSUME ListInv, NEW k \in Mine,
           \A j \in Mine \ {k} : docCall'[j] = docCall[j],
           \/ (Uploads(k)' <=> Uploads(k)) /\ uploading' = uploading
           \/ ~uploading /\ Uploads(k)' /\ uploading' = TRUE
           \/ Uploads(k) /\ ~Uploads(k)' /\ uploading' = FALSE,
           ~docDoubt' => /\ \A j \in Mine \ {k} : ~Busy(j)
                         /\ ~unlisted' /\ docCall'[k].at = "listed" =>
                              \A list \in docCall'[k].got : IsServers(list)'
                         /\ ~unlisted' /\ ~Busy(k)' => \A list \in pageDocs' : IsServers(list)'
    PROVE  ListInv'
<1>1. \A j \in Mine \ {k} : Busy(j)' = Busy(j) /\ Uploads(j)' = Uploads(j)
  BY DEF Busy, Uploads
<1>2. OneUpload'
  <2> USE DEF ListInv, OneUpload
  <2>1. CASE (Uploads(k)' <=> Uploads(k)) /\ uploading' = uploading
    <3>1. \A j \in Mine : Uploads(j)' <=> Uploads(j)
      BY <1>1, <2>1
    <3> QED BY <2>1, <3>1
  <2>2. CASE ~uploading /\ Uploads(k)' /\ uploading' = TRUE
    <3>1. \A j \in Mine : Uploads(j)' => j = k
      BY <1>1, <2>2
    <3> QED BY <2>2, <3>1
  <2>3. CASE Uploads(k) /\ ~Uploads(k)' /\ uploading' = FALSE
    <3>1. \A j \in Mine : ~Uploads(j)'
      BY <1>1, <2>3
    <3> QED BY <2>3, <3>1
  <2> QED BY <2>1, <2>2, <2>3
<1>3. OneCall'
  <2> SUFFICES ASSUME ~docDoubt'
               PROVE  /\ \A i, j \in Mine : Busy(i)' /\ Busy(j)' => i = j
                      /\ ~unlisted' => \A j \in Mine : docCall'[j].at = "listed" =>
                           \A list \in docCall'[j].got : IsServers(list)'
                      /\ ~unlisted' /\ (\A j \in Mine : ~Busy(j)') =>
                           \A list \in pageDocs' : IsServers(list)'
    BY DEF OneCall
  <2>1. \A j \in Mine : Busy(j)' => j = k
    BY <1>1
  <2>2. \A j \in Mine : docCall'[j].at = "listed" => Busy(j)'
    BY DEF Busy
  <2> QED BY <2>1, <2>2
<1> QED BY <1>2, <1>3 DEF ListInv

(* While nothing is in doubt, who is under way is alone. *)
LEMMA SureIsAlone ==
    ASSUME ListInv, NEW k \in Mine, ~docDoubt, Busy(k)
    PROVE  \A j \in Mine \ {k} : ~Busy(j)
  BY DEF ListInv, OneCall

(* A handler on its way that shows nothing *)
LEMMA OnItsWay ==
    ASSUME ListInv, NEW k \in Mine, Busy(k), Busy(k)', docCall'[k].at # "listed",
           docCall'[k].do = docCall[k].do,
           \A j \in Mine \ {k} : docCall'[j] = docCall[j],
           UNCHANGED <<uploading, docDoubt>>
    PROVE  ListInv'
<1>1. Uploads(k)' <=> Uploads(k)
  BY DEF Uploads
<1> QED BY <1>1, SureIsAlone, HandlerStep

(* What others do keeps the list of the server, or leaves word of itself. *)
LEMMA BesideStep ==
    ASSUME ListInv, \A j \in Mine : docCall'[j] = docCall[j],
           UNCHANGED <<pageDocs, uploading, docDoubt>>,
           unlisted' \/ (unlisted' = unlisted /\ UNCHANGED docRow)
    PROVE  ListInv'
<1>1. \A j \in Mine : Busy(j)' = Busy(j) /\ Uploads(j)' = Uploads(j)
  BY DEF Busy, Uploads
<1>2. OneUpload'
  BY <1>1 DEF ListInv, OneUpload
<1>3. ~unlisted' => ~unlisted /\ \A list : IsServers(list)' = IsServers(list)
  BY DEF IsServers, Stored
<1>4. OneCall'
  BY <1>1, <1>3 DEF ListInv, OneCall
<1> QED BY <1>2, <1>4 DEF ListInv

LEMMA IndexKeepsStored ==
    ASSUME DocInv, NEW d \in Docs,
           \/ IndexBegins(d) \/ IndexStores(d) \/ IndexMarks(d) \/ IndexFails(d) \/ IndexEnds(d)
    PROVE  /\ \A e \in Docs : Stored(e)' = Stored(e)
           /\ UNCHANGED <<docPage, docCall, docDoubt, unlisted>>
<1>1. docRow \in [Docs -> RowStates]
  BY DEF DocInv, DocTyped, DocStoreTyped
<1>2. CASE IndexBegins(d) \/ IndexStores(d) \/ IndexEnds(d)
  BY <1>2 DEF IndexBegins, IndexStores, IndexEnds, Stored
<1>3. CASE IndexMarks(d) \/ IndexFails(d)
  BY <1>1, <1>3 DEF IndexMarks, IndexFails, Marks, Stored
<1> QED BY <1>2, <1>3

LEMMA ListStep ==
    ASSUME DocInv, ListInv, DocumentsNext
    PROVE  ListInv'
<1>0. docCall \in [Calls -> CallRecords]
  BY DEF DocInv, DocTyped, DocPageTyped
<1>m. Mine \subseteq Calls
  BY DocumentsAssumption DEF Mine, Calls
<1>r. \A k \in Calls : docCall[k] \in CallRecords
  BY <1>0
<1>1. ASSUME NEW k \in Mine, NEW what \in {"upload", "remove"}, NEW d, Starts(k, what, d),
             IF what = "upload" THEN ~uploading /\ uploading' = TRUE ELSE UNCHANGED uploading
      PROVE  ListInv'
  <2>1. /\ docCall[k] = NoCall /\ docDoubt' = \E j \in Mine \ {k} : Busy(j)
        /\ docCall' = [docCall EXCEPT ![k] =
                         [NoCall EXCEPT !.do = what, !.at = "asked", !.doc = d]]
    BY <1>1 DEF Starts
  <2>2. /\ docCall'[k].do = what /\ docCall'[k].at = "asked"
        /\ \A j \in Mine \ {k} : docCall'[j] = docCall[j]
    BY <1>0, <1>m, <2>1 DEF NoCall
  <2>3. ~Busy(k) /\ ~Uploads(k) /\ Busy(k)' /\ (Uploads(k)' <=> what = "upload")
    BY <2>1, <2>2 DEF Busy, Uploads, NoCall
  <2> QED BY <1>1, <2>1, <2>2, <2>3, HandlerStep
<1>2. ASSUME NEW k \in Mine, ClickUpload(k) PROVE ListInv'
  BY <1>1, <1>2 DEF ClickUpload, UploadOffered
<1>3. ASSUME NEW k \in Mine, NEW d \in Docs, ClickDelete(k, d) PROVE ListInv'
  BY <1>1, <1>3 DEF ClickDelete
<1>4. ASSUME NEW k \in Mine,
             NEW at \in {"listing", "refused", "answered", "found", "cleared"},
             Busy(k), Goes(k, at), UNCHANGED <<uploading, docDoubt>>
      PROVE  ListInv'
  <2>1. /\ docCall'[k].do = docCall[k].do /\ docCall'[k].at = at
        /\ \A j \in Mine \ {k} : docCall'[j] = docCall[j]
    BY <1>0, <1>m, <1>r, <1>4 DEF Goes, CallRecords
  <2>2. Busy(k)'
    BY <2>1 DEF Busy
  <2> QED BY <1>4, <2>1, <2>2, OnItsWay
<1>5. ASSUME NEW k \in Mine,
             \/ CallAnswered(k) \/ UploadRefused(k) \/ UploadQueued(k)
             \/ RemoveChecked(k) \/ RemoveChunks(k) \/ RemoveRow(k)
      PROVE  ListInv'
  BY <1>4, <1>5 DEF CallAnswered, UploadRefused, UploadQueued, RemoveChecked, RemoveChunks,
                    RemoveRow, Busy, docPage
<1>6. ASSUME NEW k \in Mine, UploadInserted(k) PROVE ListInv'
  <2>1. PICK d \in Docs : docCall' = [docCall EXCEPT ![k].at = "inserted", ![k].doc = d]
    BY <1>6 DEF UploadInserted
  <2>2. /\ docCall'[k].do = docCall[k].do /\ docCall'[k].at = "inserted"
        /\ \A j \in Mine \ {k} : docCall'[j] = docCall[j]
    BY <1>0, <1>m, <1>r, <2>1 DEF CallRecords
  <2>3. Busy(k) /\ Busy(k)' /\ UNCHANGED <<uploading, docDoubt>>
    BY <1>6, <2>2 DEF UploadInserted, Busy, docPage
  <2> QED BY <2>2, <2>3, OnItsWay
<1>7. ASSUME NEW k \in Mine, ListHandled(k) PROVE ListInv'
  <2>1. /\ docCall[k].at = "listing"
        /\ docCall' = [docCall EXCEPT ![k].at = "listed", ![k].got = {DocList}]
        /\ UNCHANGED <<pageDocs, uploading, docRow, docDoubt>>
    BY <1>7 DEF ListHandled, docPage, docStore
  <2>2. /\ docCall'[k].do = docCall[k].do /\ docCall'[k].at = "listed"
        /\ docCall'[k].got = {DocList}
        /\ \A j \in Mine \ {k} : docCall'[j] = docCall[j]
    BY <1>0, <1>m, <1>r, <2>1 DEF CallRecords
  <2>3. Busy(k) /\ Busy(k)' /\ (Uploads(k)' <=> Uploads(k))
    BY <2>1, <2>2 DEF Busy, Uploads
  <2>4. IsServers(DocList)
    BY DEF IsServers, DocList
  <2>5. \A list : IsServers(list)' = IsServers(list)
    BY <2>1 DEF IsServers, Stored
  <2>6. \A list \in docCall'[k].got : IsServers(list)'
    BY <2>2, <2>4, <2>5
  <2> QED BY <2>1, <2>2, <2>3, <2>6, SureIsAlone, HandlerStep
<1>8. ASSUME NEW k \in Mine,
             docCall' = [docCall EXCEPT ![k].at = "over", ![k].got = {}],
             uploading' = (uploading /\ docCall[k].do # "upload"), Busy(k)
      PROVE  /\ \A j \in Mine \ {k} : docCall'[j] = docCall[j]
             /\ docCall'[k].at = "over" /\ ~Busy(k)'
             /\ \/ (Uploads(k)' <=> Uploads(k)) /\ uploading' = uploading
                \/ Uploads(k) /\ ~Uploads(k)' /\ uploading' = FALSE
  <2>1. /\ docCall'[k].do = docCall[k].do /\ docCall'[k].at = "over"
        /\ \A j \in Mine \ {k} : docCall'[j] = docCall[j]
    BY <1>0, <1>m, <1>r, <1>8 DEF CallRecords
  <2>2. ~Busy(k)' /\ ~Uploads(k)'
    BY <2>1 DEF Busy, Uploads
  <2>3. CASE docCall[k].do = "upload"
    BY <1>8, <2>1, <2>2, <2>3 DEF Uploads
  <2>4. CASE docCall[k].do # "upload"
    <3>1. uploading' = uploading
      BY <1>8, <2>4 DEF ListInv, OneUpload
    <3>2. ~Uploads(k)
      BY <2>4 DEF Uploads
    <3> QED BY <2>1, <2>2, <3>1, <3>2
  <2> QED BY <2>3, <2>4
<1>9. ASSUME NEW k \in Mine, ListShown(k) PROVE ListInv'
  <2>1. /\ docCall[k].at = "listed" /\ pageDocs' = docCall[k].got
        /\ uploading' = (uploading /\ docCall[k].do # "upload")
        /\ docCall' = [docCall EXCEPT ![k].at = "over", ![k].got = {}]
        /\ UNCHANGED <<docRow, docDoubt, unlisted>>
    BY <1>9 DEF ListShown, docStore
  <2>2. Busy(k)
    BY <2>1 DEF Busy
  <2>3. \A list : IsServers(list)' = IsServers(list)
    BY <2>1 DEF IsServers, Stored
  <2>4. ~docDoubt /\ ~unlisted => \A list \in pageDocs' : IsServers(list)'
    BY <2>1, <2>3 DEF ListInv, OneCall
  <2>5. /\ \A j \in Mine \ {k} : docCall'[j] = docCall[j]
        /\ docCall'[k].at # "listed"
        /\ \/ (Uploads(k)' <=> Uploads(k)) /\ uploading' = uploading
           \/ Uploads(k) /\ ~Uploads(k)' /\ uploading' = FALSE
    BY <1>8, <2>1, <2>2
  <2> QED BY <2>1, <2>2, <2>4, <2>5, SureIsAlone, HandlerStep
<1>10. ASSUME NEW k \in Mine, CallFails(k) PROVE ListInv'
  <2>1. /\ Busy(k) /\ docDoubt' = TRUE
        /\ uploading' = (uploading /\ docCall[k].do # "upload")
        /\ docCall' = [docCall EXCEPT ![k].at = "over", ![k].got = {}]
    BY <1>10 DEF CallFails, Busy
  <2>2. /\ \A j \in Mine \ {k} : docCall'[j] = docCall[j]
        /\ \/ (Uploads(k)' <=> Uploads(k)) /\ uploading' = uploading
           \/ Uploads(k) /\ ~Uploads(k)' /\ uploading' = FALSE
    BY <1>8, <2>1
  <2> QED BY <2>1, <2>2, HandlerStep
<1>11. CASE IndexMoves
  <2>1. /\ \A e \in Docs : Stored(e)' = Stored(e)
        /\ UNCHANGED <<docPage, docCall, docDoubt, unlisted>>
    BY <1>11, IndexKeepsStored DEF IndexMoves
  <2>2. \A list : IsServers(list)' = IsServers(list)
    BY <2>1 DEF IsServers
  <2> QED BY <2>1, <2>2 DEF ListInv, OneUpload, OneCall, Uploads, Busy, docPage
<1>12. CASE ServerCrashes
  <2>1. UNCHANGED <<pageDocs, uploading, docRow, docDoubt, unlisted>>
    BY <1>12 DEF ServerCrashes, docPage
  <2>2. \A k \in Calls :
          \/ docCall'[k] = docCall[k]
          \/ /\ docCall[k].at \in {"inserted", "found", "cleared"}
             /\ docCall'[k] = [docCall[k] EXCEPT !.at = "broken"]
    BY <1>12 DEF ServerCrashes
  <2>3. \A k \in Calls : /\ docCall'[k].do = docCall[k].do /\ docCall'[k].got = docCall[k].got
                         /\ Busy(k)' = Busy(k)
                         /\ docCall'[k].at = "listed" => docCall[k].at = "listed"
    BY <1>r, <2>2 DEF Busy, CallRecords
  <2>4. \A list : IsServers(list)' = IsServers(list)
    BY <2>1 DEF IsServers, Stored
  <2>5. OneUpload'
    BY <1>m, <2>1, <2>3 DEF ListInv, OneUpload, Uploads
  <2>6. OneCall'
    BY <1>m, <2>1, <2>3, <2>4 DEF ListInv, OneCall
  <2> QED BY <2>5, <2>6 DEF ListInv
<1>13. ASSUME NEW k \in Calls \ Mine,
              \/ AskedElsewhere(k, "upload", 0) \/ \E d \in Docs : AskedElsewhere(k, "remove", d)
              \/ UploadRefused(k) \/ UploadInserted(k) \/ UploadQueued(k)
              \/ RemoveChecked(k) \/ RemoveChunks(k) \/ RemoveRow(k)
       PROVE  ListInv'
  <2>1. \A j \in Mine : docCall'[j] = docCall[j]
    BY <1>0, <1>m, <1>13 DEF AskedElsewhere, UploadRefused, UploadInserted, UploadQueued,
                              RemoveChecked, RemoveChunks, RemoveRow, Goes
  <2>2. UNCHANGED <<pageDocs, uploading, docDoubt>>
    BY <1>13 DEF AskedElsewhere, UploadRefused, UploadInserted, UploadQueued,
                 RemoveChecked, RemoveChunks, RemoveRow, docPage
  <2>3. unlisted' \/ (unlisted' = unlisted /\ UNCHANGED docRow)
    BY <1>13 DEF AskedElsewhere, UploadRefused, UploadInserted, UploadQueued,
                 RemoveChecked, RemoveChunks, RemoveRow, docStore
  <2> QED BY <2>1, <2>2, <2>3, BesideStep
<1> QED BY <1>2, <1>3, <1>5, <1>6, <1>7, <1>9, <1>10, <1>11, <1>12, <1>13
        DEF DocumentsNext, UploadMoves

LEMMA ListInit_Inv == Init => ListInv
<1> SUFFICES ASSUME Init PROVE ListInv
  OBVIOUS
<1>1. /\ pageDocs = {} /\ uploading = FALSE
      /\ docCall = [k \in Calls |-> IF k = 0 THEN Fetching ELSE NoCall]
  BY DEF Init, DocumentsInit
<1>m. Mine \subseteq Calls
  BY DocumentsAssumption DEF Mine, Calls
<1>2. \A k \in Mine : /\ docCall[k].do # "upload" /\ docCall[k].at # "listed"
                      /\ Busy(k) => k = 0
  BY <1>m, <1>1 DEF Busy, Fetching, NoCall
<1> QED BY <1>1, <1>2 DEF ListInv, OneUpload, OneCall, Uploads

LEMMA ListNext_Inv ==
    ASSUME DocInv, ListInv, [Next]_vars
    PROVE  ListInv'
  BY ListStep, ListUnchanged, DocStepKinds

LEMMA ListInv_Listed == ListInv => DocumentsAreListed
  BY DEF ListInv, OneUpload, OneCall, Uploads, IsServers, DocumentsAreListed

(* The rest of the types of the documents *)
LEMMA DocRestStep ==
    ASSUME DocInv, DocRest, DocumentsNext
    PROVE  DocRest'
<1> USE DEF DocRest
<1>h. MaxHarm \in Nat
  BY DocumentsAssumption
<1>1. ASSUME NEW k \in Mine, ClickUpload(k) \/ \E d \in Docs : ClickDelete(k, d)
      PROVE  DocRest'
  BY <1>1 DEF ClickUpload, ClickDelete, Starts, docStore, docGhosts
<1>2. ASSUME NEW k \in Calls,
             \/ AskedElsewhere(k, "upload", 0)
             \/ \E d \in Docs : AskedElsewhere(k, "remove", d)
             \/ CallAnswered(k) \/ ListHandled(k) \/ ListShown(k) \/ UploadRefused(k)
             \/ UploadInserted(k) \/ UploadQueued(k) \/ RemoveChecked(k) \/ RemoveRow(k)
      PROVE  DocRest'
  BY <1>2 DEF AskedElsewhere, CallAnswered, ListHandled, ListShown, UploadRefused,
              UploadInserted, UploadQueued, RemoveChecked, RemoveRow, docPage, docStore, docGhosts
<1>3. ASSUME NEW k \in Calls, CallFails(k) PROVE DocRest'
  <2>1. harm' \in 0 .. MaxHarm
    BY <1>h, <1>3 DEF CallFails
  <2> QED BY <1>3, <2>1 DEF CallFails, docStore, docGhosts
<1>4. ASSUME NEW k \in Calls, RemoveChunks(k) PROVE DocRest'
  BY <1>4 DEF RemoveChunks, docPage, docGhosts
<1>5. ASSUME NEW d \in Docs,
             \/ IndexBegins(d) \/ IndexStores(d) \/ IndexMarks(d) \/ IndexFails(d)
             \/ IndexEnds(d)
      PROVE  DocRest'
  BY <1>5 DEF IndexBegins, IndexStores, IndexMarks, IndexFails, IndexEnds, docPage, docGhosts
<1>6. CASE ServerCrashes
  <2>1. harm' \in 0 .. MaxHarm
    BY <1>h, <1>6 DEF ServerCrashes
  <2>2. \A k \in Calls : docCall[k].at \in {"inserted", "cleared"} => docCall[k].doc \in Docs
    BY DEF DocInv, CallsHold
  <2>3. stranded' \subseteq Docs
    BY <1>6, <2>2 DEF ServerCrashes
  <2>4. torn' \subseteq Docs
    BY <1>6, <2>2 DEF ServerCrashes
  <2> QED BY <1>6, <2>1, <2>3, <2>4 DEF ServerCrashes, docPage
<1>m. Mine \subseteq Calls
  BY DocumentsAssumption DEF Mine, Calls
<1> QED BY <1>m, <1>1, <1>2, <1>3, <1>4, <1>5, <1>6 DEF DocumentsNext, UploadMoves, IndexMoves

LEMMA DocRestInit_Inv == Init => DocRest
<1> SUFFICES ASSUME Init PROVE DocRest
  OBVIOUS
<1>1. DocumentsInit
  BY DEF Init
<1>2. 1 \in Docs /\ 0 \in 0 .. MaxHarm
  BY DocumentsAssumption DEF Docs
<1>3. chunks \subseteq Docs
  BY <1>1, <1>2 DEF DocumentsInit
<1> QED BY <1>1, <1>2, <1>3 DEF DocumentsInit, DocRest

LEMMA DocRestNext_Inv ==
    ASSUME DocInv, DocRest, [Next]_vars
    PROVE  DocRest'
<1>1. CASE UNCHANGED docVars
  BY <1>1 DEF DocRest, docVars, docPage, docStore, docGhosts
<1> QED BY <1>1, DocRestStep, DocStepKinds

LEMMA DocInv_Typed ==
    ASSUME DocInv, ListInv, DocRest
    PROVE  DocumentsTypeOK
<1>1. \A k \in Calls : docCall[k] \in CallRecords
  BY DEF DocInv, DocTyped, DocPageTyped
<1>2. \A k \in Calls : /\ docCall[k].do \in {"none", "load", "upload", "remove"}
                       /\ docCall[k].doc \in 0 .. MaxDocs
  BY <1>1 DEF CallRecords, CallKinds
<1>3. RowStates = (DocStatuses \ {"indexing"}) \cup {"none", "gone"}
  BY DEF RowStates, DocStatuses
<1> QED BY <1>2, <1>3 DEF DocInv, DocTyped, DocPageTyped, ListsTyped, DocStoreTyped, JobStates,
           ListInv, OneUpload, DocRest, DocumentsTypeOK

-----------------------------------------------------------------------------
(* The page of one meeting *)

(* A set of at most MaxLoads loads, or polls *)
Few(S) == IsFiniteSet(S) /\ Cardinality(S) <= MaxLoads

LEMMA FewLess ==
    ASSUME NEW S, Few(S), NEW x
    PROVE  Few(S \ {x})
<1>1. Cardinality(S) \in Nat /\ Cardinality(S \ {x}) \in Nat
  BY FS_CardinalityType, FS_RemoveElement DEF Few
<1>2. IsFiniteSet(S \ {x}) /\ Cardinality(S \ {x}) <= Cardinality(S)
  BY <1>1, FS_RemoveElement DEF Few
<1> QED BY <1>1, <1>2, PageAssumption DEF Few

LEMMA FewMore ==
    ASSUME NEW S, IsFiniteSet(S), Cardinality(S) < MaxLoads, NEW x
    PROVE  Few(S \cup {x})
<1>1. Cardinality(S) \in Nat /\ MaxLoads \in Nat
  BY FS_CardinalityType, PageAssumption
<1>2. /\ IsFiniteSet(S \cup {x})
      /\ Cardinality(S \cup {x}) = Cardinality(S) \/ Cardinality(S \cup {x}) = Cardinality(S) + 1
  BY FS_AddElement
<1>3. Cardinality(S \cup {x}) <= MaxLoads
  BY <1>1, <1>2
<1> QED BY <1>2, <1>3 DEF Few

(* One of them is replaced. *)
LEMMA FewChanged ==
    ASSUME NEW S, Few(S), NEW x \in S, NEW y
    PROVE  Few((S \ {x}) \cup {y})
<1>1. IsFiniteSet(S \ {x}) /\ Cardinality(S \ {x}) = Cardinality(S) - 1
      /\ Cardinality(S) \in Nat
  BY FS_RemoveElement, FS_CardinalityType DEF Few
<1>2. Cardinality(S \ {x}) < MaxLoads
  BY <1>1, PageAssumption DEF Few
<1> QED BY <1>1, <1>2, FewMore

LEMMA AgedFinite ==
    ASSUME NEW S, IsFiniteSet(S)
    PROVE  IsFiniteSet(Aged(S)) /\ Cardinality(Aged(S)) <= Cardinality(S)
<1> DEFINE f == [a \in S |-> [a EXCEPT !.old = TRUE]]
<1>1. f \in Surjection(S, Aged(S))
  BY DEF Aged, Surjection
<1> HIDE DEF f
<1> QED BY <1>1, FS_Surjection

LEMMA AgedTyped ==
    /\ \A S \in SUBSET Loads : Aged(S) \subseteq Loads /\ \A l \in Aged(S) : l.old
    /\ \A S \in SUBSET Polls : Aged(S) \subseteq Polls /\ \A p \in Aged(S) : p.old
    /\ \A S \in SUBSET Edits : Aged(S) \subseteq Edits /\ \A e \in Aged(S) : e.old
<1>1. \A l \in Loads : [l EXCEPT !.old = TRUE] \in Loads /\ [l EXCEPT !.old = TRUE].old
  BY DEF Loads
<1>2. \A p \in Polls : [p EXCEPT !.old = TRUE] \in Polls /\ [p EXCEPT !.old = TRUE].old
  BY DEF Polls
<1>3. \A e \in Edits : [e EXCEPT !.old = TRUE] \in Edits /\ [e EXCEPT !.old = TRUE].old
  BY DEF Edits
<1> QED BY <1>1, <1>2, <1>3 DEF Aged

LEMMA FreshRecords ==
    ASSUME NEW m \in Meetings
    PROVE  /\ Load(m) \in Loads /\ Load(m).of = m /\ Load(m).old = FALSE
           /\ Poll(m) \in Polls /\ Poll(m).of = m /\ Poll(m).old = FALSE
           /\ \A old \in BOOLEAN : /\ [Load(m) EXCEPT !.old = old] \in Loads
                                   /\ [Load(m) EXCEPT !.old = old].of = m
                                   /\ [Load(m) EXCEPT !.old = old].old = old
  BY DEF Load, Poll, Loads, Polls

LEMMA FirstIsMeeting == FirstMeeting \in Meetings /\ FirstMeeting # Nowhere
  BY PageAssumption DEF FirstMeeting

ServerTyped == status \in [Meetings -> Statuses] /\ text \in [Meetings -> Texts]

ViewTyped ==
    /\ url \in Meetings \cup {Nowhere} /\ failed \in BOOLEAN
    /\ ticking \in BOOLEAN /\ crossed \in BOOLEAN
    /\ on \subseteq Views /\ (on = {} \/ \E v \in Views : on = {v})
    /\ moves \in 0 .. MaxMoves /\ lost \in 0 .. MaxLost

InFlightTyped ==
    /\ loads \subseteq Loads /\ polls \subseteq Polls /\ edits \subseteq Edits
    /\ Few(loads) /\ Few(polls)

MeetingHolds ==
    ServerTyped /\ ViewTyped /\ InFlightTyped /\ OldLoads /\ ClosedIsIdle /\ ShownIsRouted

LEMMA MeetingUnchanged ==
    ASSUME MeetingHolds, UNCHANGED meetingVars
    PROVE  MeetingHolds'
  BY DEF MeetingHolds, ServerTyped, ViewTyped, InFlightTyped, Few, OldLoads, ClosedIsIdle,
         ShownIsRouted, meetingVars, pageVars

LEMMA ServerStep ==
    ASSUME MeetingHolds, NEW m \in Meetings,
           RecordingEnds(m) \/ PassWrites(m) \/ PassOver(m)
    PROVE  MeetingHolds'
<1>1. UNCHANGED pageVars
  BY DEF RecordingEnds, PassWrites, PassOver
<1>2. ServerTyped'
  BY DEF RecordingEnds, PassWrites, PassOver, MeetingHolds, ServerTyped, Statuses, Texts
<1> QED BY <1>1, <1>2 DEF MeetingHolds, ViewTyped, InFlightTyped, Few, OldLoads, ClosedIsIdle,
           ShownIsRouted, pageVars

LEMMA OpenPageStep ==
    ASSUME MeetingHolds, OpenPage
    PROVE  MeetingHolds'
<1>1. /\ url = Nowhere /\ url' = FirstMeeting /\ loads' = {Load(FirstMeeting)}
      /\ UNCHANGED <<on, failed, ticking, polls, edits, crossed, moves, lost>>
      /\ on = {} /\ polls = {} /\ edits = {}
  BY DEF OpenPage, MeetingHolds, ClosedIsIdle
<1>2. ServerTyped'
  BY DEF OpenPage, MeetingHolds, ServerTyped, Statuses, Texts
<1>3. ViewTyped'
  BY <1>1, FirstIsMeeting DEF MeetingHolds, ViewTyped
<1>4. InFlightTyped'
  <2>1. Few({Load(FirstMeeting)})
    <3>1. IsFiniteSet({Load(FirstMeeting)}) /\ Cardinality({Load(FirstMeeting)}) = 1
      BY FS_Singleton
    <3>2. 1 <= MaxLoads
      BY PageAssumption
    <3> QED BY <3>1, <3>2 DEF Few
  <2> QED BY <1>1, <2>1, FirstIsMeeting, FreshRecords DEF MeetingHolds, InFlightTyped
<1>5. OldLoads' /\ ClosedIsIdle' /\ ShownIsRouted'
  BY <1>1, FirstIsMeeting, FreshRecords DEF OldLoads, ClosedIsIdle, ShownIsRouted
<1> QED BY <1>2, <1>3, <1>4, <1>5 DEF MeetingHolds

LEMMA MovePageStep ==
    ASSUME MeetingHolds, NEW m \in Meetings, MovePage(m)
    PROVE  MeetingHolds'
<1>1. /\ url' = m /\ moves < MaxMoves /\ moves' = moves + 1
      /\ loads' = Aged(loads) \cup {Load(m)} /\ polls' = Aged(polls) /\ edits' = Aged(edits)
      /\ ticking' = Processing(on) /\ Cardinality(loads) < MaxLoads
      /\ UNCHANGED <<on, failed, crossed, lost, status, text>>
      /\ m # Nowhere
  BY PageAssumption DEF MovePage
<1>2. ServerTyped'
  BY <1>1 DEF MeetingHolds, ServerTyped
<1>3. ViewTyped'
  <2>1. moves' \in 0 .. MaxMoves
    BY <1>1, PageAssumption DEF MeetingHolds, ViewTyped
  <2>2. ticking' \in BOOLEAN
    BY <1>1 DEF Processing
  <2> QED BY <1>1, <2>1, <2>2 DEF MeetingHolds, ViewTyped
<1>4. /\ loads \in SUBSET Loads /\ polls \in SUBSET Polls /\ edits \in SUBSET Edits
      /\ Few(loads) /\ Few(polls)
  BY DEF MeetingHolds, InFlightTyped
<1>5. InFlightTyped'
  <2>1. loads' \subseteq Loads /\ polls' \subseteq Polls /\ edits' \subseteq Edits
    BY <1>1, <1>4, AgedTyped, FreshRecords
  <2>2. Few(loads')
    <3>1. /\ IsFiniteSet(Aged(loads)) /\ Cardinality(Aged(loads)) <= Cardinality(loads)
          /\ Cardinality(loads) \in Nat
      BY <1>4, AgedFinite, FS_CardinalityType DEF Few
    <3>2. Cardinality(Aged(loads)) \in Nat
      BY <3>1, FS_CardinalityType
    <3>3. Cardinality(Aged(loads)) < MaxLoads
      BY <1>1, <3>1, <3>2, PageAssumption
    <3> QED BY <1>1, <3>1, <3>3, FewMore
  <2>3. Few(polls')
    <3>1. /\ IsFiniteSet(Aged(polls)) /\ Cardinality(Aged(polls)) <= Cardinality(polls)
          /\ Cardinality(polls) \in Nat
      BY <1>4, AgedFinite, FS_CardinalityType DEF Few
    <3>2. Cardinality(Aged(polls)) \in Nat
      BY <3>1, FS_CardinalityType
    <3> QED BY <1>1, <1>4, <3>1, <3>2, PageAssumption DEF Few
  <2> QED BY <2>1, <2>2, <2>3 DEF InFlightTyped
<1>6. OldLoads'
  BY <1>1, <1>4, AgedTyped, FreshRecords DEF OldLoads
<1>7. ClosedIsIdle' /\ ShownIsRouted'
  BY <1>1, FreshRecords DEF ClosedIsIdle, ShownIsRouted
<1> QED BY <1>2, <1>3, <1>5, <1>6, <1>7 DEF MeetingHolds

LEMMA ClosePageStep ==
    ASSUME ClosePage
    PROVE  MeetingHolds'
<1>1. ServerTyped'
  BY DEF ClosePage, ServerTyped, Statuses, Texts
<1>2. ViewTyped'
  <2>1. 0 \in 0 .. MaxMoves /\ 0 \in 0 .. MaxLost
    BY PageAssumption
  <2>2. Nowhere \in Meetings \cup {Nowhere} /\ {} \in SUBSET Views
    OBVIOUS
  <2> QED BY <2>1, <2>2 DEF ClosePage, ViewTyped
<1>3. InFlightTyped'
  BY FS_EmptySet, PageAssumption DEF ClosePage, InFlightTyped, Few
<1>4. OldLoads' /\ ClosedIsIdle' /\ ShownIsRouted'
  BY DEF ClosePage, OldLoads, ClosedIsIdle, ShownIsRouted
<1> QED BY <1>1, <1>2, <1>3, <1>4 DEF MeetingHolds

(* A load gets one of its halves from the server. *)
LEMMA LoadStepStep ==
    ASSUME MeetingHolds, NEW l \in loads, LoadStep(l)
    PROVE  MeetingHolds'
<1>1. UNCHANGED <<url, on, failed, ticking, polls, edits, crossed, moves, lost, status, text>>
  BY DEF LoadStep
<1>2. l \in Loads /\ Few(loads) /\ loads \subseteq Loads /\ ServerTyped
  BY DEF MeetingHolds, InFlightTyped
<1>3. PICK n \in Loads : /\ n.of = l.of /\ n.old = l.old
                         /\ loads' = (loads \ {l}) \cup {n}
  <2>1. status[l.of] \in Statuses /\ text[l.of] \in Texts
    BY <1>2 DEF Loads, ServerTyped
  <2>2. CASE loads' = (loads \ {l}) \cup {[l EXCEPT !.status = status[l.of]]}
    <3>1. [l EXCEPT !.status = status[l.of]] \in Loads
      BY <1>2, <2>1 DEF Loads
    <3>2. [l EXCEPT !.status = status[l.of]].of = l.of
          /\ [l EXCEPT !.status = status[l.of]].old = l.old
      BY <1>2 DEF Loads
    <3> QED BY <2>2, <3>1, <3>2
  <2>3. CASE loads' = (loads \ {l}) \cup {[l EXCEPT !.text = text[l.of]]}
    <3>1. [l EXCEPT !.text = text[l.of]] \in Loads
      BY <1>2, <2>1 DEF Loads
    <3>2. [l EXCEPT !.text = text[l.of]].of = l.of
          /\ [l EXCEPT !.text = text[l.of]].old = l.old
      BY <1>2 DEF Loads
    <3> QED BY <2>3, <3>1, <3>2
  <2> QED BY <2>2, <2>3 DEF LoadStep
<1>4. Few(loads') /\ loads' \subseteq Loads
  BY <1>2, <1>3, FewChanged
<1>5. InFlightTyped'
  BY <1>1, <1>4 DEF MeetingHolds, InFlightTyped
<1>6. ServerTyped' /\ ViewTyped'
  BY <1>1 DEF MeetingHolds, ServerTyped, ViewTyped
<1>7. OldLoads' /\ ClosedIsIdle'
  BY <1>1, <1>3 DEF MeetingHolds, OldLoads, ClosedIsIdle
<1>8. ShownIsRouted'
  <2>1. \A x \in loads : \E y \in loads' : y.of = x.of
    BY <1>3
  <2> QED BY <1>1, <2>1 DEF MeetingHolds, ShownIsRouted
<1> QED BY <1>5, <1>6, <1>7, <1>8 DEF MeetingHolds

LEMMA LoadEndStep ==
    ASSUME MeetingHolds, NEW l \in loads, LoadShown(l) \/ LoadFailed(l)
    PROVE  MeetingHolds'
<1>1. loads' = loads \ {l} /\ UNCHANGED <<url, polls, edits, moves, status, text>>
  BY DEF LoadShown, LoadFailed
<1>2. InFlightTyped'
  BY <1>1, FewLess DEF MeetingHolds, InFlightTyped
<1>3. ServerTyped' /\ OldLoads'
  BY <1>1 DEF MeetingHolds, ServerTyped, OldLoads
<1>4. CASE LoadShown(l)
  <2>1. /\ l.status # "asked" /\ l.text # "asked" /\ on' = {View(l)} /\ crossed' = l.old
        /\ ticking' = IF \E v \in on : v.status = l.status THEN ticking
                      ELSE l.status = "processing"
        /\ UNCHANGED <<failed, lost>>
    BY <1>4 DEF LoadShown
  <2>2. l \in Loads
    BY DEF MeetingHolds, InFlightTyped
  <2>3. View(l) \in Views
    BY <2>1, <2>2 DEF View, Views, Loads
  <2>4. ticking' \in BOOLEAN /\ crossed' \in BOOLEAN
    BY <2>1, <2>2 DEF MeetingHolds, ViewTyped, Loads
  <2>5. ViewTyped'
    <3>1. on' \subseteq Views /\ \E v \in Views : on' = {v}
      BY <2>1, <2>3
    <3> QED BY <1>1, <2>1, <2>4, <3>1 DEF MeetingHolds, ViewTyped
  <2>6. ShownIsRouted'
    <3>1. l.of # url => l.old
      BY DEF MeetingHolds, OldLoads
    <3>2. \A v \in on' : v.of = l.of /\ v.said = l.of /\ v.noted = l.of
      BY <2>1 DEF View
    <3> QED BY <1>1, <2>1, <3>1, <3>2 DEF ShownIsRouted
  <2>7. ClosedIsIdle'
    BY <1>1 DEF MeetingHolds, ClosedIsIdle
  <2> QED BY <1>2, <1>3, <2>5, <2>6, <2>7 DEF MeetingHolds
<1>5. CASE LoadFailed(l)
  <2>1. /\ lost < MaxLost /\ lost' = lost + 1 /\ failed' = TRUE
        /\ UNCHANGED <<on, ticking, crossed>>
    BY <1>5 DEF LoadFailed
  <2>2. lost' \in 0 .. MaxLost
    BY <2>1, PageAssumption DEF MeetingHolds, ViewTyped
  <2>3. ViewTyped'
    BY <1>1, <2>1, <2>2 DEF MeetingHolds, ViewTyped
  <2>4. ShownIsRouted' /\ ClosedIsIdle'
    BY <1>1, <2>1 DEF MeetingHolds, ShownIsRouted, ClosedIsIdle
  <2> QED BY <1>2, <1>3, <2>3, <2>4 DEF MeetingHolds
<1> QED BY <1>4, <1>5

LEMMA TickStep ==
    ASSUME MeetingHolds, Tick
    PROVE  MeetingHolds'
<1>1. /\ ticking /\ Cardinality(polls) < MaxLoads /\ polls' = polls \cup {Poll(url)}
      /\ UNCHANGED <<url, on, failed, ticking, loads, edits, crossed, moves, lost, status, text>>
  BY DEF Tick
<1>2. url \in Meetings /\ url # Nowhere
  BY <1>1, PageAssumption DEF MeetingHolds, ViewTyped, ClosedIsIdle
<1>3. InFlightTyped'
  BY <1>1, <1>2, FewMore, FreshRecords DEF MeetingHolds, InFlightTyped, Few
<1>4. OldLoads'
  BY <1>1, <1>2, FreshRecords DEF MeetingHolds, OldLoads
<1>5. ServerTyped' /\ ViewTyped' /\ ClosedIsIdle' /\ ShownIsRouted'
  BY <1>1, <1>2 DEF MeetingHolds, ServerTyped, ViewTyped, ClosedIsIdle, ShownIsRouted
<1> QED BY <1>3, <1>4, <1>5 DEF MeetingHolds

LEMMA PollStep ==
    ASSUME MeetingHolds, NEW p \in polls, PollHandled(p) \/ PollShown(p) \/ PollLost(p)
    PROVE  MeetingHolds'
<1>0. /\ UNCHANGED <<url, on, failed, edits, crossed, moves, status, text>>
      /\ url # Nowhere /\ edits \subseteq Edits /\ p \in Polls /\ Few(polls) /\ polls \subseteq Polls
      /\ Few(loads) /\ loads \subseteq Loads
  BY DEF PollHandled, PollShown, PollLost, MeetingHolds, ClosedIsIdle, InFlightTyped
<1>t. ServerTyped' /\ ClosedIsIdle'
  BY <1>0 DEF MeetingHolds, ServerTyped, ClosedIsIdle
<1>1. CASE PollHandled(p)
  <2>1. /\ polls' = (polls \ {p}) \cup {[p EXCEPT !.status = status[p.of]]}
        /\ UNCHANGED <<ticking, loads, lost>>
    BY <1>1 DEF PollHandled
  <2>2. /\ [p EXCEPT !.status = status[p.of]] \in Polls
        /\ [p EXCEPT !.status = status[p.of]].of = p.of
        /\ [p EXCEPT !.status = status[p.of]].old = p.old
    <3>1. status[p.of] \in Statuses
      BY <1>0 DEF Polls, MeetingHolds, ServerTyped
    <3> QED BY <1>0, <3>1 DEF Polls
  <2>3. Few(polls') /\ polls' \subseteq Polls
    BY <1>0, <2>1, <2>2, FewChanged
  <2>4. InFlightTyped' /\ OldLoads'
    BY <1>0, <2>1, <2>2, <2>3 DEF MeetingHolds, InFlightTyped, OldLoads
  <2>5. ViewTyped' /\ ShownIsRouted'
    BY <1>0, <2>1 DEF MeetingHolds, ViewTyped, ShownIsRouted
  <2> QED BY <1>t, <2>4, <2>5 DEF MeetingHolds
<1>2. CASE PollShown(p)
  <2>1. polls' = polls \ {p} /\ UNCHANGED lost
    BY <1>2 DEF PollShown
  <2>2. Few(polls') /\ polls' \subseteq Polls
    BY <1>0, <2>1, FewLess
  <2>3. CASE UNCHANGED <<ticking, loads>>
    BY <1>0, <1>t, <2>1, <2>2, <2>3
       DEF MeetingHolds, ViewTyped, InFlightTyped, OldLoads, ShownIsRouted
  <2>4. CASE /\ Cardinality(loads) < MaxLoads
             /\ ticking' = (ticking /\ p.old)
             /\ loads' = loads \cup {[Load(p.of) EXCEPT !.old = p.old]}
    <3>1. /\ p.of \in Meetings /\ p.old \in BOOLEAN
      BY <1>0 DEF Polls
    <3>2. /\ [Load(p.of) EXCEPT !.old = p.old] \in Loads
          /\ [Load(p.of) EXCEPT !.old = p.old].of = p.of
          /\ [Load(p.of) EXCEPT !.old = p.old].old = p.old
      BY <3>1, FreshRecords
    <3>3. Few(loads') /\ loads' \subseteq Loads
      BY <1>0, <2>4, <3>2, FewMore DEF Few
    <3>4. InFlightTyped'
      BY <1>0, <2>2, <3>3 DEF InFlightTyped
    <3>5. OldLoads'
      BY <1>0, <2>1, <2>4, <3>2 DEF MeetingHolds, OldLoads
    <3>6. ViewTyped'
      BY <1>0, <2>1, <2>4, <3>1 DEF MeetingHolds, ViewTyped
    <3>7. ShownIsRouted'
      BY <1>0, <2>4 DEF MeetingHolds, ShownIsRouted
    <3> QED BY <1>t, <3>4, <3>5, <3>6, <3>7 DEF MeetingHolds
  <2> QED BY <1>2, <2>3, <2>4 DEF PollShown
<1>3. CASE PollLost(p)
  <2>1. /\ lost < MaxLost /\ lost' = lost + 1 /\ polls' = polls \ {p}
        /\ UNCHANGED <<ticking, loads>>
    BY <1>3 DEF PollLost
  <2>2. lost' \in 0 .. MaxLost
    BY <2>1, PageAssumption DEF MeetingHolds, ViewTyped
  <2>3. Few(polls') /\ polls' \subseteq Polls
    BY <1>0, <2>1, FewLess
  <2> QED BY <1>0, <1>t, <2>1, <2>2, <2>3
         DEF MeetingHolds, ViewTyped, InFlightTyped, OldLoads, ShownIsRouted
<1> QED BY <1>1, <1>2, <1>3

(* Who edits has a meeting in the URL. *)
LEMMA ClickEditStep ==
    ASSUME MeetingHolds, NEW what \in {"name", "note"}, ClickEdit(what)
    PROVE  MeetingHolds'
<1>1. /\ on # {} /\ edits' = edits \cup {Edit(url, what)}
      /\ UNCHANGED <<url, on, failed, ticking, loads, polls, crossed, moves, lost, status, text>>
  BY DEF ClickEdit
<1>2. url \in Meetings /\ url # Nowhere
  BY <1>1, PageAssumption DEF MeetingHolds, ViewTyped, ClosedIsIdle
<1>3. Edit(url, what) \in Edits /\ Edit(url, what).of = url
  BY <1>2 DEF Edit, Edits
<1>4. InFlightTyped'
  BY <1>1, <1>3 DEF MeetingHolds, InFlightTyped, Few
<1>5. OldLoads'
  BY <1>1, <1>3 DEF MeetingHolds, OldLoads
<1>6. ServerTyped' /\ ViewTyped' /\ ClosedIsIdle' /\ ShownIsRouted'
  BY <1>1, <1>2 DEF MeetingHolds, ServerTyped, ViewTyped, ClosedIsIdle, ShownIsRouted
<1> QED BY <1>4, <1>5, <1>6 DEF MeetingHolds

(* The answer of an edit from before the URL changed crosses the view; one  *)
(* of the meeting of the URL leaves a view of that meeting as it is.        *)
LEMMA EditStep ==
    ASSUME MeetingHolds, NEW e \in edits, EditHandled(e) \/ EditShown(e) \/ EditFails(e)
    PROVE  MeetingHolds'
<1>0. /\ UNCHANGED <<url, failed, ticking, loads, polls, moves, lost, status, text>>
      /\ e \in Edits /\ edits \subseteq Edits /\ url # Nowhere
      /\ e.of # url => e.old
  BY DEF EditHandled, EditShown, EditFails, MeetingHolds, InFlightTyped, ClosedIsIdle, OldLoads
<1>t. ServerTyped' /\ ClosedIsIdle'
  BY <1>0 DEF MeetingHolds, ServerTyped, ClosedIsIdle
<1>1. CASE EditHandled(e)
  <2>1. /\ edits' = (edits \ {e}) \cup {[e EXCEPT !.text = text[e.of]]}
        /\ UNCHANGED <<on, crossed>>
    BY <1>1 DEF EditHandled
  <2>2. /\ [e EXCEPT !.text = text[e.of]] \in Edits
        /\ [e EXCEPT !.text = text[e.of]].of = e.of
        /\ [e EXCEPT !.text = text[e.of]].old = e.old
    <3>1. text[e.of] \in Texts
      BY <1>0 DEF Edits, MeetingHolds, ServerTyped
    <3> QED BY <1>0, <3>1 DEF Edits
  <2>3. InFlightTyped' /\ OldLoads'
    BY <1>0, <2>1, <2>2 DEF MeetingHolds, InFlightTyped, Few, OldLoads
  <2>4. ViewTyped' /\ ShownIsRouted'
    BY <1>0, <2>1 DEF MeetingHolds, ViewTyped, ShownIsRouted
  <2> QED BY <1>t, <2>3, <2>4 DEF MeetingHolds
<1>2. CASE EditFails(e)
  <2>1. edits' = edits \ {e} /\ UNCHANGED <<on, crossed>>
    BY <1>2 DEF EditFails
  <2> QED BY <1>0, <1>t, <2>1
          DEF MeetingHolds, InFlightTyped, Few, OldLoads, ViewTyped, ShownIsRouted
<1>3. CASE EditShown(e)
  <2> DEFINE N(v) == IF e.what = "name" THEN [v EXCEPT !.said = e.of, !.text = e.text]
                     ELSE [v EXCEPT !.noted = e.of]
  <2>1. /\ e.text # "asked" /\ edits' = edits \ {e} /\ crossed' = (crossed \/ e.old)
        /\ on' = {N(v) : v \in on}
    BY <1>3 DEF EditShown
  <2>2. \A v \in Views : /\ N(v) \in Views /\ N(v).of = v.of
                         /\ N(v).said \in {v.said, e.of} /\ N(v).noted \in {v.noted, e.of}
    BY <1>0, <2>1 DEF Views, Edits
  <2> HIDE DEF N
  <2>3. on \subseteq Views /\ (on = {} \/ \E v \in Views : on = {v})
    BY DEF MeetingHolds, ViewTyped
  <2>4. on' \subseteq Views /\ (on' = {} \/ \E v \in Views : on' = {v})
    <3>1. CASE on = {}
      BY <2>1, <3>1
    <3>2. ASSUME NEW v \in Views, on = {v} PROVE on' = {N(v)}
      BY <2>1, <3>2
    <3> QED BY <2>2, <2>3, <3>1, <3>2
  <2>5. crossed' \in BOOLEAN
    BY <1>0, <2>1 DEF MeetingHolds, ViewTyped, Edits
  <2>6. ViewTyped'
    BY <1>0, <2>4, <2>5 DEF MeetingHolds, ViewTyped
  <2>7. InFlightTyped' /\ OldLoads'
    BY <1>0, <2>1 DEF MeetingHolds, InFlightTyped, Few, OldLoads
  <2>8. ShownIsRouted'
    <3> SUFFICES ASSUME NEW v \in on, {N(v).of, N(v).said, N(v).noted} # {url}
                 PROVE  failed \/ crossed \/ e.old \/ \E l \in loads : l.of = url
      BY <1>0, <2>1 DEF ShownIsRouted
    <3>1. e.of # url \/ {v.of, v.said, v.noted} # {url}
      BY <2>2, <2>3
    <3> QED BY <1>0, <3>1 DEF MeetingHolds, ShownIsRouted
  <2> QED BY <1>t, <2>6, <2>7, <2>8 DEF MeetingHolds
<1> QED BY <1>1, <1>2, <1>3

LEMMA MeetingInit_Inv == Init => MeetingHolds
<1> SUFFICES ASSUME Init PROVE MeetingHolds
  OBVIOUS
<1>0. PageClosed
  BY DEF Init
<1>1. ServerTyped
  BY <1>0 DEF PageClosed, ServerTyped, Statuses, Texts
<1>2. ViewTyped
  <2>1. 0 \in 0 .. MaxMoves /\ 0 \in 0 .. MaxLost
    BY PageAssumption
  <2>2. Nowhere \in Meetings \cup {Nowhere} /\ {} \in SUBSET Views
    OBVIOUS
  <2> QED BY <1>0, <2>1, <2>2 DEF PageClosed, ViewTyped
<1>3. InFlightTyped
  BY <1>0, FS_EmptySet, PageAssumption DEF PageClosed, InFlightTyped, Few
<1>4. OldLoads /\ ClosedIsIdle /\ ShownIsRouted
  BY <1>0 DEF PageClosed, OldLoads, ClosedIsIdle, ShownIsRouted
<1> QED BY <1>1, <1>2, <1>3, <1>4 DEF MeetingHolds

LEMMA MeetingNext_Inv ==
    ASSUME MeetingHolds, [Next]_vars
    PROVE  MeetingHolds'
<1>1. CASE MeetingNext
  BY <1>1, ServerStep, OpenPageStep, MovePageStep, ClosePageStep, LoadStepStep, LoadEndStep,
     TickStep, PollStep, ClickEditStep, EditStep
     DEF MeetingNext, LoadMoves, LoadEnds, PollMoves, PollEnds
<1> QED BY <1>1, MeetingUnchanged, PageKinds

LEMMA MeetingHolds_Typed == MeetingHolds => MeetingTypeOK
<1> SUFFICES ASSUME MeetingHolds PROVE MeetingTypeOK
  OBVIOUS
<1>1. Cardinality(on) <= 1
  <2>1. CASE on = {}
    BY <2>1, FS_EmptySet
  <2>2. CASE \E v \in Views : on = {v}
    BY <2>2, FS_Singleton
  <2> QED BY <2>1, <2>2 DEF MeetingHolds, ViewTyped
<1> QED BY <1>1 DEF MeetingHolds, ServerTyped, ViewTyped, InFlightTyped, Few, MeetingTypeOK

-----------------------------------------------------------------------------
(* The management page *)

(* The page is left alone, or it steps, or the settings change under it.    *)
LEMMA AdminStepKinds ==
    ASSUME [Next]_vars
    PROVE  \/ AdminNext
           \/ UNCHANGED <<settingVars, adminVars>>
           \/ /\ doubt' = (doubt \/ open)
              /\ UNCHANGED <<adminView, click, stores, done, patched>>
<1> USE DEF otherVars, cloudVars
<1>1. CASE AtDashboard
  BY <1>1, ConsentReadsSettings DEF AtDashboard
<1>2. CASE AtAdmin
  BY <1>2 DEF AtAdmin
<1>3. CASE Elsewhere
  BY <1>3 DEF Elsewhere
<1>4. CASE AtSignIn \/ AtMeeting(MeetingNext)
  BY <1>4 DEF AtSignIn, AtMeeting
<1>5. CASE AtDocuments(DocumentsNext) \/ AtSearch \/ AtTasks \/ AtRecording
  BY <1>5 DEF AtDocuments, AtSearch, AtTasks, AtRecording
<1>6. CASE UNCHANGED vars
  BY <1>6 DEF vars
<1> QED BY <1>1, <1>2, <1>3, <1>4, <1>5, <1>6 DEF Next

(* While nothing is in doubt, a handler in flight is the only one, and so   *)
(* is one that begins where there is none.                                  *)
LEMMA NoneBeside ==
    ASSUME AdminInv, ~doubt, NEW k \in Clicks, InFlight(k) \/ Alone(k)
    PROVE  /\ Alone(k) /\ ShownOrOwed(k)
           /\ \A j \in Clicks \ {k} : ~Carries(j)
<1>1. PICK w \in Clicks : Alone(w) /\ ShownOrOwed(w)
  BY DEF AdminInv, AtMostOne
<1>2. Alone(k)
  BY <1>1 DEF Alone
<1>3. CASE w = k
  BY <1>1, <1>2, <1>3 DEF Alone, AdminInv, RecordFits
<1>4. CASE w # k
  <2>1. ~InFlight(w)
    BY <1>2, <1>4 DEF Alone
  <2>2. ~OwesSettings(w) /\ ~OwesUsers(w) /\ ~OwesMode(w)
    BY <2>1 DEF InFlight, AdminInv, RecordFits, OwesSettings, OwesUsers, OwesMode, Acted
  <2>3. ShownOrOwed(k)
    BY <1>1, <2>2 DEF ShownOrOwed
  <2> QED BY <1>2, <2>3 DEF Alone, AdminInv, RecordFits
<1> QED BY <1>3, <1>4

(* What has to be shown of a step of one handler *)
LEMMA OneHandlerStep ==
    ASSUME AdminInv, NEW k \in Clicks, AdminRest', open',
           \A j \in Clicks \ {k} : click'[j] = click[j],
           RecordFits(k)', NoticeIsTrue',
           click'[k].at \in Acted => k \in done',
           done \subseteq done', shown # {} => shown' # {},
           click'[k].do \in {"none", "load"} \/ shown' # {},
           ~doubt' => /\ Alone(k) /\ ShownOrOwed(k)' /\ CarriesNow(k)'
                      /\ \A j \in Clicks \ {k} : ~Carries(j)
    PROVE  AdminInv'
<1>1. (\A j \in Clicks : RecordFits(j))'
  BY DEF AdminInv, RecordFits, InFlight, Carries
<1>2. AnsweredIsDone'
  BY DEF AdminInv, AnsweredIsDone
<1>3. ClosedAdmin' /\ ShownFirst'
  BY DEF ClosedAdmin, AdminInv, ShownFirst
<1>4. ASSUME ~doubt' PROVE (\E j \in Clicks : Alone(j) /\ ShownOrOwed(j))'
  <2>1. Alone(k)'
    BY <1>4 DEF Alone, InFlight
  <2> QED BY <1>4, <2>1
<1>5. ASSUME ~doubt', NEW j \in Clicks PROVE CarriesNow(j)'
  <2>1. CASE j # k
    BY <1>5, <2>1 DEF CarriesNow, Carries
  <2> QED BY <1>5, <2>1
<1> QED BY <1>1, <1>2, <1>3, <1>4, <1>5 DEF AdminInv, AtMostOne

(* The clicks *)

LEMMA BeginClick ==
    ASSUME ClicksTyped, AdminInv, NEW k \in Clicks, Ready(k),
           NEW what \in Dos \ {"none", "load"}, NEW arg \in Args, Begin(k, what, arg),
           AdminRest', NoticeIsTrue'
    PROVE  AdminInv'
<1>1. /\ open' = open /\ open /\ click[k] = Idle /\ shown # {}
      /\ UNCHANGED <<shown, shownMode, listed, member, done, patched>>
      /\ doubt' = (doubt \/ ~Alone(k))
      /\ SettingsOut' = SettingsOut /\ ServerMode' = ServerMode
  BY DEF Ready, Begin, tables, stores, cloudVars, settingVars, SettingsOut, ServerMode
<1>2. /\ \A j \in Clicks \ {k} : click'[j] = click[j]
      /\ click'[k] = [Idle EXCEPT !.do = what, !.at = "asked", !.arg = arg]
  BY DEF Begin, ClicksTyped
<1>3. /\ click'[k].do = what /\ click'[k].at = "asked"
      /\ click'[k].got = {} /\ click'[k].users = {} /\ click'[k].mode = {}
  BY <1>2 DEF Idle
<1>4. RecordFits(k)' /\ CarriesNow(k)'
  BY <1>3 DEF RecordFits, CarriesNow, Carries, InFlight
<1>5. ~doubt' => /\ Alone(k) /\ ShownOrOwed(k)'
                 /\ \A j \in Clicks \ {k} : ~Carries(j)
  <2> SUFFICES ASSUME ~doubt' PROVE /\ Alone(k) /\ ShownOrOwed(k)'
                                    /\ \A j \in Clicks \ {k} : ~Carries(j)
    OBVIOUS
  <2>1. Alone(k) /\ ShownOrOwed(k) /\ \A j \in Clicks \ {k} : ~Carries(j)
    BY <1>1, NoneBeside
  <2>2. ~OwesSettings(k) /\ ~OwesUsers(k) /\ ~OwesMode(k)
    BY <1>1 DEF Idle, OwesSettings, OwesUsers, OwesMode, PatchClicks
  <2> QED BY <1>1, <2>1, <2>2 DEF ShownOrOwed
<1> QED BY <1>1, <1>2, <1>3, <1>4, <1>5, OneHandlerStep DEF Acted

LEMMA LoadBegins ==
    ASSUME AdminInv, NEW k \in Clicks, AdminRest', open',
           \A j \in Clicks \ {k} : click'[j] = click[j], click'[k] = Loading,
           NoticeIsTrue', done' = done, shown' = shown,
           ~doubt' => Alone(k)
    PROVE  AdminInv'
<1>1. /\ click'[k].do = "load" /\ click'[k].at = "asked"
      /\ click'[k].got = {} /\ click'[k].users = {} /\ click'[k].mode = {}
  BY DEF Loading, Idle
<1>2. RecordFits(k)' /\ CarriesNow(k)' /\ ShownOrOwed(k)'
  BY <1>1 DEF RecordFits, CarriesNow, Carries, InFlight, ShownOrOwed, OwesSettings, OwesUsers,
     OwesMode, PatchClicks
<1>3. Alone(k) => \A j \in Clicks \ {k} : ~Carries(j)
  BY DEF Alone, AdminInv, RecordFits
<1> QED BY <1>1, <1>2, <1>3, OneHandlerStep DEF Acted

LEMMA ClicksStep ==
    ASSUME ClicksTyped, AdminInv, NEW k \in Clicks,
           \/ \E p \in Profiles : ClickProfile(k, p)
           \/ \E key \in Keys, value \in BOOLEAN : ClickKey(k, key, value)
           \/ \E m \in Modes : ClickMode(k, m)
           \/ ClickBackup(k) \/ ClickUser(k) \/ ClickRemove(k) \/ Reload(k)
    PROVE  AdminInv'
<1>0. 0 \in Clicks
  BY ClicksAssumption DEF Clicks
<1>1. AdminRest' /\ NoticeIsTrue'
  <2>1. /\ open' \in BOOLEAN /\ UNCHANGED <<shown, shownMode, listed, done, patched>>
        /\ doubt' \in BOOLEAN
    BY DEF AdminInv, AdminRest, ClickProfile, ClickKey, ClickMode, ClickBackup, ClickUser,
           ClickRemove, Reload, Begin, tables, adminView
  <2>2. /\ error' \in BOOLEAN /\ notice' \in {notice, 0} /\ told' \in {told, 0}
        /\ modal' \in {"closed", "typed"}
    BY DEF AdminInv, AdminRest, ClickProfile, ClickKey, ClickMode, ClickBackup, ClickUser,
           ClickRemove, Reload, messages, adminView
  <2> QED BY <1>0, <2>1, <2>2 DEF AdminInv, AdminRest, NoticeIsTrue
<1>2. CASE Reload(k)
  BY <1>1, <1>2, LoadBegins
     DEF Reload, Ready, adminView, tables, ClicksTyped
<1>3. CASE \E p \in Profiles : ClickProfile(k, p)
  BY <1>1, <1>3, BeginClick DEF ClickProfile, Args, Dos
<1>4. CASE \E key \in Keys, value \in BOOLEAN : ClickKey(k, key, value)
  BY <1>1, <1>4, BeginClick DEF ClickKey, Args, Dos
<1>5. CASE \E m \in Modes : ClickMode(k, m)
  BY <1>1, <1>5, BeginClick DEF ClickMode, Args, Dos
<1>6. CASE ClickBackup(k) \/ ClickUser(k) \/ ClickRemove(k)
  BY <1>1, <1>6, BeginClick DEF ClickBackup, ClickUser, ClickRemove, Args, Dos
<1> QED BY <1>2, <1>3, <1>4, <1>5, <1>6

(* The server *)

LEMMA LoadHandledStep ==
    ASSUME SettingsTyped, ClicksTyped, AdminInv, NEW k \in Clicks, LoadHandled(k)
    PROVE  AdminInv'
<1>1. /\ UNCHANGED <<settingVars, open, shown, shownMode, listed, error, notice, told, modal,
                     member, done, doubt, patched>>
      /\ click[k].do = "load" /\ click[k].at = "asked"
      /\ SettingsOut' = SettingsOut /\ ServerMode' = ServerMode
  BY DEF LoadHandled, cloudVars, settingVars, adminView, tables, messages, stores, SettingsOut,
         ServerMode
<1>2. AdminRest' /\ NoticeIsTrue'
  BY <1>1 DEF AdminInv, AdminRest, NoticeIsTrue
<1>3. \A j \in Clicks \ {k} : click'[j] = click[j]
  BY DEF LoadHandled, ClicksTyped
<1>4. open' /\ click[k] # Idle
  BY <1>1 DEF AdminInv, ClosedAdmin, Idle
<1>5. /\ click'[k].do = "load" /\ click'[k].at = "asked"
      /\ click'[k].got \in {click[k].got, {SettingsOut}}
      /\ click'[k].users \in {click[k].users, {member}}
      /\ \/ click'[k].mode = click[k].mode
         \/ \E up \in BOOLEAN : click'[k].mode = {ModeStatus(up)}
  <2>0. click[k] \in ClickRecords /\ click \in [Clicks -> ClickRecords]
    BY DEF ClicksTyped
  <2>1. CASE click' = [click EXCEPT ![k].got = {SettingsOut}]
    BY <1>1, <2>0, <2>1 DEF ClickRecords
  <2>2. CASE click' = [click EXCEPT ![k].users = {member}]
    BY <1>1, <2>0, <2>2 DEF ClickRecords
  <2>3. CASE \E up \in BOOLEAN : click' = [click EXCEPT ![k].mode = {ModeStatus(up)}]
    BY <1>1, <2>0, <2>3 DEF ClickRecords
  <2> QED BY <2>1, <2>2, <2>3 DEF LoadHandled
<1>6. RecordFits(k)' /\ ShownOrOwed(k)'
  BY <1>5 DEF RecordFits, InFlight, ShownOrOwed, OwesSettings, OwesUsers, OwesMode, PatchClicks
<1>7. ~doubt' => /\ Alone(k) /\ CarriesNow(k)'
                 /\ \A j \in Clicks \ {k} : ~Carries(j)
  <2>1. ASSUME ~doubt PROVE CarriesNow(k)'
    BY <1>1, <1>5, <2>1 DEF AdminInv, AtMostOne, CarriesNow, ModeStatus
  <2> QED BY <1>1, <2>1, NoneBeside DEF InFlight
<1> QED BY <1>1, <1>2, <1>3, <1>4, <1>5, <1>6, <1>7, OneHandlerStep DEF Acted

(* A handler whose request is under way, and is not a load, owes nothing    *)
(* and has nothing.                                                         *)
LEMMA AskedOwesNothing ==
    ASSUME AdminInv, NEW k \in Clicks, click[k].at \in {"asked", "checked"}, click[k].do # "load"
    PROVE  /\ open /\ InFlight(k) /\ ~Carries(k)
           /\ click[k].do # "none" => shown # {}
           /\ ~OwesSettings(k) /\ ~OwesUsers(k) /\ ~OwesMode(k)
  BY DEF AdminInv, ClosedAdmin, ShownFirst, Idle, RecordFits, InFlight, OwesSettings, OwesUsers,
         OwesMode, PatchClicks, Acted

LEMMA PatchHandledStep ==
    ASSUME SettingsTyped, ClicksTyped, AdminInv, NEW k \in Clicks, PatchHandled(k)
    PROVE  AdminInv'
<1>1. /\ UNCHANGED <<open, shown, shownMode, listed, error, notice, told, modal,
                     member, doubt, patched>>
      /\ click[k].do \in PatchClicks /\ click[k].at = "asked"
      /\ done' = done \cup {k}
      /\ click[k].do # "profile" => ServerMode' = ServerMode
  BY DEF PatchHandled, adminView, tables, messages, stores, ServerMode, PatchClicks, SetKey
<1>2. AdminRest' /\ NoticeIsTrue'
  BY <1>1 DEF AdminInv, AdminRest, NoticeIsTrue
<1>3. /\ \A j \in Clicks \ {k} : click'[j] = click[j]
      /\ click'[k].do = click[k].do /\ click'[k].at = "answered"
      /\ click'[k].got = {SettingsOut'}
      /\ click'[k].users = click[k].users /\ click'[k].mode = click[k].mode
  BY DEF PatchHandled, ClicksTyped, ClickRecords
<1>4. /\ open /\ InFlight(k) /\ ~Carries(k)
      /\ click[k].do # "none" => shown # {}
      /\ ~OwesSettings(k) /\ ~OwesUsers(k) /\ ~OwesMode(k)
  BY <1>1, AskedOwesNothing DEF PatchClicks
<1>5. RecordFits(k)' /\ CarriesNow(k)'
  BY <1>1, <1>3, <1>4 DEF RecordFits, CarriesNow, Carries, InFlight, PatchClicks
<1>6. ~doubt' => /\ Alone(k) /\ ShownOrOwed(k)'
                 /\ \A j \in Clicks \ {k} : ~Carries(j)
  <2>1. ASSUME ~doubt, ShownOrOwed(k) PROVE ShownOrOwed(k)'
    BY <1>1, <1>3, <1>4, <2>1 DEF ShownOrOwed, OwesSettings, OwesUsers, OwesMode, PatchClicks
  <2> QED BY <1>1, <1>4, <2>1, NoneBeside
<1> QED BY <1>1, <1>2, <1>3, <1>4, <1>5, <1>6, OneHandlerStep

(* A refusal, or what a handler does that changes no setting: it is         *)
(* answered, and owes what comes with it.                                   *)
LEMMA RefusedStep ==
    ASSUME ClicksTyped, AdminInv, NEW k \in Clicks, Refused(k), click[k].at = "asked",
           click[k].do \notin {"none", "load"}, UNCHANGED <<adminView, doubt, patched>>
    PROVE  AdminInv'
<1>1. /\ UNCHANGED <<open, shown, shownMode, listed, error, notice, told, modal,
                     member, done, doubt, patched>>
      /\ SettingsOut' = SettingsOut /\ ServerMode' = ServerMode
  BY DEF Refused, cloudVars, settingVars, adminView, tables, messages, stores, SettingsOut,
         ServerMode
<1>2. AdminRest' /\ NoticeIsTrue'
  BY <1>1 DEF AdminInv, AdminRest, NoticeIsTrue
<1>3. /\ \A j \in Clicks \ {k} : click'[j] = click[j]
      /\ click'[k].do = click[k].do /\ click'[k].at = "refused"
      /\ click'[k].got = click[k].got /\ click'[k].users = click[k].users
      /\ click'[k].mode = click[k].mode
  BY DEF Refused, ClicksTyped, ClickRecords
<1>4. /\ open /\ InFlight(k) /\ ~Carries(k)
      /\ click[k].do # "none" => shown # {}
      /\ ~OwesSettings(k) /\ ~OwesUsers(k) /\ ~OwesMode(k)
  BY AskedOwesNothing
<1>5. RecordFits(k)' /\ CarriesNow(k)'
  BY <1>3, <1>4 DEF RecordFits, CarriesNow, Carries, InFlight
<1>6. ~doubt' => /\ Alone(k) /\ ShownOrOwed(k)'
                 /\ \A j \in Clicks \ {k} : ~Carries(j)
  <2>1. ASSUME ShownOrOwed(k) PROVE ShownOrOwed(k)'
    BY <1>1, <1>3, <1>4, <2>1 DEF ShownOrOwed
  <2> QED BY <1>1, <1>4, <2>1, NoneBeside
<1> QED BY <1>1, <1>2, <1>3, <1>4, <1>5, <1>6, OneHandlerStep DEF Acted

(* The check of a switch refuses it, or lets it go on to its write. *)
LEMMA ModeCheckedStep ==
    ASSUME ClicksTyped, AdminInv, NEW k \in Clicks, ModeChecked(k)
    PROVE  AdminInv'
<1>1. /\ UNCHANGED <<open, shown, shownMode, listed, error, notice, told, modal,
                     member, done, doubt, patched>>
      /\ SettingsOut' = SettingsOut /\ ServerMode' = ServerMode
      /\ click[k].do = "mode" /\ click[k].at = "asked"
  BY DEF ModeChecked, cloudVars, settingVars, adminView, tables, messages, stores, SettingsOut,
         ServerMode
<1>2. AdminRest' /\ NoticeIsTrue'
  BY <1>1 DEF AdminInv, AdminRest, NoticeIsTrue
<1>3. PICK up \in BOOLEAN :
        click' = [click EXCEPT ![k].at = IF SwitchAllowed(click[k].arg, up)
                                         THEN "checked" ELSE "refused",
                               ![k].up = up]
  BY DEF ModeChecked
<1>4. /\ \A j \in Clicks \ {k} : click'[j] = click[j]
      /\ click'[k].do = "mode" /\ click'[k].at \in {"checked", "refused"}
      /\ click'[k].got = click[k].got /\ click'[k].users = click[k].users
      /\ click'[k].mode = click[k].mode
  BY <1>1, <1>3 DEF ClicksTyped, ClickRecords
<1>5. /\ open /\ InFlight(k) /\ ~Carries(k) /\ shown # {}
      /\ ~OwesSettings(k) /\ ~OwesUsers(k) /\ ~OwesMode(k)
  BY <1>1, AskedOwesNothing
<1>6. RecordFits(k)' /\ CarriesNow(k)'
  BY <1>4, <1>5 DEF RecordFits, CarriesNow, Carries, InFlight, PatchClicks
<1>7. ~doubt' => /\ Alone(k) /\ ShownOrOwed(k)'
                 /\ \A j \in Clicks \ {k} : ~Carries(j)
  <2>1. ASSUME ShownOrOwed(k) PROVE ShownOrOwed(k)'
    BY <1>1, <1>5, <2>1 DEF ShownOrOwed
  <2> QED BY <1>1, <1>5, <2>1, NoneBeside
<1> QED BY <1>1, <1>2, <1>4, <1>5, <1>6, <1>7, OneHandlerStep DEF Acted

LEMMA ModeHandledStep ==
    ASSUME ClicksTyped, AdminInv, NEW k \in Clicks, ModeHandled(k)
    PROVE  AdminInv'
<1>1. PICK later \in BOOLEAN :
        click' = [click EXCEPT ![k].at = "answered", ![k].mode = {ModeStatus(later)'}]
  BY DEF ModeHandled
<1>2. /\ UNCHANGED <<open, shown, shownMode, listed, error, notice, told, modal,
                     member, doubt, patched>>
      /\ done' = done \cup {k} /\ SettingsOut' = SettingsOut
      /\ click[k].do = "mode" /\ click[k].at = "checked"
  BY DEF ModeHandled, adminView, tables, messages, stores, SettingsOut, SetMode
<1>3. AdminRest' /\ NoticeIsTrue'
  BY <1>2 DEF AdminInv, AdminRest, NoticeIsTrue
<1>4. /\ \A j \in Clicks \ {k} : click'[j] = click[j]
      /\ click'[k].do = "mode" /\ click'[k].at = "answered"
      /\ click'[k].mode = {ModeStatus(later)'}
      /\ click'[k].users = click[k].users /\ click'[k].got = click[k].got
  BY <1>1, <1>2 DEF ClicksTyped, ClickRecords
<1>5. /\ open /\ InFlight(k) /\ ~Carries(k) /\ shown # {}
      /\ ~OwesSettings(k) /\ ~OwesUsers(k) /\ ~OwesMode(k)
  BY <1>2, AskedOwesNothing
<1>6. RecordFits(k)' /\ CarriesNow(k)'
  <2>1. ModeStatus(later)'.mode = ServerMode'
    BY DEF ModeStatus
  <2> QED BY <1>4, <1>5, <2>1 DEF RecordFits, CarriesNow, Carries, InFlight, PatchClicks
<1>7. ~doubt' => /\ Alone(k) /\ ShownOrOwed(k)'
                 /\ \A j \in Clicks \ {k} : ~Carries(j)
  <2>1. ASSUME ShownOrOwed(k) PROVE ShownOrOwed(k)'
    BY <1>2, <1>4, <1>5, <2>1 DEF ShownOrOwed, OwesMode
  <2> QED BY <1>2, <1>5, <2>1, NoneBeside
<1> QED BY <1>2, <1>3, <1>4, <1>5, <1>6, <1>7, OneHandlerStep

LEMMA CarriedOutStep ==
    ASSUME ClicksTyped, AdminInv, NEW k \in Clicks, CarriedOut(k), click[k].at = "asked",
           click[k].do \in {"backup", "remove", "user"},
           click[k].do # "user" => UNCHANGED member,
           UNCHANGED <<adminView, doubt, patched>>
    PROVE  AdminInv'
<1>1. /\ UNCHANGED <<open, shown, shownMode, listed, error, notice, told, modal,
                     doubt, patched>>
      /\ SettingsOut' = SettingsOut /\ ServerMode' = ServerMode
      /\ done' = done \cup {k}
  BY DEF CarriedOut, cloudVars, settingVars, adminView, tables, messages, SettingsOut, ServerMode
<1>2. AdminRest' /\ NoticeIsTrue'
  BY <1>1 DEF AdminInv, AdminRest, NoticeIsTrue
<1>3. /\ \A j \in Clicks \ {k} : click'[j] = click[j]
      /\ click'[k].do = click[k].do /\ click'[k].at = "answered"
      /\ click'[k].got = click[k].got /\ click'[k].users = click[k].users
      /\ click'[k].mode = click[k].mode
  BY DEF CarriedOut, ClicksTyped, ClickRecords
<1>4. /\ open /\ InFlight(k) /\ ~Carries(k)
      /\ click[k].do # "none" => shown # {}
      /\ ~OwesSettings(k) /\ ~OwesUsers(k) /\ ~OwesMode(k)
  BY AskedOwesNothing
<1>5. RecordFits(k)' /\ CarriesNow(k)'
  BY <1>3, <1>4 DEF RecordFits, CarriesNow, Carries, InFlight, PatchClicks
<1>6. ~doubt' => /\ Alone(k) /\ ShownOrOwed(k)'
                 /\ \A j \in Clicks \ {k} : ~Carries(j)
  <2>1. ASSUME ShownOrOwed(k) PROVE ShownOrOwed(k)'
    BY <1>1, <1>3, <1>4, <2>1 DEF ShownOrOwed, OwesUsers, Acted
  <2> QED BY <1>1, <1>4, <2>1, NoneBeside
<1> QED BY <1>1, <1>2, <1>3, <1>4, <1>5, <1>6, OneHandlerStep

LEMMA RefetchHandledStep ==
    ASSUME ClicksTyped, AdminInv, NEW k \in Clicks, RefetchHandled(k)
    PROVE  AdminInv'
<1>1. /\ UNCHANGED <<open, shown, shownMode, listed, error, notice, told, modal,
                     member, done, doubt, patched>>
      /\ SettingsOut' = SettingsOut /\ ServerMode' = ServerMode
      /\ click[k].at = "refetch"
  BY DEF RefetchHandled, cloudVars, settingVars, adminView, tables, messages, stores,
         SettingsOut, ServerMode
<1>2. AdminRest' /\ NoticeIsTrue'
  BY <1>1 DEF AdminInv, AdminRest, NoticeIsTrue
<1>3. /\ \A j \in Clicks \ {k} : click'[j] = click[j]
      /\ click'[k].do = click[k].do /\ click'[k].at = "refetched"
      /\ click'[k].got = {SettingsOut} /\ click'[k].users = {member}
      /\ click'[k].mode = click[k].mode
  BY DEF RefetchHandled, ClicksTyped, ClickRecords
<1>4. /\ open /\ InFlight(k) /\ click[k].do \in {"mode", "user"} /\ k \in done /\ shown # {}
      /\ ~OwesSettings(k) /\ ~OwesMode(k)
  BY <1>1 DEF AdminInv, ClosedAdmin, ShownFirst, Idle, RecordFits, InFlight, OwesSettings,
     OwesMode, AnsweredIsDone, Acted
<1>5. RecordFits(k)'
  BY <1>3, <1>4 DEF RecordFits, InFlight
<1>6. ~doubt' => /\ Alone(k) /\ ShownOrOwed(k)' /\ CarriesNow(k)'
                 /\ \A j \in Clicks \ {k} : ~Carries(j)
  <2>1. ASSUME ShownOrOwed(k) PROVE ShownOrOwed(k)'
    BY <1>1, <1>3, <1>4, <2>1 DEF ShownOrOwed, OwesUsers, Acted
  <2>2. ASSUME ~doubt PROVE CarriesNow(k)'
    BY <1>1, <1>3, <2>2 DEF AdminInv, AtMostOne, CarriesNow
  <2> QED BY <1>1, <1>4, <2>1, <2>2, NoneBeside
<1> QED BY <1>1, <1>2, <1>3, <1>4, <1>5, <1>6, OneHandlerStep

LEMMA ServerActs ==
    ASSUME SettingsTyped, ClicksTyped, AdminInv, NEW k \in Clicks,
           \/ LoadHandled(k) \/ PatchHandled(k) \/ ModeChecked(k) \/ ModeHandled(k)
           \/ BackupHandled(k) \/ RemoveHandled(k) \/ UserHandled(k) \/ RefetchHandled(k)
    PROVE  AdminInv'
<1>1. CASE LoadHandled(k) \/ PatchHandled(k) \/ ModeChecked(k) \/ ModeHandled(k)
           \/ RefetchHandled(k)
  BY <1>1, LoadHandledStep, PatchHandledStep, ModeCheckedStep, ModeHandledStep,
     RefetchHandledStep
<1>2. CASE BackupHandled(k) \/ RemoveHandled(k) \/ UserHandled(k)
  BY <1>2, RefusedStep, CarriedOutStep
     DEF BackupHandled, RemoveHandled, UserHandled, stores
<1> QED BY <1>1, <1>2

(* The answers at the page *)

LEMMA OverIsQuiet ==
    ASSUME NEW k \in Clicks, click'[k] = Over
    PROVE  /\ RecordFits(k)' /\ CarriesNow(k)' /\ click'[k].at \notin Acted
           /\ click'[k].do = "none"
  BY DEF Over, Idle, RecordFits, CarriesNow, Carries, InFlight, PatchClicks, Acted

(* What the answer tells of the new account is what the server knew. *)
LEMMA SeenIsMember ==
    ASSUME NEW users, NEW account \in BOOLEAN, users # {}, users \subseteq {account}
    PROVE  TRUE \in users <=> account
<1>1. users = {account}
  OBVIOUS
<1>2. CASE account = TRUE
  BY <1>1, <1>2
<1>3. CASE account = FALSE
  <2>1. TRUE \notin {FALSE}
    OBVIOUS
  <2>2. TRUE \notin users
    BY <1>1, <1>3, <2>1
  <2> QED BY <1>3, <2>2
<1> QED BY <1>2, <1>3

LEMMA LoadArrivesStep ==
    ASSUME ClicksTyped, AdminInv, NEW k \in Clicks, LoadArrives(k)
    PROVE  AdminInv'
<1>1. /\ UNCHANGED <<open, error, notice, told, modal, member, done, doubt>>
      /\ SettingsOut' = SettingsOut /\ ServerMode' = ServerMode
      /\ shown' = click[k].got /\ shownMode' = click[k].mode
      /\ listed' = (TRUE \in click[k].users) /\ patched' = FALSE
      /\ click[k].do = "load" /\ click[k].got # {} /\ click[k].users # {}
      /\ click' = [click EXCEPT ![k] = Over]
  BY DEF LoadArrives, cloudVars, settingVars, messages, stores, SettingsOut, ServerMode
<1>2. AdminRest' /\ NoticeIsTrue'
  <2>1. click[k] \in ClickRecords
    BY DEF ClicksTyped
  <2>2. click[k].got \subseteq ShownSettings /\ click[k].mode \subseteq ShownModes
    BY <2>1 DEF ClickRecords
  <2>3. (TRUE \in click[k].users) \in BOOLEAN
    OBVIOUS
  <2>4. listed' \in BOOLEAN /\ patched' \in BOOLEAN
    BY <1>1, <2>3 DEF AdminInv, AdminRest
  <2> QED BY <1>1, <2>2, <2>4 DEF AdminInv, AdminRest, NoticeIsTrue
<1>3. (\A j \in Clicks \ {k} : click'[j] = click[j]) /\ click'[k] = Over
  BY <1>1 DEF ClicksTyped
<1>4. open /\ InFlight(k)
  BY <1>1 DEF AdminInv, ClosedAdmin, Idle, RecordFits, InFlight
<1>5. ~doubt' => /\ Alone(k) /\ ShownOrOwed(k)'
                 /\ \A j \in Clicks \ {k} : ~Carries(j)
  <2>1. ASSUME ~doubt PROVE ShownOrOwed(k)'
    <3>1. CarriesNow(k) /\ member \in BOOLEAN
      BY <2>1 DEF AdminInv, AtMostOne, ClicksTyped, StoresTyped
    <3>2. shown' = {SettingsOut}
      BY <1>1, <3>1 DEF CarriesNow
    <3>4. click[k].users \subseteq {member}
      BY <3>1 DEF CarriesNow
    <3>5. listed' = member
      <4>1. listed' <=> member
        BY <1>1, <3>1, <3>4, SeenIsMember
      <4>2. listed' \in BOOLEAN
        BY <1>2 DEF AdminRest
      <4> QED BY <3>1, <4>1, <4>2
    <3>3. \A s \in shownMode' : s.mode = ServerMode'
      BY <1>1, <3>1 DEF CarriesNow
    <3> QED BY <1>1, <3>2, <3>3, <3>5 DEF ShownOrOwed
  <2> QED BY <1>1, <1>4, <2>1, NoneBeside
<1> QED BY <1>1, <1>2, <1>3, <1>4, <1>5, OverIsQuiet, OneHandlerStep

LEMMA PatchArrivesStep ==
    ASSUME ClicksTyped, AdminInv, NEW k \in Clicks, PatchArrives(k)
    PROVE  AdminInv'
<1>1. /\ UNCHANGED <<open, shownMode, listed, error, notice, told, modal, member, done, doubt>>
      /\ SettingsOut' = SettingsOut /\ ServerMode' = ServerMode
      /\ shown' = click[k].got
      /\ patched' = (patched \/ click[k].do = "profile")
      /\ click[k].do \in PatchClicks /\ click[k].at = "answered"
      /\ click' = [click EXCEPT ![k] = Over]
  BY DEF PatchArrives, cloudVars, settingVars, messages, stores, SettingsOut, ServerMode,
         PatchClicks
<1>2. AdminRest' /\ NoticeIsTrue'
  <2>1. click[k] \in ClickRecords
    BY DEF ClicksTyped
  <2>2. click[k].got \subseteq ShownSettings /\ click[k].mode \subseteq ShownModes
    BY <2>1 DEF ClickRecords
  <2> QED BY <1>1, <2>2 DEF AdminInv, AdminRest, NoticeIsTrue
<1>3. (\A j \in Clicks \ {k} : click'[j] = click[j]) /\ click'[k] = Over
  BY <1>1 DEF ClicksTyped
<1>4. /\ open /\ InFlight(k) /\ click[k].got # {} /\ shown # {}
      /\ ~OwesUsers(k) /\ (click[k].do # "profile" => ~OwesMode(k))
  BY <1>1 DEF AdminInv, ClosedAdmin, ShownFirst, Idle, RecordFits, InFlight, OwesUsers, OwesMode,
     PatchClicks
<1>5. ~doubt' => /\ Alone(k) /\ ShownOrOwed(k)'
                 /\ \A j \in Clicks \ {k} : ~Carries(j)
  <2>1. ASSUME ~doubt, ShownOrOwed(k) PROVE ShownOrOwed(k)'
    <3>1. CarriesNow(k)
      BY <2>1 DEF AdminInv, AtMostOne
    <3>2. shown' = {SettingsOut}
      BY <1>1, <1>4, <3>1 DEF CarriesNow
    <3>3. listed = member /\ ((\A s \in shownMode : s.mode = ServerMode \/ patched)
                              \/ click[k].do = "profile")
      BY <1>4, <2>1 DEF ShownOrOwed
    <3> QED BY <1>1, <3>2, <3>3 DEF ShownOrOwed
  <2> QED BY <1>1, <1>4, <2>1, NoneBeside
<1> QED BY <1>1, <1>2, <1>3, <1>4, <1>5, OverIsQuiet, OneHandlerStep

LEMMA ModeArrivesStep ==
    ASSUME ClicksTyped, AdminInv, NEW k \in Clicks, ModeArrives(k)
    PROVE  AdminInv'
<1>1. /\ UNCHANGED <<open, shown, listed, error, notice, told, modal, member, done, doubt>>
      /\ SettingsOut' = SettingsOut /\ ServerMode' = ServerMode
      /\ shownMode' = click[k].mode /\ patched' = FALSE
      /\ click[k].do = "mode" /\ click[k].at = "answered"
      /\ click' = [click EXCEPT ![k].at = "refetch"]
  BY DEF ModeArrives, cloudVars, settingVars, messages, stores, SettingsOut, ServerMode
<1>2. AdminRest' /\ NoticeIsTrue'
  <2>1. click[k] \in ClickRecords
    BY DEF ClicksTyped
  <2>2. click[k].mode \subseteq ShownModes
    BY <2>1 DEF ClickRecords
  <2> QED BY <1>1, <2>2 DEF AdminInv, AdminRest, NoticeIsTrue
<1>3. /\ \A j \in Clicks \ {k} : click'[j] = click[j]
      /\ click'[k].do = "mode" /\ click'[k].at = "refetch"
      /\ click'[k].got = click[k].got /\ click'[k].users = click[k].users
      /\ click'[k].mode = click[k].mode
  BY <1>1 DEF ClicksTyped, ClickRecords
<1>4. /\ open /\ InFlight(k) /\ shown # {} /\ k \in done
      /\ ~OwesSettings(k) /\ ~OwesUsers(k)
  BY <1>1 DEF AdminInv, ClosedAdmin, ShownFirst, Idle, InFlight, OwesSettings, OwesUsers,
     PatchClicks, AnsweredIsDone, Acted
<1>5. RecordFits(k)'
  BY <1>3 DEF RecordFits, InFlight, PatchClicks
<1>6. ~doubt' => /\ Alone(k) /\ ShownOrOwed(k)' /\ CarriesNow(k)'
                 /\ \A j \in Clicks \ {k} : ~Carries(j)
  <2>1. ASSUME ~doubt, ShownOrOwed(k) PROVE ShownOrOwed(k)' /\ CarriesNow(k)'
    <3>1. CarriesNow(k)
      BY <2>1 DEF AdminInv, AtMostOne
    <3>2. CarriesNow(k)'
      BY <1>1, <1>3, <3>1 DEF CarriesNow
    <3>3. shown = {SettingsOut} /\ listed = member
      BY <1>4, <2>1 DEF ShownOrOwed
    <3>4. \A s \in shownMode' : s.mode = ServerMode'
      BY <1>1, <3>1 DEF CarriesNow
    <3> QED BY <1>1, <3>2, <3>3, <3>4 DEF ShownOrOwed
  <2> QED BY <1>1, <1>4, <2>1, NoneBeside
<1> QED BY <1>1, <1>2, <1>3, <1>4, <1>5, <1>6, OneHandlerStep

LEMMA UserArrivesStep ==
    ASSUME ClicksTyped, AdminInv, NEW k \in Clicks, UserArrives(k)
    PROVE  AdminInv'
<1>1. /\ UNCHANGED <<open, shown, shownMode, listed, error, notice, told, modal, member, done,
                     doubt, patched>>
      /\ SettingsOut' = SettingsOut /\ ServerMode' = ServerMode
      /\ click[k].do = "user" /\ click[k].at = "answered"
      /\ click' = [click EXCEPT ![k].at = "refetch"]
  BY DEF UserArrives, cloudVars, settingVars, adminView, tables, messages, stores, SettingsOut,
         ServerMode
<1>2. AdminRest' /\ NoticeIsTrue'
  BY <1>1 DEF AdminInv, AdminRest, NoticeIsTrue
<1>3. /\ \A j \in Clicks \ {k} : click'[j] = click[j]
      /\ click'[k].do = "user" /\ click'[k].at = "refetch"
      /\ click'[k].got = click[k].got /\ click'[k].users = click[k].users
      /\ click'[k].mode = click[k].mode
  BY <1>1 DEF ClicksTyped, ClickRecords
<1>4. /\ open /\ InFlight(k) /\ shown # {} /\ k \in done
      /\ ~OwesSettings(k) /\ ~OwesMode(k)
  BY <1>1 DEF AdminInv, ClosedAdmin, ShownFirst, Idle, InFlight, OwesSettings, OwesMode,
     PatchClicks, AnsweredIsDone, Acted
<1>5. RecordFits(k)'
  BY <1>3 DEF RecordFits, InFlight, PatchClicks
<1>6. ~doubt' => /\ Alone(k) /\ ShownOrOwed(k)' /\ CarriesNow(k)'
                 /\ \A j \in Clicks \ {k} : ~Carries(j)
  <2>1. ASSUME ~doubt, ShownOrOwed(k) PROVE ShownOrOwed(k)' /\ CarriesNow(k)'
    <3>1. CarriesNow(k)'
      BY <1>1, <1>3, <2>1 DEF AdminInv, AtMostOne, CarriesNow
    <3> QED BY <1>1, <1>3, <1>4, <2>1, <3>1 DEF ShownOrOwed, OwesUsers, Acted
  <2> QED BY <1>1, <1>4, <2>1, NoneBeside
<1> QED BY <1>1, <1>2, <1>3, <1>4, <1>5, <1>6, OneHandlerStep

LEMMA RefetchArrivesStep ==
    ASSUME ClicksTyped, AdminInv, NEW k \in Clicks, RefetchArrives(k)
    PROVE  AdminInv'
<1>1. /\ UNCHANGED <<open, shownMode, error, modal, member, done, doubt, patched>>
      /\ SettingsOut' = SettingsOut /\ ServerMode' = ServerMode
      /\ click[k].at = "refetched"
      /\ click' = [click EXCEPT ![k] = Over]
  BY DEF RefetchArrives, cloudVars, settingVars, stores, SettingsOut, ServerMode
<1>2. (\A j \in Clicks \ {k} : click'[j] = click[j]) /\ click'[k] = Over
  BY <1>1 DEF ClicksTyped
<1>3. /\ open /\ InFlight(k) /\ shown # {} /\ k \in done
      /\ click[k].do \in {"mode", "user"} /\ click[k].got # {} /\ click[k].users # {}
  BY <1>1 DEF AdminInv, ClosedAdmin, ShownFirst, Idle, RecordFits, InFlight, AnsweredIsDone, Acted
<1>4. ~OwesSettings(k) /\ ~OwesMode(k)
  BY <1>1, <1>3 DEF OwesSettings, OwesMode, PatchClicks
<1>5. click[k] \in ClickRecords
  BY DEF ClicksTyped
<1>6. CASE click[k].do = "mode"
  <2>1. shown' = click[k].got /\ notice' = k /\ listed' = listed /\ told' = told
    BY <1>6 DEF RefetchArrives
  <2>2. AdminRest' /\ NoticeIsTrue'
    <3>1. click[k].got \subseteq ShownSettings
      BY <1>5 DEF ClickRecords
    <3> QED BY <1>1, <1>3, <2>1, <3>1 DEF AdminInv, AdminRest, NoticeIsTrue
  <2>3. ~OwesUsers(k)
    BY <1>6 DEF OwesUsers
  <2>4. ~doubt' => /\ Alone(k) /\ ShownOrOwed(k)'
                   /\ \A j \in Clicks \ {k} : ~Carries(j)
    <3>1. ASSUME ~doubt, ShownOrOwed(k) PROVE ShownOrOwed(k)'
      <4>1. CarriesNow(k)
        BY <3>1 DEF AdminInv, AtMostOne
      <4>2. shown' = {SettingsOut}
        BY <1>3, <2>1, <4>1 DEF CarriesNow
      <4>3. listed = member /\ \A s \in shownMode : s.mode = ServerMode \/ patched
        BY <1>3, <1>4, <2>3, <3>1 DEF ShownOrOwed
      <4> QED BY <1>1, <2>1, <4>2, <4>3 DEF ShownOrOwed
    <3> QED BY <1>1, <1>3, <3>1, NoneBeside
  <2> QED BY <1>1, <1>2, <1>3, <2>1, <2>2, <2>4, OverIsQuiet, OneHandlerStep
<1>7. CASE click[k].do = "user"
  <2>1. /\ listed' = (TRUE \in click[k].users) /\ told' = k
        /\ shown' = shown /\ notice' = notice
    BY <1>7 DEF RefetchArrives
  <2>2. AdminRest' /\ NoticeIsTrue'
    <3>1. (TRUE \in click[k].users) \in BOOLEAN
      OBVIOUS
    <3>2. listed' \in BOOLEAN
      BY <2>1, <3>1
    <3> QED BY <1>1, <1>3, <2>1, <3>2 DEF AdminInv, AdminRest, NoticeIsTrue
  <2>3. ~doubt' => /\ Alone(k) /\ ShownOrOwed(k)'
                   /\ \A j \in Clicks \ {k} : ~Carries(j)
    <3>1. ASSUME ~doubt, ShownOrOwed(k) PROVE ShownOrOwed(k)'
      <4>1. click[k].users \subseteq {member} /\ member \in BOOLEAN
        BY <3>1 DEF AdminInv, AtMostOne, CarriesNow, ClicksTyped, StoresTyped
      <4>2. listed' = member
        <5>1. listed' <=> member
          BY <1>3, <2>1, <4>1, SeenIsMember
        <5>2. listed' \in BOOLEAN
          BY <2>2 DEF AdminRest
        <5> QED BY <4>1, <5>1, <5>2
      <4>3. shown = {SettingsOut} /\ \A s \in shownMode : s.mode = ServerMode \/ patched
        BY <1>3, <1>4, <3>1 DEF ShownOrOwed
      <4> QED BY <1>1, <2>1, <4>2, <4>3 DEF ShownOrOwed
    <3> QED BY <1>1, <1>3, <3>1, NoneBeside
  <2> QED BY <1>1, <1>2, <1>3, <2>1, <2>2, <2>3, OverIsQuiet, OneHandlerStep
<1> QED BY <1>3, <1>6, <1>7

LEMMA BackupArrivesStep ==
    ASSUME ClicksTyped, AdminInv, NEW k \in Clicks, BackupArrives(k)
    PROVE  AdminInv'
<1>1. /\ UNCHANGED <<open, shown, shownMode, listed, error, told, modal, member, done, doubt,
                     patched>>
      /\ SettingsOut' = SettingsOut /\ ServerMode' = ServerMode
      /\ click[k].do = "backup" /\ click[k].at = "answered" /\ notice' = k
      /\ click' = [click EXCEPT ![k] = Over]
  BY DEF BackupArrives, cloudVars, settingVars, tables, stores, SettingsOut, ServerMode
<1>2. (\A j \in Clicks \ {k} : click'[j] = click[j]) /\ click'[k] = Over
  BY <1>1 DEF ClicksTyped
<1>3. /\ open /\ InFlight(k) /\ shown # {} /\ k \in done
      /\ ~OwesSettings(k) /\ ~OwesUsers(k) /\ ~OwesMode(k)
  BY <1>1 DEF AdminInv, ClosedAdmin, ShownFirst, Idle, InFlight, OwesSettings, OwesUsers, OwesMode,
     PatchClicks, AnsweredIsDone, Acted
<1>4. AdminRest' /\ NoticeIsTrue'
  BY <1>1, <1>3 DEF AdminInv, AdminRest, NoticeIsTrue
<1>5. ~doubt' => /\ Alone(k) /\ ShownOrOwed(k)'
                 /\ \A j \in Clicks \ {k} : ~Carries(j)
  <2>1. ASSUME ShownOrOwed(k) PROVE ShownOrOwed(k)'
    BY <1>1, <1>3, <2>1 DEF ShownOrOwed
  <2> QED BY <1>1, <1>3, <2>1, NoneBeside
<1> QED BY <1>1, <1>2, <1>3, <1>4, <1>5, OverIsQuiet, OneHandlerStep

LEMMA RemoveArrivesStep ==
    ASSUME ClicksTyped, AdminInv, NEW k \in Clicks, RemoveArrives(k)
    PROVE  AdminInv'
<1>1. /\ UNCHANGED <<open, shown, shownMode, listed, error, told, modal, done, doubt, patched>>
      /\ click[k].at = "answered" /\ notice' = k
      /\ click' = [click EXCEPT ![k] = Loading]
  BY DEF RemoveArrives, tables
<1>2. (\A j \in Clicks \ {k} : click'[j] = click[j]) /\ click'[k] = Loading
  BY <1>1 DEF ClicksTyped
<1>3. open /\ InFlight(k) /\ k \in done
  BY <1>1 DEF AdminInv, ClosedAdmin, Idle, InFlight, AnsweredIsDone, Acted
<1>4. AdminRest' /\ NoticeIsTrue'
  BY <1>1, <1>3 DEF AdminInv, AdminRest, NoticeIsTrue
<1>5. ~doubt' => Alone(k)
  BY <1>1, <1>3, NoneBeside
<1> QED BY <1>1, <1>2, <1>3, <1>4, <1>5, LoadBegins

(* A failure that is not a refusal leaves the page in doubt. *)
LEMMA ClickFailsStep ==
    ASSUME ClicksTyped, AdminInv, NEW k \in Clicks, ClickFails(k)
    PROVE  AdminInv'
<1>1. /\ UNCHANGED <<open, shown, shownMode, listed, notice, modal, member, done, patched>>
      /\ SettingsOut' = SettingsOut /\ ServerMode' = ServerMode
      /\ InFlight(k) /\ doubt' = (doubt \/ click[k].at # "refused")
      /\ click' = [click EXCEPT ![k] = Over]
  BY DEF ClickFails, cloudVars, settingVars, tables, stores, SettingsOut, ServerMode
<1>2. (\A j \in Clicks \ {k} : click'[j] = click[j]) /\ click'[k] = Over
  BY <1>1 DEF ClicksTyped
<1>3. open
  BY <1>1 DEF AdminInv, ClosedAdmin, Idle, InFlight
<1>4. AdminRest' /\ NoticeIsTrue'
  <2>1. error' \in BOOLEAN /\ told' \in {told, 0} /\ 0 \in Clicks
    <3>1. error' \in {error, TRUE} /\ told' \in {told, 0}
      BY DEF ClickFails
    <3>2. error \in BOOLEAN /\ 0 \in Clicks
      BY ClicksAssumption DEF AdminInv, AdminRest, Clicks
    <3>3. CASE error' = TRUE
      BY <3>1, <3>2, <3>3
    <3>4. CASE error' = error
      BY <3>1, <3>2, <3>4
    <3> QED BY <3>1, <3>3, <3>4
  <2> QED BY <1>1, <2>1 DEF AdminInv, AdminRest, NoticeIsTrue
<1>5. ~doubt' => /\ Alone(k) /\ ShownOrOwed(k)'
                 /\ \A j \in Clicks \ {k} : ~Carries(j)
  <2>1. ASSUME ~doubt', ShownOrOwed(k) PROVE ShownOrOwed(k)'
    <3>1. ~OwesSettings(k) /\ ~OwesUsers(k) /\ ~OwesMode(k)
      BY <1>1, <2>1 DEF AdminInv, RecordFits, OwesSettings, OwesUsers, OwesMode, Acted
    <3> QED BY <1>1, <2>1, <3>1 DEF ShownOrOwed
  <2> QED BY <1>1, <2>1, NoneBeside
<1> QED BY <1>1, <1>2, <1>3, <1>4, <1>5, OverIsQuiet, OneHandlerStep

LEMMA OpenAdminStep ==
    ASSUME ClicksTyped, AdminInv, OpenAdmin
    PROVE  AdminInv'
<1>0. 0 \in Clicks
  BY ClicksAssumption DEF Clicks
<1>1. /\ ~open /\ open' /\ open' \in BOOLEAN
      /\ UNCHANGED <<shown, shownMode, listed, error, notice, told, modal, done, doubt, patched>>
      /\ \A j \in Clicks : click[j] = Idle
  BY DEF OpenAdmin, messages, AdminInv, ClosedAdmin
<1>2. (\A j \in Clicks \ {0} : click'[j] = click[j]) /\ click'[0] = Loading
  BY <1>0 DEF OpenAdmin, ClicksTyped
<1>3. AdminRest' /\ NoticeIsTrue'
  BY <1>1 DEF AdminInv, AdminRest, NoticeIsTrue
<1>4. Alone(0)
  BY <1>1 DEF Alone, InFlight, Idle
<1> QED BY <1>0, <1>1, <1>2, <1>3, <1>4, LoadBegins

LEMMA AdminUnchanged ==
    ASSUME AdminInv,
           UNCHANGED <<open, shown, shownMode, listed, error, notice, told, click, member, done,
                       doubt, patched, SettingsOut, ServerMode>>,
           modal' \in {"closed", "typed"}
    PROVE  AdminInv'
<1>1. AdminRest' /\ NoticeIsTrue' /\ ShownFirst' /\ ClosedAdmin' /\ AnsweredIsDone'
  BY DEF AdminInv, AdminRest, NoticeIsTrue, ShownFirst, ClosedAdmin, AnsweredIsDone
<1>2. (\A k \in Clicks : RecordFits(k))'
  BY DEF AdminInv, RecordFits, InFlight, Carries
<1>3. AtMostOne'
  BY DEF AdminInv, AtMostOne, Alone, InFlight, ShownOrOwed, OwesSettings, OwesUsers, OwesMode,
         CarriesNow
<1> QED BY <1>1, <1>2, <1>3 DEF AdminInv

LEMMA AdminInit_Inv == Init => AdminInv
<1> SUFFICES ASSUME Init PROVE AdminInv
  OBVIOUS
<1>0. AdminInit /\ 0 \in Clicks
  BY ClicksAssumption DEF Init, Clicks
<1>1. AdminRest /\ NoticeIsTrue /\ ShownFirst /\ ClosedAdmin /\ AnsweredIsDone
  BY <1>0 DEF AdminInit, AdminRest, NoticeIsTrue, ShownFirst, ClosedAdmin, AnsweredIsDone, Acted,
     Idle
<1>2. \A k \in Clicks : click[k] = Idle
  BY <1>0 DEF AdminInit
<1>3. \A k \in Clicks : RecordFits(k) /\ Alone(k) /\ CarriesNow(k)
  BY <1>2 DEF RecordFits, InFlight, Carries, Alone, CarriesNow, Idle, PatchClicks
<1>4. ShownOrOwed(0)
  BY <1>0 DEF AdminInit, ShownOrOwed
<1> QED BY <1>0, <1>1, <1>3, <1>4 DEF AdminInv, AtMostOne

LEMMA AdminNext_Inv ==
    ASSUME SettingsTyped, ClicksTyped, AdminInv, [Next]_vars
    PROVE  AdminInv'
<1>1. CASE AdminNext
  <2>1. CASE OpenAdmin
    BY <2>1, OpenAdminStep
  <2>2. CASE Dialog
    <3>1. UNCHANGED <<open, shown, shownMode, listed, error, notice, told, click, member, done,
                      doubt, patched, SettingsOut, ServerMode>>
      BY <2>2 DEF Dialog, cloudVars, settingVars, tables, messages, stores, SettingsOut, ServerMode
    <3> QED BY <2>2, <3>1, AdminUnchanged DEF Dialog
  <2> QED BY <1>1, <2>1, <2>2, ClicksStep, ServerActs, LoadArrivesStep, PatchArrivesStep,
       ModeArrivesStep, UserArrivesStep, RefetchArrivesStep, BackupArrivesStep,
       RemoveArrivesStep, ClickFailsStep DEF AdminNext
<1>2. CASE UNCHANGED <<settingVars, adminVars>>
  <2>1. UNCHANGED <<open, shown, shownMode, listed, error, notice, told, click, member, done,
                    doubt, patched, modal, SettingsOut, ServerMode>>
    BY <1>2 DEF settingVars, adminVars, adminView, tables, messages, stores, SettingsOut, ServerMode
  <2> QED BY <2>1, AdminUnchanged DEF AdminInv, AdminRest
<1>3. CASE /\ doubt' = (doubt \/ open)
           /\ UNCHANGED <<adminView, click, stores, done, patched>>
  <2>1. /\ UNCHANGED <<open, shown, shownMode, listed, error, notice, told, click, member, done,
                       patched, modal>>
        /\ doubt' = (doubt \/ open)
    BY <1>3 DEF adminView, tables, messages, stores
  <2>2. AdminRest' /\ NoticeIsTrue' /\ ShownFirst' /\ ClosedAdmin' /\ AnsweredIsDone'
    BY <2>1 DEF AdminInv, AdminRest, NoticeIsTrue, ShownFirst, ClosedAdmin, AnsweredIsDone
  <2>3. (\A k \in Clicks : RecordFits(k))'
    BY <2>1 DEF AdminInv, RecordFits, InFlight, Carries
  <2>4. ASSUME ~doubt' PROVE AtMostOne'
    <3>1. ~open /\ \A k \in Clicks : click'[k] = Idle
      BY <2>1, <2>4 DEF AdminInv, ClosedAdmin
    <3>2. (\A k \in Clicks : Alone(k) /\ ShownOrOwed(k) /\ CarriesNow(k))'
      BY <2>1, <3>1 DEF Alone, InFlight, ShownOrOwed, CarriesNow, Idle
    <3>3. 0 \in Clicks
      BY ClicksAssumption DEF Clicks
    <3> QED BY <3>2, <3>3 DEF AtMostOne
  <2> QED BY <2>2, <2>3, <2>4 DEF AdminInv, AtMostOne
<1> QED BY <1>1, <1>2, <1>3, AdminStepKinds

LEMMA AdminInv_Truthful == AdminInv => AdminIsTruthful
<1> SUFFICES ASSUME AdminInv PROVE AdminIsTruthful
  OBVIOUS
<1>1. ASSUME open, shown # {}, ~doubt, \A k \in Clicks : ~InFlight(k)
      PROVE  /\ shown = {SettingsOut} /\ listed = member
             /\ \A s \in shownMode : s.mode = ServerMode \/ patched
  <2>1. PICK k \in Clicks : ShownOrOwed(k)
    BY <1>1 DEF AdminInv, AtMostOne
  <2>2. ~OwesSettings(k) /\ ~OwesUsers(k) /\ ~OwesMode(k)
    BY <1>1 DEF InFlight, AdminInv, RecordFits, OwesSettings, OwesUsers, OwesMode, Acted
  <2> QED BY <1>1, <2>1, <2>2 DEF ShownOrOwed
<1> QED BY <1>1 DEF AdminInv, AdminIsTruthful, ShownIsServer

LEMMA AdminInv_Typed ==
    ASSUME ClicksTyped, AdminInv
    PROVE  AdminTypeOK
<1>1. \A k \in Clicks : click[k].at \in Ats
  BY DEF ClicksTyped, ClickRecords
<1> QED BY <1>1 DEF ClicksTyped, StoresTyped, AdminInv, AdminRest, AdminTypeOK, Ats,
           ShownSettings, ShownModes
-----------------------------------------------------------------------------
(* The rest of the types: the consent form, and the bounds of the sign-in *)

ConsentRest ==
    /\ readiness \in Reasons \cup {"unknown"} /\ refresh \in Reasons \cup {"none"}
    /\ uploaded \subseteq 1 .. Mics /\ ticked \in BOOLEAN
    /\ others \in 0 .. MaxOthers /\ switching \subseteq [mode : Modes, up : BOOLEAN]

LEMMA ConsentRestInit_Inv == Init => ConsentRest
<1> SUFFICES ASSUME Init PROVE ConsentRest
  OBVIOUS
<1>1. 0 \in 0 .. MaxOthers /\ {} \in SUBSET (1 .. Mics)
  BY OthersAssumption
<1>2. Readiness \in Reasons
  BY DEF Readiness, Reasons
<1> QED BY <1>1, <1>2 DEF Init, ConsentInit, CloudInit, ConsentRest

LEMMA OthersAreCounted ==
    ASSUME [Next]_vars
    PROVE  /\ others' = others \/ (others < MaxOthers /\ others' = others + 1)
           /\ UNCHANGED switching \/ ChangedElsewhere
<1> USE DEF cloudVars, otherVars
<1>1. CASE AtDashboard
  BY <1>1 DEF AtDashboard, ConsentNext, AskReadiness, ReadinessArrives, TickConfidential,
     TickCloud, BeginMeeting, CreateChecked, CreateInserted, ConsentChecked, ConsentWritten, StartMeeting,
     PassBegins, Upload, CloudFails, LocalPass
<1>2. CASE AdminNext
  <2>1. ASSUME NEW k \in Clicks,
               \/ LoadHandled(k) \/ PatchHandled(k) \/ ModeChecked(k) \/ ModeHandled(k)
               \/ BackupHandled(k) \/ RemoveHandled(k) \/ UserHandled(k) \/ RefetchHandled(k)
        PROVE  UNCHANGED <<others, switching>>
    BY <2>1 DEF LoadHandled, PatchHandled, ModeChecked, ModeHandled, BackupHandled,
       RemoveHandled, UserHandled, RefetchHandled, Refused, CarriedOut
  <2>2. ASSUME NEW k \in Clicks,
               \/ \E p \in Profiles : ClickProfile(k, p)
               \/ \E key \in Keys, value \in BOOLEAN : ClickKey(k, key, value)
               \/ \E m \in Modes : ClickMode(k, m)
               \/ ClickBackup(k) \/ ClickUser(k) \/ ClickRemove(k) \/ Reload(k)
        PROVE  UNCHANGED <<others, switching>>
    BY <2>2 DEF ClickProfile, ClickKey, ClickMode, ClickBackup, ClickUser, ClickRemove, Reload,
       Begin
  <2>3. ASSUME NEW k \in Clicks,
               \/ LoadArrives(k) \/ PatchArrives(k) \/ ModeArrives(k) \/ UserArrives(k)
               \/ RefetchArrives(k) \/ BackupArrives(k) \/ RemoveArrives(k) \/ ClickFails(k)
        PROVE  UNCHANGED <<others, switching>>
    BY <2>3 DEF LoadArrives, PatchArrives, ModeArrives, UserArrives, RefetchArrives,
       BackupArrives, RemoveArrives, ClickFails
  <2>4. CASE OpenAdmin \/ Dialog
    BY <2>4 DEF OpenAdmin, Dialog
  <2> QED BY <1>2, <2>1, <2>2, <2>3, <2>4 DEF AdminNext
<1>3. CASE Elsewhere
  BY <1>3 DEF Elsewhere, ChangedElsewhere, SettingElsewhere, SwitchElsewhere,
     SwitchedElsewhere
<1>4. CASE AtSignIn \/ AtMeeting(MeetingNext)
  BY <1>4 DEF AtSignIn, AtMeeting
<1>5. CASE AtDocuments(DocumentsNext) \/ AtSearch \/ AtTasks \/ AtRecording
  BY <1>5 DEF AtDocuments, AtSearch, AtTasks, AtRecording
<1>6. CASE UNCHANGED vars
  BY <1>6 DEF vars
<1> QED BY <1>1, <1>2, <1>3, <1>4, <1>5, <1>6 DEF Next, AtAdmin

LEMMA ConsentRestNext_Inv ==
    ASSUME CloudInv, ConsentRest, [Next]_vars
    PROVE  ConsentRest'
<1>1. others' \in 0 .. MaxOthers
  <2>1. others \in 0 .. MaxOthers /\ MaxOthers \in Nat
    BY OthersAssumption DEF ConsentRest
  <2> QED BY <2>1, OthersAreCounted
<1>s. switching' \subseteq [mode : Modes, up : BOOLEAN]
  <2>1. CASE UNCHANGED switching
    BY <2>1 DEF ConsentRest
  <2>2. CASE ChangedElsewhere
    BY <2>2 DEF ChangedElsewhere, SettingElsewhere, SwitchElsewhere, SwitchedElsewhere,
                ConsentRest
  <2> QED BY <2>1, <2>2, OthersAreCounted
<1>2. CASE UNCHANGED consentVars
  BY <1>1, <1>s, <1>2 DEF ConsentRest, consentVars, readinessVars, rowVars
<1>3. CASE ConsentNext
  <2>1. readiness' \in Reasons \cup {"unknown"} /\ refresh' \in Reasons \cup {"none"}
    <3>1. Readiness \in Reasons
      BY DEF Readiness, Reasons
    <3>2. CASE AskReadiness \/ ReadinessArrives
      BY <3>1, <3>2 DEF AskReadiness, ReadinessArrives, ConsentRest
    <3>3. CASE UNCHANGED readinessVars
      BY <3>3 DEF readinessVars, ConsentRest
    <3> QED BY <1>3, <3>2, <3>3 DEF ConsentNext, TickConfidential, TickCloud, BeginMeeting,
         CreateChecked, CreateInserted, ConsentChecked, ConsentWritten, StartMeeting, PassBegins, Upload,
         CloudFails, LocalPass
  <2>2. uploaded' \subseteq 1 .. Mics
    <3>1. CASE Upload
      BY <3>1 DEF Upload, ConsentRest
    <3>2. CASE UNCHANGED uploaded
      BY <3>2 DEF ConsentRest
    <3> QED BY <1>3, <3>1, <3>2 DEF ConsentNext, AskReadiness, ReadinessArrives,
         TickConfidential, TickCloud, BeginMeeting, CreateChecked, CreateInserted, ConsentChecked,
         ConsentWritten, StartMeeting, PassBegins, CloudFails, LocalPass, rowVars
  <2>3. ticked' \in BOOLEAN
    <3>1. CASE BeginMeeting \/ ConsentWritten
      BY <3>1 DEF BeginMeeting, ConsentWritten, BoxTicked, ConsentRest
    <3>2. CASE UNCHANGED ticked
      BY <3>2 DEF ConsentRest
    <3> QED BY <1>3, <3>1, <3>2 DEF ConsentNext, AskReadiness, ReadinessArrives,
         TickConfidential, TickCloud, CreateChecked, CreateInserted, ConsentChecked, StartMeeting, PassBegins,
         Upload, CloudFails, LocalPass, rowVars
  <2> QED BY <1>1, <1>s, <2>1, <2>2, <2>3 DEF ConsentRest
<1> QED BY <1>2, <1>3, CloudStepKinds DEF consentVars

LEMMA CloudInv_Typed ==
    ASSUME CloudInv, ConsentRest
    PROVE  CloudTypeOK /\ ConsentTypeOK
  BY DEF CloudInv, SettingsTyped, RowHolds, FormTyped, Passes, ConsentRest, CloudTypeOK,
         ConsentTypeOK

(* A password that a handler has was one of the account's. *)
Passworded(b) ==
    /\ request[b].password \in 0 .. MaxPasswords
    /\ request[b].do \in {"setup", "login", "change"} => request[b].password \in Passwords

SignRest ==
    /\ who \in [Browsers -> Accounts \cup {NoAccount}]
    /\ \A b \in Browsers : Passworded(b)
    /\ password \in [Accounts -> Passwords]
    /\ \A s \in sessions : s.password \in Passwords
    /\ tokens <= MaxTokens /\ broken \in 0 .. MaxBroken
    /\ late \subseteq 1 .. MaxTokens /\ kept \subseteq 1 .. MaxTokens /\ stayed \subseteq Browsers

LEMMA SignRestInit_Inv == Init => SignRest
<1> SUFFICES ASSUME Init PROVE SignRest
  OBVIOUS
<1>1. /\ who = [b \in Browsers |-> NoAccount] /\ request = [b \in Browsers |-> Ask("status")]
      /\ password = [a \in Accounts |-> 1]
      /\ sessions = {} /\ tokens = 0 /\ broken = 0 /\ late = {} /\ kept = {} /\ stayed = {}
  BY DEF Init, SignInInit
<1>2. 1 \in Passwords /\ 0 \in 0 .. MaxPasswords /\ 0 \in 0 .. MaxBroken /\ 0 <= MaxTokens
  BY SignInAssumption DEF Passwords
<1>3. Ask("status").password = 0 /\ Ask("status").do = "status"
  BY DEF Ask, Quiet
<1>4. \A b \in Browsers : Passworded(b)
  BY <1>1, <1>2, <1>3 DEF Passworded
<1> QED BY <1>1, <1>2, <1>4 DEF SignRest

(* The page asks, or has done with an answer: no table is written. *)
LEMMA RestAtPage ==
    ASSUME SignInv, SignRest, NEW b \in Browsers,
           \/ ReloadTab(b) \/ ClickLogout(b) \/ BootArrives(b)
           \/ \E a \in Accounts : ClickSetup(b, a) \/ \E p \in Passwords : ClickLogin(b, a, p)
           \/ \E p \in Passwords : ClickChange(b, p)
           \/ FormArrives(b) \/ LogoutArrives(b) \/ RequestLost(b)
    PROVE  SignRest'
<1>1. UNCHANGED <<password, sessions, tokens, late>>
  BY DEF ReloadTab, ClickLogout, BootArrives, ClickSetup, ClickLogin, ClickChange, FormArrives,
         LogoutArrives, RequestLost
<1>2. /\ request \in [Browsers -> Requests] /\ request[b] \in Requests
      /\ request[b].account \in Accounts \cup {NoAccount}
  BY DEF SignInv, TabsTyped, Requests
<1>3. who' \in [Browsers -> Accounts \cup {NoAccount}]
  <2>1. \/ UNCHANGED who \/ who' = [who EXCEPT ![b] = NoAccount]
        \/ who' = [who EXCEPT ![b] = request[b].account]
        \/ who' = [who EXCEPT ![b] = IF request[b].do = "change" THEN @ ELSE request[b].account]
    BY DEF ReloadTab, ClickLogout, BootArrives, ClickSetup, ClickLogin, ClickChange, FormArrives,
           LogoutArrives, RequestLost, SignedOut
  <2> QED BY <1>2, <2>1 DEF SignRest
<1>4. /\ broken' \in 0 .. MaxBroken /\ stayed' \subseteq Browsers
      /\ kept' \subseteq 1 .. MaxTokens
  <2>1. CASE RequestLost(b)
    <3>1. broken' \in 0 .. MaxBroken /\ stayed' \subseteq Browsers
      BY <2>1, SignInAssumption DEF RequestLost, SignRest
    <3>2. \A s \in sessions : s.token \in 1 .. MaxTokens
      <4>1. ASSUME NEW s \in sessions
            PROVE  s.token \in Nat /\ 1 <= s.token /\ s.token <= tokens
        BY <4>1 DEF SignInv, TablesTyped, TokensAreGiven
      <4>2. MaxTokens \in Nat /\ tokens \in Nat /\ tokens <= MaxTokens
        BY SignInAssumption DEF SignInv, TablesTyped, SignRest
      <4> QED BY <4>1, <4>2
    <3>3. \A t \in kept' : t \in kept \/ \E s \in sessions : t = s.token
      BY <2>1 DEF RequestLost
    <3>4. kept' \subseteq 1 .. MaxTokens
      BY <3>2, <3>3 DEF SignRest
    <3> QED BY <3>1, <3>4
  <2>2. CASE UNCHANGED <<broken, stayed, kept>>
    BY <2>2 DEF SignRest
  <2> QED BY <2>1, <2>2 DEF ReloadTab, ClickLogout, BootArrives, ClickSetup, ClickLogin,
       ClickChange, FormArrives, LogoutArrives
<1>5. 0 \in 0 .. MaxPasswords /\ 1 \in Passwords /\ Passwords \subseteq 0 .. MaxPasswords
  BY SignInAssumption DEF Passwords
<1>6. (\A k \in Browsers : Passworded(k))'
  <2>1. ASSUME NEW what \in {"status", "me", "logout"},
               request' = [request EXCEPT ![b] = Ask(what)]
        PROVE  (\A k \in Browsers : Passworded(k))'
    <3>1. Ask(what).password = 0 /\ Ask(what).do = what
      BY DEF Ask, Quiet
    <3> QED BY <1>2, <1>5, <2>1, <3>1 DEF SignRest, Passworded
  <2>2. CASE request' = [request EXCEPT ![b] = Quiet]
    <3>1. Quiet.password = 0 /\ Quiet.do = "none"
      BY DEF Quiet
    <3> QED BY <1>2, <1>5, <2>2, <3>1 DEF SignRest, Passworded
  <2>3. ASSUME NEW what \in Handlers, NEW a, NEW p \in Passwords,
               \/ request' = [request EXCEPT ![b] = [Ask(what) EXCEPT !.account = a,
                                                                      !.password = p]]
               \/ request' = [request EXCEPT ![b] = [Ask(what) EXCEPT !.password = p]]
        PROVE  (\A k \in Browsers : Passworded(k))'
    <3>1. /\ [Ask(what) EXCEPT !.account = a, !.password = p].password = p
          /\ [Ask(what) EXCEPT !.password = p].password = p
      BY DEF Ask, Quiet
    <3> QED BY <1>2, <1>5, <2>3, <3>1 DEF SignRest, Passworded
  <2>4. CASE ReloadTab(b) \/ ClickLogout(b) \/ BootArrives(b)
    BY <2>1, <2>2, <2>4 DEF ReloadTab, ClickLogout, BootArrives
  <2>5. CASE FormArrives(b) \/ LogoutArrives(b) \/ RequestLost(b)
    BY <2>2, <2>5 DEF FormArrives, LogoutArrives, RequestLost
  <2>6. CASE \E a \in Accounts : ClickSetup(b, a) \/ \E p \in Passwords : ClickLogin(b, a, p)
    BY <1>5, <2>3, <2>6 DEF ClickSetup, ClickLogin, Handlers
  <2>7. CASE \E p \in Passwords : ClickChange(b, p)
    BY <2>3, <2>7 DEF ClickChange, Handlers
  <2> QED BY <2>4, <2>5, <2>6, <2>7
<1> QED BY <1>1, <1>3, <1>4, <1>6 DEF SignRest

(* A handler goes on with the password it has. *)
LEMMA RestAtServer ==
    ASSUME SignInv, SignRest, NEW b \in Browsers,
           \/ BootHandled(b) \/ SetupChecked(b) \/ SetupInserted(b) \/ LoginChecked(b)
           \/ CookieChecked(b) \/ LogoutRevokes(b) \/ ChangeRevokes(b)
    PROVE  SignRest'
<1>1. /\ UNCHANGED <<who, password, tokens, broken, late, kept, stayed>>
      /\ sessions' \subseteq sessions
  BY DEF BootHandled, SetupChecked, SetupInserted, LoginChecked, CookieChecked, LogoutRevokes,
         ChangeRevokes, Revoke
<1>2. request \in [Browsers -> Requests] /\ request[b] \in Requests
  BY DEF SignInv, TabsTyped
<1>3. \/ \E at : Moves(b, at)
      \/ \E at, a : request' = [request EXCEPT ![b].at = at, ![b].account = a]
  <2>1. CASE CookieChecked(b)
    BY <2>1 DEF CookieChecked
  <2>2. CASE BootHandled(b)
    BY <2>2 DEF BootHandled
  <2> QED BY <2>1, <2>2 DEF SetupChecked, SetupInserted, LoginChecked, LogoutRevokes,
       ChangeRevokes
<1>4. /\ request'[b].do = request[b].do /\ request'[b].password = request[b].password
      /\ \A k \in Browsers : k # b => request'[k] = request[k]
  BY <1>2, <1>3 DEF Moves, Requests
<1>5. (\A k \in Browsers : Passworded(k))'
  BY <1>4 DEF SignRest, Passworded
<1> QED BY <1>1, <1>5 DEF SignRest

LEMMA RestOfSession ==
    ASSUME SignInv, SignRest, NEW b \in Browsers,
           SetupSession(b) \/ LoginSession(b) \/ ChangeSession(b)
    PROVE  SignRest'
<1>1. /\ CreateSession(b, request[b].account, request[b].password)
      /\ UNCHANGED <<who, password, broken, kept, stayed>>
      /\ request[b].do \in {"setup", "login", "change"}
  BY DEF SetupSession, LoginSession, ChangeSession, At
<1>2. /\ request \in [Browsers -> Requests] /\ request[b] \in Requests /\ tokens \in Nat
      /\ request[b].password \in Passwords
  BY <1>1 DEF SignInv, TabsTyped, TablesTyped, SignRest, Passworded
<1>3. tokens' = tokens + 1 /\ tokens' <= MaxTokens /\ tokens' \in 1 .. MaxTokens
  BY <1>1, <1>2, SignInAssumption DEF CreateSession
<1>4. late' \subseteq 1 .. MaxTokens
  BY <1>1, <1>3 DEF CreateSession, SignRest
<1>5. \A s \in sessions' : s.password \in Passwords
  BY <1>1, <1>2 DEF CreateSession, SignRest
<1>6. /\ request'[b].do = request[b].do /\ request'[b].password = request[b].password
      /\ \A k \in Browsers : k # b => request'[k] = request[k]
  BY <1>1, <1>2 DEF CreateSession, Requests
<1>7. (\A k \in Browsers : Passworded(k))'
  BY <1>6 DEF SignRest, Passworded
<1> QED BY <1>1, <1>3, <1>4, <1>5, <1>7 DEF SignRest

LEMMA RestOfChange ==
    ASSUME SignInv, SignRest, NEW b \in Browsers, ChangeWritten(b)
    PROVE  SignRest'
<1> DEFINE a == request[b].account
<1>0. a \in Accounts
  BY DEF SignInv, RequestsHold, Holds, ChangeWritten, At
<1>1. /\ UNCHANGED <<who, sessions, tokens, broken, late, kept, stayed>>
      /\ password[a] < MaxPasswords
      /\ password' = [password EXCEPT ![a] = @ + 1]
      /\ request' = [request EXCEPT ![b].at = "written", ![b].password = password[a] + 1]
  BY DEF ChangeWritten
<1>2. /\ request \in [Browsers -> Requests] /\ request[b] \in Requests
      /\ password[a] + 1 \in Passwords
  BY <1>0, <1>1, SignInAssumption DEF SignInv, TabsTyped, SignRest, Passwords
<1>3. password' \in [Accounts -> Passwords]
  BY <1>0, <1>1, <1>2 DEF SignRest
<1>4. /\ request'[b].password = password[a] + 1
      /\ \A k \in Browsers : k # b => request'[k] = request[k]
  BY <1>1, <1>2 DEF Requests
<1>5. (\A k \in Browsers : Passworded(k))'
  BY <1>2, <1>4, SignInAssumption DEF SignRest, Passworded, Passwords
<1> QED BY <1>1, <1>3, <1>5 DEF SignRest

LEMMA SignRestNext_Inv ==
    ASSUME SignInv, SignRest, [Next]_vars
    PROVE  SignRest'
<1>1. CASE SignInNext
  BY <1>1, RestAtPage, RestAtServer, RestOfSession, RestOfChange DEF SignInNext
<1>2. CASE UNCHANGED signInVars
  BY <1>2 DEF SignRest, Passworded, signInVars
<1> QED BY <1>1, <1>2, SignStepKinds

LEMMA SignInv_Typed ==
    ASSUME SignInv, SignRest
    PROVE  SignInTypeOK
<1>0. MaxTokens \in Nat /\ tokens \in Nat /\ tokens <= MaxTokens
  BY SignInAssumption DEF SignInv, TablesTyped, SignRest
<1>1. cookie \in [Browsers -> 0 .. MaxTokens]
  BY <1>0 DEF SignInv, TabsTyped, TokensAreGiven
<1>2. ASSUME NEW b \in Browsers
      PROVE  request[b] \in [do : Handlers, at : Places, account : Accounts \cup {NoAccount},
                             password : 0 .. MaxPasswords, token : 0 .. MaxTokens]
  <2>1. request[b] \in Requests /\ request[b].token <= tokens
    BY DEF SignInv, TabsTyped, RequestsHold, Holds
  <2>2. request[b].token \in 0 .. MaxTokens
    BY <1>0, <2>1 DEF Requests
  <2>3. request[b].password \in 0 .. MaxPasswords
    BY DEF SignRest, Passworded
  <2> QED BY <2>1, <2>2, <2>3 DEF Requests
<1>3. ASSUME NEW s \in sessions
      PROVE  s \in [token : 1 .. MaxTokens, account : Accounts, password : Passwords]
  <2>1. /\ s \in [token : Nat, account : Accounts, password : Nat]
        /\ 1 <= s.token /\ s.token <= tokens
    BY DEF SignInv, TablesTyped, TokensAreGiven
  <2>2. s.token \in 1 .. MaxTokens /\ s.password \in Passwords
    BY <1>0, <2>1 DEF SignRest
  <2> QED BY <2>1, <2>2
<1>4. request \in [Browsers -> [do : Handlers, at : Places, account : Accounts \cup {NoAccount},
                                password : 0 .. MaxPasswords, token : 0 .. MaxTokens]]
  BY <1>2 DEF SignInv, TabsTyped
<1> QED BY <1>0, <1>1, <1>3, <1>4 DEF SignInv, TabsTyped, TablesTyped, SignRest, SignInTypeOK
-----------------------------------------------------------------------------
(* The theorems *)

PagesInv ==
    /\ route \in Routes
    /\ CloudInv /\ ConsentRest /\ AdminInv /\ MeetingHolds
    /\ SignInv /\ SignRest /\ DocInv /\ DocRest /\ ListInv
    /\ SearchInv /\ TasksInv /\ DeskInv

LEMMA PagesInit_Inv == Init => PagesInv
<1> SUFFICES ASSUME Init PROVE PagesInv
  OBVIOUS
<1>1. route \in Routes
  BY DEF Init
<1> QED BY <1>1, CloudInit_Inv, ConsentRestInit_Inv, AdminInit_Inv, MeetingInit_Inv,
           SignInit_Inv, SignRestInit_Inv, DocInit_Inv, DocRestInit_Inv, ListInit_Inv,
           SearchInit_Inv, TasksInit_Inv, DeskInit_Inv DEF PagesInv

LEMMA PagesNext_Inv ==
    ASSUME PagesInv, [Next]_vars
    PROVE  PagesInv'
<1>1. (route \in Routes)'
  BY PageKinds DEF PagesInv, Routes
<1>2. CloudInv' /\ ConsentRest' /\ AdminInv'
  BY CloudNext_Inv, ConsentRestNext_Inv, AdminNext_Inv DEF PagesInv, CloudInv
<1>3. MeetingHolds' /\ SearchInv' /\ TasksInv' /\ DeskInv'
  BY MeetingNext_Inv, SearchNext_Inv, TasksNext_Inv, DeskNext_Inv DEF PagesInv
<1>4. SignInv' /\ SignRest'
  BY SignNext_Inv, SignRestNext_Inv DEF PagesInv
<1>5. DocInv' /\ DocRest' /\ ListInv'
  BY DocNext_Inv, DocRestNext_Inv, ListNext_Inv DEF PagesInv
<1> QED BY <1>1, <1>2, <1>3, <1>4, <1>5 DEF PagesInv

(* Every variable of every page and of the server behind it has its type,   *)
(* and the counters their bounds.                                           *)
THEOREM TypeCorrect == Spec => []TypeOK
<1>1. PagesInv => TypeOK
  <2> SUFFICES ASSUME PagesInv PROVE TypeOK
    OBVIOUS
  <2>1. CloudTypeOK /\ ConsentTypeOK /\ AdminTypeOK /\ MeetingTypeOK /\ SignInTypeOK
    BY CloudInv_Typed, AdminInv_Typed, MeetingHolds_Typed, SignInv_Typed DEF PagesInv, CloudInv
  <2>2. DocumentsTypeOK /\ DeskTypeOK
    BY DocInv_Typed, DeskInv_Typed DEF PagesInv
  <2>3. SearchTypeOK
    BY DEF PagesInv, SearchInv, SearchTyped, SearchRecords, Hits, SearchTypeOK
  <2>4. TasksTypeOK
    <3>1. \A k \in Cycles : cycling[k] \in CycleRecords
      BY DEF PagesInv, TasksInv, TasksTyped
    <3> QED BY <3>1 DEF PagesInv, TasksInv, TasksTyped, CycleRecords, StatusLists, TasksTypeOK
  <2> QED BY <2>1, <2>2, <2>3, <2>4 DEF PagesInv, TypeOK
<1> QED BY PagesInit_Inv, PagesNext_Inv, <1>1, PTL DEF Spec

(* A page at rest tells what is so at the server, unless one of the races   *)
(* that the property of the page names has happened: the management page    *)
(* unless handlers overlapped, a request was lost, somebody else changed a  *)
(* setting or the profile was patched after the mode was shown; the page of *)
(* a meeting unless its load failed or a load or an edit from before the URL*)
(* changed came last; the documents unless handlers overlapped or failed or *)
(* somebody else uploaded or removed one; the search unless its URL changed *)
(* during a search or lost its query, or two were under way together; the   *)
(* tasks unless cycles overlapped or failed or another device was used; the *)
(* desk unless an answer was lost, the input was typed into or renames met. *)
THEOREM PagesTruthful == Spec => []PagesAreTruthful
<1>1. PagesInv => PagesAreTruthful
  BY AdminInv_Truthful, ListInv_Listed, DeskInv_Truthful
     DEF PagesInv, PagesAreTruthful, MeetingHolds, SearchInv, TasksInv
<1> QED BY PagesInit_Inv, PagesNext_Inv, <1>1, PTL DEF Spec

=============================================================================
