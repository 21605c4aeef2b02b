# A specification of NeurAI

NeurAI records meetings, transcribes them after they end, indexes the transcripts
and answers questions about them, on one machine and offline by default. The
server is a FastAPI process (`src/server/neurai`) with one asyncio event loop, a
thread pool for `def` endpoints and one SQLite database; the browser client, React
with one router, is in `src/webui/src`. This directory models the parts whose
correctness depends on the order in which those actors act, on crashes, lost
requests and partial failures, checks them with TLC on small instances and proves
general facts with TLAPS.

## How the program executes, and what follows for the models

* **One event loop.** `async def` handlers, the job worker, its job handlers and
  the sockets are coroutines of one loop. They interleave only where an `await`
  really suspends. `LiveSessionManager.start` and `stop` never do, nor does `feed`.
* **Threads.** `def` endpoints (create, delete, mics, sign-in, settings, removal of
  documents, backup) run on threads, so they act between any two statements of
  everything else.
* **One commit per statement** (`db/database.py:110-125`). A crash falls between any
  two statements, and so does a thread. Ids are AUTOINCREMENT and never come back;
  foreign keys are on.
* **Restart.** `_lifespan` recovers meetings that still say `live`, then starts the
  worker, then serves. Shutdown stops the worker and ends no session, so it looks
  like a crash to everything that is modelled here.
* **A page** is a React component; its handlers are `async` functions that nobody
  cancels. An unmounted component's handlers go on with its closures and refs; nothing
  keeps a user from starting the next handler while one waits, except where a button is
  disabled; an answer may be lost although the server acted.

Hence the rule of the models: an action is a stretch of code that no other actor and
no crash can divide with an effect a property could tell; a handler that can be
divided is a sequence of actions. At the browser the cuts are the awaits, at the server
the statements, and between them requests and answers that may be lost.

## Inventory

| Component | State | Operations | What is hard | What makes it correct |
|---|---|---|---|---|
| Job queue `jobs/queue.py` | `jobs` rows, worker task, wake event | enqueue, worker loop, start/stop | wake-ups from threads, restart, live gate | nothing forgotten, one at a time, heavy work yields |
| Live sessions `audio/session.py` | session table, writers, subscribers | start, stop, feed, recovery, fan-out | crash between statements, stop that raises | every recording gets exactly one pass |
| Meeting endpoints `api/meetings.py` | `meetings`, `meeting_mics` rows | create, start, stop, delete, mics, consent, notes, playback | checks on threads that are stale when used | deletion leaves nothing |
| Sockets `api/ws.py` | bound session and mic | audio, control, events | reconnects, events sent before subscription | no recorded chunk lost, clients follow |
| Sealed audio `security/audiocrypt.py` | file, keystream position | open, append, read a range | full disk, resume, offsets | decrypts everywhere, no position used twice |
| Quality pass `audio/quality_pass.py` | transcript, percent | cloud/local ASR, diarize, store | crash in the middle, deletion meanwhile, stale consent | done means transcribed; no upload without consent |
| Index `rag/ingest.py`, `rag/store.py` | `rag_chunks` | index, search | await between delete and insert | no confidential or deleted text |
| Documents `api/documents.py` | rows, files | list, upload, remove | as the index; two statements per removal | ready means searchable, removed means forgotten |
| Chat `api/chat.py`, `api/generation.py` | messages, registry | send, cancel, confirm | two sends on one chat, cancel against completion | one reply per send, one effect per card |
| Auth `api/auth.py`, `auth/*` | users, sessions, failures | setup, login, logout, change password | checks against concurrent writes | a changed password ends sessions |
| Settings `platform_ops.py`, `harness/connectivity.py`, `api/admin.py` | profile, mode, keys | settings, mode switch, readiness | checks with a probe, masks that hide a stored mode | online only after a probe |
| Harness `harness/*` | probe cache | routing, fallback, map-reduce, tool loop | stale probe, mid-task fallback | no cloud without consent |
| Skills `skills/*` | audit rows | execute | cancellation, confirmation | every effect audited |
| Chain, backup `security/adminlog.py`, `backup.py` | chain file | append, verify, snapshot | torn lines, effect before record | chain stays verifiable |
| Migrations `db/database.py` | schema, version row | migrate | crash between script and version | restart completes |
| Recording screen `LiveMeetingSection.tsx`, `DashboardPage.tsx`, `lib/mic.ts` | phase, refs, sockets, polls | begin, finish, follow, poll, notes, bookmarks | unmounting in mid-handler, lost answers | screen, microphone and server agree |
| Consent box `LiveMeetingSection.tsx`, `AppContext.tsx` | tick, cached readiness | tick, begin, refresh | readiness that is refreshed under a tick | what is sent is what was shown |
| Assistant `ChatContext.tsx`, `AppContext.tsx` | messages, one generation above the router | load, send, consume, stop, confirm | answers after sign-out, load against consumer | own chat only, once per send |
| Meeting page `MeetingPage.tsx` | view, poll | load, poll, edit | answers of another URL | the transcript arrives |
| Management page `AdminPage.tsx` | settings, mode, users | patch, switch, remove, create | overlapping and half-failed handlers | notices are true |
| Sign-in `App.tsx`, `LoginPage`, `SetupPage`, `SettingsPage` | boot, user | boot, sign in and out | a lost sign-out | signed out is out |
| Documents, search, follow-up pages | lists, forms | as their names say | overlapping requests | what is shown is of what was asked |

How they interact: `POST /start` puts a session into the manager, whose `any_live` is
the queue's gate; sockets feed the session; stop (or recovery) enqueues the quality
pass; the pass, run by the worker, enqueues the index job; deletion, on a thread,
removes what all of them write. The recording screen makes the meeting, opens the
sockets, and polls the row until the pass has settled it; the management page and other
devices change the settings that decide whether a consented meeting goes to the cloud.
`PROJECT.json` lists the hazards with their lines.

## Modules

| Module | Models | Role |
|---|---|---|
| `JobTable` | the `jobs` table | operators on a table value, one per SQL statement |
| `JobQueue` | `jobs/queue.py` | state machine over `JobTable` |
| `WorkLedger` | what the queue promises its callers | abstract specification |
| `MeetingPipeline` | `api/meetings.py`, `audio/session.py`, `audio/quality_pass.py`, `rag/*`, deletion, lifespan | composes the meeting, the live sessions and the worker over `JobTable` |
| `Recording` | mics, sockets, writers, sealed files | state machine |
| `LiveScreen` | recording screen, dashboard, microphone, both sockets, the server they talk to | composes browser and server |
| `Assistant` | conversation, generation state, chat routes and registry | composes browser and server |
| `CloudSettings` | profile, mode, keys and who changes them | used by the next two |
| `ConsentForm` | consent from the box to the upload | extends `CloudSettings` |
| `AdminScreen` | management page against its routes | extends `CloudSettings` |
| `MeetingScreen`, `SignIn`, `Documents`, `SearchScreen`, `TaskScreen`, `RecordingDesk` | one page each, with its routes | parts of `Screens` |
| `Screens` | the router | composes the eight modules above |
| `MC*` | | constants for TLC |
| `JobTableProofs` | | lemmas about the statements of the table, cited by both proofs |
| `JobQueueProofs`, `MeetingPipelineProofs`, `RecordingProofs`, `LiveScreenProofs`, `AssistantProofs` | | theorems about the module of that name |
| `ScreensProofs` | | theorems about `Screens`: what the cloud gets, documents, sign-in |
| `PagesProofs` | | extends `ScreensProofs`: what the pages show, and the types of all of them |

### JobTable, JobQueue, WorkLedger

A table is a function on `JobId`; `Inserted`, `Marked`, `Requeued` and `IsNextJob`
are the SQL statements of the queue. The priority is a function of the kind because
each kind is enqueued at one place, or at two that agree.

`JobQueue` follows the worker coroutine: `scan` (about to call `_next_job`), `clear`
(it returned None and `_wake.clear()` comes next), `wait`, `run`. Coroutines may
enqueue only in `down`, `wait` and `run` (`LoopYields`); the backup endpoint may
insert and wake at any time and in two steps (`ThreadInsert`, `ThreadWake`), which is
how a wake-up gets lost in `ClearWake`. `Crash` is a kill and also `stop()`: the
cancelled handler leaves its row running. `Start` puts running rows back. The kind
`summarize_meeting`, which `HEAVY_KINDS` names and nobody registers, stands for a row
without a handler.

`WorkLedger` knows accepted jobs, the executing one and outcomes. The queue
implements it with `accepted` = the rows, `executing` = the awaited job, `outcome` = the
status of a settled row: a crash is `Abandon`, a row without a handler `Reject`.

### MeetingPipeline

Per meeting: the row's status and sensitivity, its mic rows (`mic`: not there yet,
without a recording, naming one, removed), the file it names for playback, for each mic
the recording on disk (chunks), its transcript (segments) and its writer (none, appending
to the recording, or to a file that was unlinked under it), whether the index has it, the
live session, and how far a removal of a mic and a delete request have got; and the
journal, the worker with its handler's place, and the process. `LoopFree` says no
coroutine is between two statements: the stop handler is there while `handoff` is set,
and the job handlers between `storing` and `closing`. Threads do not ask for it. The
transcript and index are counters and flags: what a property distinguishes is whether
all, some or none of a mic's recording is there.

Recovery and the pass ask the mic rows, not the disk (`Audible`), so a row that
`remove_mic` deletes after its check takes a recording out of their sight. A delete is its
check, the read of the mic rows (`DeleteReads`), the index, the default file and
one unlink per mic (`DeleteFile`), and the row last; the pass, a start or a crash falls
between any two. A stop that raises (`StopFails`) leaves some writers open: they are
`stray`, and may write later (`StrayWrites`); `Recording` shows what they write where. The
ghost `late` has the mics such a write went to. `StartPass` has four outcomes: the meeting
is gone (not an error), no mic row names a recording (failed), ASR begins, or a file
vanishes between `exists()` and `pcm_size()` while a delete is under way. Two delete
requests for one meeting at a time are not modelled: their statements are the same
and idempotent.

### Recording

One meeting with its mics. `feeding` is the step `feed` has reached: open or resume
the file, name it in the mic's row, name it as the meeting's default, write. A cell of a file
is a chunk with the keystream position it was encrypted at, so "decrypts" is
`pos = index - 1` and "two-time pad" is a position that occurs twice. Python's
buffered file is external and modelled by what it does: when a flush fails it keeps
what it had taken, refuses a chunk that does not fit (the buffer of 4096 to 8192
bytes holds one chunk of the browser's), and loses what it holds when
closing raises. Partial flushes are not distinguished from failing ones.

`finish` stops at the first `close()` that raises: the writer that raised loses its
buffer, and the ones behind it in the dictionary stay open. Each of those is a `stray`
with the place it will write at. Python flushes it when the last reference goes
(`StrayWrites`): a writer opened with `ab` appends, one that had created its file with `wb`
writes where it had stopped, over what a resumed session has written since
(`Overwritten`); on a full disk it is lost (`StrayLost`). The ghost `late` marks a recording
that a stray writer wrote to when another writer was at the file, or had been (`Overtaken`). The disk neither fills nor empties while `finish` runs.

### LiveScreen

Browser and server of one dashboard. The section is remounted when the dashboard's
lists are loaded again, and its handlers survive it, so `step[m]` (the await at which
`begin` of meeting `m` stands), `held[m]` (what the refs of that instance hold) and
`alive[m]` (that instance is mounted) are kept per meeting, while `phase`, `meetingId`
and `error` belong to the mounted instance. `StopMics` is `MicStream.stop()`, `Unmount`
the cleanup of the effects, which finds only what the refs hold at that moment. The
socket of the audio and the one of the events have the steps a race needs: the server looks
the session up (`EventsLookup`), subscribes after `accept()` (`EventsSubscribe`), and a
session that ended in between leaves the socket `deaf`. The server's side is the row
(`server`) and, apart from it, the session (`sessions`): a stop that raises (`EndFails`) takes
the session and leaves the row live, no `ended` is sent, and a stop request that comes after
is answered 200, so that the screen shows processing of a live row. `fin[m][c]` is one call of
`finish`: nothing keeps the user from clicking again, and a second call fails on the stream of
the first (`FinishTwice`) or sends its own request.

Ghosts: `unstopped` (a stop of the meeting raised), `unsure` (a start or stop request was lost), `leftEarly` (the section went away
in mid-start), `asked` (someone wanted the meeting to end), `cutShort` (the page threw
the section out). Each property names the ghost that excuses it, and no other excuse.

### Assistant

A send is a click and all that follows from it: perhaps a chat to create, a request, the
task at the server, the answer, the card. `chatGen` of `AppContext` outlives the
provider of the conversation (`gen`, `genStatus`, `genResult`); the provider's state
is cleared by a sign-out, while requests under way go on. `entry[c]` and `flag[c]` are the
registry keyed by chat: a second send replaces the first one's entry, and the first to end
removes the entry of the other (`generation.py:31-32`). What the model answers is nondeterministic. `early` marks a send
clicked before the load was over, or without a chat yet: those can leave a result
that no conversation takes, and both properties about leftovers say so.

### CloudSettings, ConsentForm, AdminScreen

`CloudSettings` has the profile, the stored mode (which an isolated profile masks and
does not erase), the keys and the reachability of the network. `ConsentForm` follows one
meeting from the tick to the upload: the box is shown by a cached readiness that is fetched
again at any time, create, the consent route and the switch of the mode each read (and
probe) and then write, and the pass looks once before the first microphone. Others switch
the mode in two steps as well (`SwitchElsewhere`, `SwitchedElsewhere`). `AdminScreen` has one record per click of the
page, at the await its handler has reached; click 0 is the load on mounting. A removal of a
meeting may be refused (404, or 409 while it is being recorded). The ghost `done` says
which operations the server carried out, `doubt` that handlers overlapped, a request was lost or
someone else changed a setting, `patched` the one value the page does not fetch again.

### MeetingScreen, SignIn, Documents, SearchScreen, TaskScreen, RecordingDesk

Each has the page's state, its requests in flight (a set or a record per click) and the
rows behind its routes. Where a route is more than one statement it is more than one action:
`SignIn` has setup, login, logout and password change statement by statement on threads
of their own, each of which may fail or die after any of them; `Documents` the two statements of an
upload, the two of a removal and the index job with its await between delete and insert, and
beside the page the uploads and removals of other tabs, of administrators and of the
assistant's skill (`AskedElsewhere`); `MeetingScreen` the edits (names of speakers, notes) whose
handlers load the transcript again; `SearchScreen` the return to the empty query, which leaves
the old hits there (`ClearUrl`); `RecordingDesk` the renaming of a mic by another device.

Ghosts, again, name what excuses a property: `crossed` (the load or the edit of a previous URL came
last), `late` (a session made by a handler that had seen an earlier password), `kept` (sessions
left by a password change that failed between its two commits), `raced`, `stayed` in
`SignIn`, `torn`, `stranded`, `overrun` and `unlisted` (changed by others since the list was
read) in `Documents`, `strayed` and `doubled` in `SearchScreen`, `stale` and `skipped` in
`TaskScreen`, `unstored`, `unsaid`, `wiped`, `renamedTwice` (also by another device) in
`RecordingDesk`.

An excuse is a known limit of the program and not a proof that the case is harmless. The ones
that go against what the code says of itself without a run of their own:

* A password change that fails between its UPDATE and its DELETE leaves every session made
  with the old password valid (`kept`), against "changing the password revokes every existing
  session" (`auth.py:118`).
* `ConsentWritten` may follow `StartMeeting`: the consent route looks at the status in one
  statement and writes in another, against "pre-meeting only" (`meetings.py:173`).
* A stray writer that had created its file writes over what a resumed session recorded
  (`late` in `Recording`), against "Append-only encrypted PCM writer" (`audiocrypt.py:61`).

Two divisions are left out because no property can tell: `RefuseJob` of `JobQueue` is two commits
(nothing reads a row of an unknown kind between them), and `IndexBegins` of `Documents` reads the row,
extracts and deletes the old chunks in one step (an extraction that fails before the delete
leaves what the row's failure says anyway).

### Screens

The router mounts one page, and its state goes with it, so the composition picks a route
at the start and stays there; what other tabs and users do to the settings meanwhile is
`ChangedElsewhere`. Where a page takes no part in a setting, the initial state fixes it.

## Runs

| Run | Bounds | Shows |
|---|---|---|
| `queue` | 3 rows of any kind, 1 subject, 1 crash, 2 meetings | order, gate, lost wake-up, requeue, refinement, liveness |
| `pipeline` | 1 meeting, 2 mics, 1 chunk each, 1 removal and 1 delete at a time, 1 stop that raises, 2 crashes | eight invariants, the status machine, the ledger and the verdict |
| `recording` | 2 mics, 3 chunks each, 2 full disks, 1 crash | five properties of recordings |
| `live_screen` | 2 meetings, 2 clicks to end each, 1 list request, 1 poll and 1 fault | screen, microphone and server agree, and the screen catches up |
| `assistant` | 2 users, 2 chats, 2 sends, 2 sign-ins, 1 lost request | no reply to the wrong user, twice, or lost; the stop button comes free |
| `screens` | per page 1 to 3 handlers, 1 or 2 faults, two of everything named, 1 call by others on the documents | what the cloud gets, accounts and sessions, documents and index, truthful pages, two liveness properties |
| `index_outlives`, `audio_outlives`, `stuck_processing`, `keystream`, `mic_vanishes`, `consent_shown` | as small as the case allows | what the documentation, or the screen, says and the code does not keep |

Why the bounds are enough to be interesting: three rows give a head, a job behind it
and one inserted meanwhile; two crashes make recovery itself crash and a repeated pass
crash again; two mics tell a removed row, an unlinked file and a writer that stays open from
their neighbour; three chunks with two full disks drop one, keep one
and write one. That several subjects compete for the one worker is the matter of `queue`; the
pipeline has one meeting, since two with two mics each are beyond TLC (`StatusMachine`, the
ledger and every safety property are proved for any number). `MCMaxJobs` makes the journal big enough never to bind. The keystream
run needs five chunks and two full disks, and one mic.

On the screens two handlers overlap and a third is there where a later one has to come
between; a second meeting, user, browser, query or task is what the first is mixed up with;
one fault is lost anywhere, and two where a crash and a loss have to meet. `MaxReloads` and
`MaxTicks` saturate: another request in flight is not told apart from the one there.
In `live_screen` a call of `finish` begun while another is under way counts as its one fault.
`pipeline` has 2 000 000 distinct states, `live_screen` 667 000, `assistant` 1 480 000,
`screens` 607 000. Larger instances of the safety properties were checked without a
new result: two meetings with one mic and two crashes in the pipeline, one meeting with two
chunks for each mic, two clicks and two faults at the recording screen, two changes of the URL
at the meeting page, a change of the settings beside the management page and two own handlers
at the documents. In `screens` nobody changes the settings beside the management page: its
properties excuse what others do (`doubt`), and its theorem holds with any number of such changes. One visit of the management
page is modelled, since nothing of it survives.

Deadlock is checked for the queue, whose poll never stops. The other runs say
`CHECK_DEADLOCK FALSE`: users may stop doing anything, and bounded crashes, chunks, clicks
and sends run out.

**Fairness.** Weak fairness only, and nothing is assumed of users, of other devices or of
faults.

* Server: the worker's steps (the loop runs ready tasks), the poll timeout
  (`wait_for`), handlers ending (every model call has a timeout or ends), restarting a dead
  service, and statements that follow in a handler or a delete request. The liveness
  properties assume that meetings do not go on for ever, because a heavy head of the queue
  waits for them by design.
* `LiveScreen`: the steps of `finish`, of the events socket and its server task, the poll's
  interval and its answers. The interval is set up by an effect that runs again when the
  dashboard renders, so its fairness assumes renders rarer than the 2.5 s of the interval.
* `Assistant`: requests arrive, tasks end, answers come back, effects run.
* `Screens`: the interval of the meeting page, the handling and the answers of loads and of
  polls, the second statement of an upload, the steps of the index job. That the job gets
  its turn is `EveryJobSettles` of `JobQueue`.

## What the violation runs say

* `index_outlives`: `index_text` inserts after its await whatever became of the meeting.
* `audio_outlives`: a meeting may be started between a delete's check and its end.
* `stuck_processing`: a crash between two statements of stop (or of recovery) leaves
  a meeting in `processing` with no job; recovery looks at `live` only.
* `keystream`: the encryptor moves on when a chunk is not kept, so the file gets
  shorter than the keystream used; a stop that raises leaves the row `live`, a second start
  resumes by length, and a position is used twice.
* `mic_vanishes`: `remove_mic` looks for a recording and deletes the row in two statements
  (`meetings.py:240-247`); a first chunk in between leaves a recording that no row names, though
  it "must not silently vanish" (`meetings.py:236-237`). Recovery and the pass then write the
  meeting off, which is why `FailedMeansNothingRecorded` and `DoneMeansTranscribed` excuse
  a removed row.
* `consent_shown`: the form sends `cloudTranscribe && !confidential`
  (`LiveMeetingSection.tsx:132`) while the box shows `cloudTranscribe && !disabled`
  (`:478`). A readiness that is fetched again while the box is ticked closes it and shows it
  empty; the tick is sent all the same, and counts if the server is online again by then.

## Proofs

Every safety invariant and action property that a run checks is a theorem, and so are both
refinements of the ledger. The theorems hold for all values of the constants under the
`ASSUME`s of the modules. Those ask for distinct names of absent things, for bounds that are
numbers, and where something has to be there at all, for one of it: a user (`Users # {}`) and
a first sign-in (`MaxLogins`) in `Assistant`, a first search, load of a meeting's page and
password in the pages, a meeting to look at in `MeetingScreen`. The provider, the effects of a
page and the setup form make the first of each unconditionally, so a bound of zero would forbid
what the code always does.

`JobTableProofs` states what each SQL statement does to a table (types, the row it
touches, all the others) and to what callers see of it (`AcceptedIn`, `OutcomesIn`).

`JobQueueProofs`: the inductive invariant is the type invariant, `RunningIsCurrent`,
and that `current` is a job exactly in phase `run` and then a running row. `TypeCorrect`
and `OneAtATime` are parts of it. `HeavyWaits` follows because only `StartJob` makes a
queued row running (`OnlyStartRuns`) and its guard reads the gate. `ImplementsLedger`
maps each action: inserts accept, `StartJob` begins, `HandlerEnds` settles, `RefuseJob`
rejects, `Crash` abandons; `Start` is a stutter because requeueing
changes neither the set of rows nor an outcome (`RequeueKeeps`).

`MeetingPipelineProofs`: all eight invariants of the `pipeline` run, `StatusMachine`
and the ledger, for any number of meetings, mics, chunks, sessions, removals, deletes,
failing stops and crashes. None of the safety properties is inductive alone; `Inv` adds, and needs:

* `JobsArePast`: a meeting with a job in the journal, or in `handoff`, is past its
  recording and has no session. This is why nothing can be recorded into a meeting
  whose pass runs (`PastKept`), why recovery cannot enqueue a second pass
  (`PassOnce`), and why a chunk cannot turn up after a verdict but from a stray writer
  (`FailedIsOver`).
* `RowsName`: what is in a recording is named by its mic's row unless the row was removed. What
  recovery and the pass do not see is just that (`FailedMeansNothingRecorded`).
* `WorkerHolds`, `PowerHolds`: a handler has a running row of its kind; a process that
  is not serving has no session, no delete request and no handler.
* `PassCounts`: the count carried through a pass, mic by mic (`Counted`). `transcribing` has
  the recording's length left, `storing` has stored what is not left, and a pass that closes a
  done meeting has stored everything; a removal, a delete request or a stray writer may take the
  row, empty the recording or lengthen it at any moment, which the clauses allow for.
* `IndexHolds`, `DeletesExisting`: what is at the embedder is not confidential; a delete
  request in progress still has its row.

The argument is in layers: `Frame` says which actions may change which variable;
`JournalStep`, `StatusStep`, `AudioStep`, `MicStep`, `WriterStep`, `StrayStep`,
`SegmentsStep` and `HandoffStep` say how; one
lemma per conjunct of `Inv` combines them, and `NextInv` collects the lemmas.
`RowsFollowMachine` is `StatusStep` read as an action property.

`RecordingProofs`: all five properties of the `recording` run, for any number of mics,
chunks, full disks and crashes and any buffer size. `AckedIsDurable`, `Aligned` and
`AudioIsFindable` need, beside the types:

* `FeedHolds`, `WriterHolds`: feed's steps hold a session and, once opened, a writer; a
  writer has a sealed file and a session, and a closed one no buffer.
* `StrayHolds`: a stray writer had got no further than the file.
* `Positions`: for a recording that dropped nothing and that no stray writer overtook
  (`Sound`), the encryptor stands behind what is in the file and in the buffer, and the buffered
  chunks, also those of a stray writer, carry the positions in between. Alignment across flushes, failing flushes, stops and
  reopening follows from it.
* `Named`: a recording past the steps of its first feed that name it is named.

`WriteEffect`, `FailEffect`, `StopEffect`, `EndEffect`, `OpenEffect` and `StrayEffect` say what
each step does to a recording, and `OverwrittenProperties` what writing over a sequence does; `Grows` reads them as the append-only property.

`LiveScreenProofs`: all four safety properties of the `live_screen` run, for any number of
meetings, polls, list requests and faults. The inductive invariant has, beside the properties:

* `SectionHolds`: a mounted section is recording or processing exactly when one of its
  instances has its stream, and starts at most one meeting. Handlers survive a remount,
  so this relates the instance variables `alive` and `step` to `phase` and `meetingId`.
* `StartHolds(m)`: how far `begin` has got says what the server knows of `m`; before its end
  there is no stream, no socket and nothing in the refs; a start that nobody watches was
  left in the middle.
* `EndHolds(m)`: an end that is under way was asked for, and what tells of an end is right.
* `SessionHolds`: a live row has its session, unless a stop of it raised.
* `StreamsAreHeld`: a mounted section's stream is one its cleanup will find, which is why
  only a start left in the middle can stream unseen.
* `LiveIsTakenCareOf`: a live meeting of a section in its form or starting is one it is about
  to take up or to undo, unless an answer was lost.

`UnmountEffect` says once what the cleanup does to streams and sockets, for the steps that unmount.

`AssistantProofs`: all four safety properties of the `assistant` run, for any number of users,
chats, messages, sign-ins and faults. `SendHolds`, `ShownHolds` and `CardHolds` say, per
message, how far it has got and what may be on screen of it: nothing before its request, and
only in a chat of the signed-in user; a card's request is over, so nothing brings it back.
`GenHolds` ties the one result slot above the router to its request, `ServerHolds` the
registry to messages that were sent. `OneChat` is the reason a result finds its chat:
without an early send, whatever is sent, loaded or on screen is in the user's newest chat.

`ScreensProofs` proves three of the properties of the `screens` run, each of `Screens` as a
whole: `CloudStepKinds`, `DocStepKinds` and `SignStepKinds` say which steps touch the
component, and one lemma per kind of step the rest.

* `CloudCovered`: consent is taken in two steps and acted on much later, so the invariant
  carries along what each step had seen. `ConsentInTime` says a consent under way reaches its row
  before the pass reads it, `ConsentWasOnline` that a row with consent is not confidential and
  was written by a handler that found the server online, `CloudPassIsCovered` that a pass
  in the cloud has both. `OnlineWasProbed` is about the settings alone, whoever changes them.
* `DocumentsSound`: `CallsHold` and `JobsHold` tie a handler between two statements to its
  row, and a job to its document; `StoredIsSearchable` follows a document from the insert
  of its chunks to the mark of its row; `ClearedIsClear` says what a removal has cleared comes
  back only behind its back, which is the `overrun` of the property.
* `SignInSound`: `TokensAreGiven` makes every new session one that no cookie opens;
  `NobodyIsNobody` carries the answer "nobody is signed in" from the route to the page;
  a session whose password is not its account's is `late`, `kept`, or one that a change under
  way still has to delete; `OneSetup` says at most one setup is past its check, and none once there is an account;
  `SessionsFollowPassword` is inductive with these, since a change that has written and not
  yet deleted is one of its clauses.

`PagesProofs` proves the other two, `TypeOK` of all pages and `PagesAreTruthful`. `PageKinds`
says that a step is one of a single page or leaves the page alone; the invariant, `PagesInv`,
is one part per page, and contains those of `ScreensProofs`:

* Search, `SearchInv`: searches are begun in order, and an unanswered one asks for the URL's
  query unless the page has `strayed` (`AskedForUrl`), alone unless two were begun (`AskedAlone`).
  Of a URL without a query the property says only that the hits are the last search's.
* Tasks, `TasksInv`: while nobody else changed the list, one click is under way, it asks for
  the status after the server's, and the list it brings is the server's.
* Desk, `DeskInv`: the counters are cardinalities of the sets of requests that are over
  (`NotesCounted`, `MarksCounted`); the input is the note that is being sent (`InputIsNote`), and
  one rename carries the name the server has, unless another device renamed too (`OneRename`).
* A meeting, `MeetingHolds`: what is loaded, polled or edited of another meeting than the URL's is
  older than the URL (`OldLoads`), and a page that is closed has nothing under way
  (`ClosedIsIdle`).
* Documents, `ListInv`: one upload of the page at a time, and while nothing is in doubt one handler,
  which brings the server's list unless others changed it since (`unlisted`).
* Management, `AdminInv`: `RecordFits` says what a handler has at each await, `AnsweredIsDone`
  that the server has carried out what it answered. `AtMostOne` is the heart: while nothing is
  in doubt there is a click such that every other is at rest, and the page shows the
  server's settings, users and mode or that click still owes them (`ShownOrOwed`); what any
  handler carries is the server's (`CarriesNow`).
* `ConsentRest`, `SignRest` and `DocRest` are the types that the three properties of
  `ScreensProofs` did not need; `SignRest` also bounds the tokens.

TLC checked the parts as invariants of the runs before they were proved.

Only model-checked: liveness (`EveryJobSettles`, `StoppedMeetingSettles`, `FollowsAlong`,
`FinishIsSeen`, `StopEnds`, `TranscriptArrives`, `UploadSettles`). ENABLED and
fairness are beyond the prover.

## Not modelled, and why

* **Model harness, skills.** Routing, map-reduce and tool loops depend on lengths of texts
  and on what models answer; `Assistant` has their outcomes. Known hazards that stay without
  a model: a long summary decides by one probe that its whole text fits the cloud
  (`harness.py:137`); a skill that is cancelled leaves no audit row (`runtime.py:189`).
* **Chunking, normalisation, Jalali dates, exports, the text of relabelled segments, ranking.** Functions on
  text, without interleaving; bounded inputs over characters say less than tests on real text.
* **Audit chain, backup, migrations, secrets.** Each runs alone and before or after
  everything else. An administrator's effect precedes its record (`platform_ops.py:123`),
  so a crash between them loses a record; the chain itself is an append.
* **Login limiter, expiry of sessions.** Clocks; the exponent of the lock
  (`security.py:89`) and the 30 s cache of the connectivity probe (`connectivity.py:56`) are
  arithmetic on time. `CloudSettings` probes when it is asked to.
* **Range playback.** Offsets of the keystream (`audiocrypt.py:52`) are arithmetic on
  bytes; `Recording` has positions by chunk.
* **A pass that fails** (`quality_pass.py:126`) leaves its row in `processing`.
  `MeetingPipeline` models it (`AsrFails`); a page that watches such a row polls for ever, so
  the liveness of the pages (`FollowsAlong`, `TranscriptArrives`) starts from a pass
  that has settled the row.
* **Audio player, layout, logs page, types.** Local state of one component, or none.
* **Numerical backends** (ASR, diarization, embeddings) are calls that return or raise.
