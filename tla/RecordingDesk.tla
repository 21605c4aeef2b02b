---------------------------- MODULE RecordingDesk -----------------------------
(***************************************************************************)
(* What one does beside the recording of a meeting (the recording view of  *)
(* LiveMeetingSection.tsx): notes, bookmarks and new names for the         *)
(* microphones.  Each click is a request of its own, nothing is disabled   *)
(* meanwhile, and the user goes on typing.  That the recording ends, or    *)
(* never began, is LiveScreen's.                                           *)
(***************************************************************************)
EXTENDS Naturals, FiniteSets

CONSTANTS
    Phrases,      \* what a note may say, or a microphone be called
    NoPhrase,     \* the empty input
    MaxDesk,      \* bound: requests of one recording
    MaxDeskLost   \* bound: requests or answers that are lost

ASSUME DeskAssumption == NoPhrase \notin Phrases /\ MaxDesk \in Nat /\ MaxDeskLost \in Nat

VARIABLES
    note,           \* the input
    noteSaved,      \* «n notes saved», on screen
    bookmarkCount,  \* «n bookmarks», on screen
    micShown,       \* name of the microphone in registeredMics
    desk,           \* desk[k]: the k-th request
    notes,          \* server: the requests whose notes are stored
    bookmarks,      \* server: how many bookmarks of this page are stored
    micName,        \* server: meeting_mics.name
    deskLost,       \* requests or answers lost so far
    unstored,       \* ghost: bookmarks whose request never reached the server
    unsaid,         \* ghost: stored notes whose answer was lost
    retyped,        \* ghost: the input was changed while a note was being saved
    wiped,          \* ghost: phrases emptied from the input that are no note
    renamedTwice    \* ghost: renames overlapped, one was lost, or another device
                    \*        made one

deskView   == <<note, noteSaved, bookmarkCount, micShown>>
deskStore  == <<notes, bookmarks, micName>>
deskGhosts == <<unstored, unsaid, retyped, wiped, renamedTwice>>
deskVars   == <<deskView, desk, deskStore, deskLost, deskGhosts>>

Entries  == 1 .. MaxDesk
NoEntry  == [do |-> "none", at |-> "idle", phrase |-> NoPhrase]
OnDesk(k)      == desk[k].at \in {"asked", "answered"}
SomeOnDesk(do) == \E k \in Entries : OnDesk(k) /\ desk[k].do = do
EntryGoes(k, at) == desk' = [desk EXCEPT ![k].at = at]

DeskInit ==
    /\ note = NoPhrase /\ noteSaved = 0 /\ bookmarkCount = 0
    /\ micName \in Phrases /\ micShown = micName
    /\ desk = [k \in Entries |-> NoEntry]
    /\ notes = {} /\ bookmarks = 0 /\ deskLost = 0
    /\ unstored = 0 /\ unsaid = 0 /\ retyped = FALSE /\ wiped = {} /\ renamedTwice = FALSE

-----------------------------------------------------------------------------
(* The user *)

TypeNote(p) ==
    /\ p # note /\ note' = p
    /\ retyped' = (retyped \/ SomeOnDesk("note"))
    /\ UNCHANGED <<noteSaved, bookmarkCount, micShown, desk, deskStore, deskLost,
                   unstored, unsaid, wiped, renamedTwice>>

Asks(k, what, p) ==
    /\ desk[k] = NoEntry /\ \A j \in 1 .. (k - 1) : desk[j] # NoEntry
    /\ desk' = [desk EXCEPT ![k] = [do |-> what, at |-> "asked", phrase |-> p]]
    /\ UNCHANGED <<deskView, deskStore, deskLost, unstored, unsaid, wiped>>

(* saveNote, by Enter or by the button: the input stays until the answer.   *)
SaveNote(k) ==
    /\ note # NoPhrase
    /\ Asks(k, "note", note)
    /\ UNCHANGED <<retyped, renamedTwice>>

(* addBookmark, by Ctrl+B or by the button *)
AddBookmark(k) ==
    /\ Asks(k, "mark", NoPhrase)
    /\ UNCHANGED <<retyped, renamedTwice>>

(* renameMic asks for a name other than the one on screen. *)
RenameMic(k, p) ==
    /\ p # micShown
    /\ Asks(k, "rename", p)
    /\ renamedTwice' = (renamedTwice \/ SomeOnDesk("rename"))
    /\ UNCHANGED retyped

-----------------------------------------------------------------------------
(* The server *)

EntryHandled(k) ==
    /\ desk[k].at = "asked"
    /\ EntryGoes(k, "answered")
    /\ \/ /\ desk[k].do = "note"
          /\ notes' = notes \cup {k}
          /\ UNCHANGED <<bookmarks, micName>>
       \/ /\ desk[k].do = "mark" /\ bookmarks' = bookmarks + 1
          /\ UNCHANGED <<notes, micName>>
       \/ /\ desk[k].do = "rename" /\ micName' = desk[k].phrase
          /\ UNCHANGED <<notes, bookmarks>>
    /\ UNCHANGED <<deskView, deskLost, deskGhosts>>

(* Another device of the same user renames the microphone.  (Its notes and  *)
(* bookmarks are none of this page, which counts its own.)                  *)
RenamedElsewhere(p) ==
    /\ micName' = p /\ p # micName
    /\ renamedTwice' = TRUE
    /\ UNCHANGED <<deskView, desk, notes, bookmarks, deskLost, unstored, unsaid, retyped,
                   wiped>>

-----------------------------------------------------------------------------
(* The answers *)

(* The input is emptied, whatever it holds by now. *)
NoteSaved(k) ==
    /\ desk[k].do = "note" /\ desk[k].at = "answered"
    /\ note' = NoPhrase /\ noteSaved' = noteSaved + 1
    /\ wiped' = (wiped \cup {note}) \ ({NoPhrase} \cup {desk[j].phrase : j \in notes})
    /\ EntryGoes(k, "over")
    /\ UNCHANGED <<bookmarkCount, micShown, deskStore, deskLost, unstored, unsaid,
                   retyped, renamedTwice>>

(* A bookmark is counted whether it was stored or not. *)
BookmarkCounted(k) ==
    /\ desk[k].do = "mark" /\ OnDesk(k)
    /\ IF desk[k].at = "answered"
       THEN deskLost' \in {deskLost, deskLost + 1} /\ UNCHANGED unstored
       ELSE deskLost' = deskLost + 1 /\ unstored' = unstored + 1
    /\ deskLost' <= MaxDeskLost
    /\ bookmarkCount' = bookmarkCount + 1
    /\ EntryGoes(k, "over")
    /\ UNCHANGED <<note, noteSaved, micShown, deskStore, unsaid, retyped, wiped, renamedTwice>>

MicRenamed(k) ==
    /\ desk[k].do = "rename" /\ desk[k].at = "answered"
    /\ micShown' = desk[k].phrase
    /\ EntryGoes(k, "over")
    /\ UNCHANGED <<note, noteSaved, bookmarkCount, deskStore, deskLost, deskGhosts>>

(* A note that fails says nothing and stays in the input, a rename alerts.  *)
EntryFails(k) ==
    /\ desk[k].do \in {"note", "rename"} /\ OnDesk(k)
    /\ deskLost < MaxDeskLost /\ deskLost' = deskLost + 1
    /\ unsaid' = IF desk[k].do = "note" /\ desk[k].at = "answered" THEN unsaid + 1 ELSE unsaid
    /\ renamedTwice' = (renamedTwice \/ desk[k].do = "rename")
    /\ EntryGoes(k, "over")
    /\ UNCHANGED <<deskView, deskStore, unstored, retyped, wiped>>

DeskNext ==
    \/ \E p \in Phrases \cup {NoPhrase} : TypeNote(p)
    \/ \E p \in Phrases : RenamedElsewhere(p)
    \/ \E k \in Entries :
         \/ SaveNote(k) \/ AddBookmark(k) \/ \E p \in Phrases : RenameMic(k, p)
         \/ EntryHandled(k) \/ NoteSaved(k) \/ BookmarkCounted(k) \/ MicRenamed(k)
         \/ EntryFails(k)

-----------------------------------------------------------------------------
DeskTypeOK ==
    /\ note \in Phrases \cup {NoPhrase}
    /\ noteSaved \in 0 .. MaxDesk /\ bookmarkCount \in 0 .. MaxDesk
    /\ micShown \in Phrases /\ micName \in Phrases
    /\ notes \subseteq Entries /\ bookmarks \in 0 .. MaxDesk
    /\ deskLost \in 0 .. MaxDeskLost

(* What was typed is never lost but by the one race: another phrase typed   *)
(* while a note is saved goes with it.                                      *)
TypedIsKept == wiped # {} => retyped

(* At rest the counters tell what this page has stored, but for the lost    *)
(* answer of a note and for bookmarks that were lost and counted all the    *)
(* same, and the microphone has on screen the name that tags its speakers,  *)
(* unless renames overlapped, one was lost, or another device made one.     *)
CountersAreTrue ==
    (\A k \in Entries : ~OnDesk(k)) =>
        /\ Cardinality(notes) = noteSaved + unsaid
        /\ bookmarkCount = bookmarks + unstored
        /\ micShown = micName \/ renamedTwice

DeskIsTruthful == TypedIsKept /\ CountersAreTrue

=============================================================================
