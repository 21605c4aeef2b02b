------------------------------ MODULE Recording ------------------------------
(***************************************************************************)
(* The microphones of one meeting and their sealed recordings: the mic     *)
(* registry of api/meetings.py, the audio socket of api/ws.py, the writers *)
(* a live session keeps (audio/session.py) and the encrypted files they    *)
(* append to (security/audiocrypt.py), on a disk that can fill up.         *)
(*                                                                         *)
(* feed runs on the event loop without an await, so no other coroutine     *)
(* acts while one is `feeding`; the mic endpoints run on threads and may   *)
(* act between any two of its steps, and the process may die there.  So    *)
(* does finish: the disk neither fills up nor is freed while it runs.      *)
(***************************************************************************)
EXTENDS Integers, Sequences, FiniteSets

CONSTANTS NMics,         \* bound: mic rows the meeting ever gets
          BufferChunks,  \* chunks Python's buffered file keeps when a flush fails
          MaxChunks,     \* bound: chunks sent per mic
          MaxFull,       \* bound: how often the disk fills up
          MaxCrashes     \* bound: how often the process dies

ASSUME RecordingAssumptions ==
  /\ NMics \in Nat \ {0}
  /\ BufferChunks \in Nat /\ MaxChunks \in Nat
  /\ MaxFull \in Nat /\ MaxCrashes \in Nat

Mics  == 1 .. NMics   \* meeting_mics.id
NoMic == 0

VARIABLES
  status,     \* meetings.status
  session,    \* there is a live session
  socket,     \* per mic: an audio socket is bound to it and to the session
  row,        \* per mic: its meeting_mics row
  linked,     \* per mic: the row has an audio_path
  playback,   \* the mic meetings.audio_path names, or NoMic
  file,       \* per mic: "absent", "short" (no complete header) or "sealed"
  cells,      \* per mic: the chunks in the file, each with the keystream
              \* position it was encrypted at
  writer,     \* per mic: the encryptor's position, or Closed
  fresh,      \* per mic: the writer has created the file ("wb"), else appends ("ab")
  buffer,     \* per mic: encrypted chunks the last flush could not write
  feeding,    \* the step feed has reached, and its mic
  removing,   \* per mic: a remove request has passed its checks
  full,       \* the disk is full
  sent,       \* history, per mic: chunks received by feed
  acked,      \* history, per mic: chunks feed took without an error
  dropped,    \* history, per mic: a chunk was encrypted and never kept
  stray,      \* per mic: writers with bytes to write that a raising stop left open
  late,       \* history: mics with a recording that a stray writer, Overtaken, wrote to
  fulls, crashes

vars == <<status, session, socket, row, linked, playback, file, cells, writer, fresh, buffer,
          feeding, removing, full, sent, acked, dropped, stray, late, fulls, crashes>>

db      == <<status, row, linked, playback>>
disk    == <<file, cells>>
writers == <<writer, fresh, buffer>>
memory  == <<session, socket, writers, feeding>>
history == <<sent, acked, dropped>>
leaks   == <<stray, late>>
env     == <<full, fulls, crashes>>

Closed == -1
Idle   == [at |-> "idle", mic |-> NoMic]
LoopFree == feeding = Idle

Init ==
  /\ status = "created"
  /\ session = FALSE
  /\ socket = [m \in Mics |-> FALSE]
  /\ row = [m \in Mics |-> "unborn"]
  /\ linked = [m \in Mics |-> FALSE]
  /\ playback = NoMic
  /\ file = [m \in Mics |-> "absent"]
  /\ cells = [m \in Mics |-> <<>>]
  /\ writer = [m \in Mics |-> Closed]
  /\ fresh = [m \in Mics |-> FALSE]
  /\ buffer = [m \in Mics |-> <<>>]
  /\ feeding = Idle
  /\ removing = [m \in Mics |-> FALSE]
  /\ full = FALSE
  /\ sent = [m \in Mics |-> 0]
  /\ acked = [m \in Mics |-> {}]
  /\ dropped = [m \in Mics |-> FALSE]
  /\ stray = [m \in Mics |-> {}]
  /\ late = {}
  /\ fulls = 0
  /\ crashes = 0

-----------------------------------------------------------------------------
\* The registry, on threads.

Registered == {m \in Mics : row[m] = "present"}
IsNextMic(m) == /\ row[m] = "unborn"
                /\ \A n \in Mics : row[n] = "unborn" => m <= n

AddMic(m) ==
  /\ IsNextMic(m)
  /\ row' = [row EXCEPT ![m] = "present"]
  /\ UNCHANGED <<status, linked, playback, disk, memory, removing, history, leaks, env>>

\* remove_mic refuses a mic whose recording exists ...
RemoveChecks(m) ==
  /\ row[m] = "present"
  /\ ~removing[m]
  /\ ~(linked[m] /\ file[m] # "absent")
  /\ removing' = [removing EXCEPT ![m] = TRUE]
  /\ UNCHANGED <<db, disk, memory, history, leaks, env>>

\* ... as it was when the check looked.
RemoveRow(m) ==
  /\ removing[m]
  /\ row' = [row EXCEPT ![m] = "removed"]
  /\ removing' = [removing EXCEPT ![m] = FALSE]
  /\ UNCHANGED <<status, linked, playback, disk, memory, history, leaks, env>>

-----------------------------------------------------------------------------
\* The session.

\* POST /start: a meeting without a mic gets the default one.
Start ==
  /\ LoopFree
  /\ ~session
  /\ status \in {"created", "live"}
  /\ \/ Registered # {} /\ UNCHANGED row
     \/ /\ Registered = {}
        /\ \E m \in Mics : IsNextMic(m) /\ row' = [row EXCEPT ![m] = "present"]
  /\ session' = TRUE
  /\ status' = "live"
  /\ UNCHANGED <<linked, playback, disk, socket, writers, feeding, removing,
                 history, leaks, env>>

EndSession ==
  /\ session' = FALSE
  /\ socket' = [m \in Mics |-> FALSE]
  /\ writer' = [m \in Mics |-> Closed]
  /\ fresh' = [m \in Mics |-> FALSE]
  /\ buffer' = [m \in Mics |-> <<>>]

Flushed(m) == cells[m] \o buffer[m]

\* stop: finish closes the writers, and closing flushes what is still buffered.
\* A socket of an ended session is served on, and feed drops what it brings.
Stop ==
  /\ LoopFree
  /\ session
  /\ ~full \/ \A m \in Mics : buffer[m] = <<>>
  /\ cells' = [m \in Mics |-> Flushed(m)]
  /\ EndSession
  /\ status' = "processing"
  /\ UNCHANGED <<row, linked, playback, file, feeding, removing, history, leaks, env>>

Dirty == {m \in Mics : buffer[m] # <<>>}

\* close() raises on a full disk, at the first writer with something to flush (in
\* the order they were opened), which drops it.  The manager has already popped
\* the session and nothing after is reached: the row keeps saying live, and the
\* other writers stay open as long as a socket handler has the session.
StopFails ==
  /\ LoopFree
  /\ session
  /\ full
  /\ \E first \in Dirty :
       stray' = [m \in Mics |->
                   IF m \in Dirty \ {first}
                   THEN stray[m] \cup {[from |-> Len(cells[m]), created |-> fresh[m],
                                        chunks |-> buffer[m]]}
                   ELSE stray[m]]
  /\ EndSession
  /\ UNCHANGED <<db, disk, feeding, removing, history, late, env>>

\* t written at from, over what is there.
Overwritten(s, from, t) ==
  SubSeq(s, 1, from) \o t \o SubSeq(s, from + Len(t) + 1, Len(s))

\* Another writer has been at the file since.
Overtaken(m, w) == writer[m] # Closed \/ Len(cells[m]) # w.from

\* The last reference to a stray writer goes, and Python closes its file: what it
\* has buffered goes to the end of the file, or, from a writer that had created
\* it, to where it had got.
StrayWrites(m, w) ==
  /\ w \in stray[m]
  /\ ~full
  /\ cells' = [cells EXCEPT ![m] = IF w.created THEN Overwritten(@, w.from, w.chunks)
                                               ELSE @ \o w.chunks]
  /\ late' = IF Overtaken(m, w) THEN late \cup {m} ELSE late
  /\ stray' = [stray EXCEPT ![m] = @ \ {w}]
  /\ UNCHANGED <<db, file, memory, removing, history, env>>

\* ... or nowhere.
StrayLost(m, w) ==
  /\ w \in stray[m]
  /\ full
  /\ stray' = [stray EXCEPT ![m] = @ \ {w}]
  /\ UNCHANGED <<db, disk, memory, removing, history, late, env>>

-----------------------------------------------------------------------------
\* The audio socket.

\* Without ?mic_id= the first mic is taken; a given one is not looked at.
Connect(m) ==
  /\ LoopFree
  /\ session
  /\ row[m] # "unborn"
  /\ ~socket[m]
  /\ socket' = [socket EXCEPT ![m] = TRUE]
  /\ UNCHANGED <<db, disk, session, writers, feeding, removing, history, leaks, env>>

\* A dropped link leaves the session and its writers as they are.
Disconnect(m) ==
  /\ LoopFree
  /\ socket[m]
  /\ socket' = [socket EXCEPT ![m] = FALSE]
  /\ UNCHANGED <<db, disk, session, writers, feeding, removing, history, leaks, env>>

\* A chunk arrives.  The first one of a mic needs a writer.
Receive(m) ==
  /\ LoopFree
  /\ socket[m]
  /\ sent[m] < MaxChunks
  /\ writer[m] # Closed \/ row[m] = "present"
  /\ sent' = [sent EXCEPT ![m] = @ + 1]
  /\ feeding' = [at |-> IF writer[m] = Closed THEN "open" ELSE "write", mic |-> m]
  /\ UNCHANGED <<db, disk, session, socket, writers, removing, acked, dropped, leaks, env>>

\* UnknownMicError: the row is gone before its first chunk.
Refuse(m) ==
  /\ LoopFree
  /\ socket[m]
  /\ writer[m] = Closed /\ row[m] # "present"
  /\ socket' = [socket EXCEPT ![m] = FALSE]
  /\ UNCHANGED <<db, disk, session, writers, feeding, removing, history, leaks, env>>

OpenWriter_Truncates(m) ==
  /\ feeding = [at |-> "open", mic |-> m]
  /\ ~full
  /\ file' = [file EXCEPT ![m] = "sealed"]
  /\ cells' = [cells EXCEPT ![m] = <<>>]
  /\ writer' = [writer EXCEPT ![m] = 0]
  /\ fresh' = [fresh EXCEPT ![m] = file[m] # "sealed"]
  /\ feeding' = [feeding EXCEPT !.at = "link"]
  /\ UNCHANGED <<db, session, socket, buffer, removing, history, leaks, env>>

OpenWriter_RestartsKeystream(m) ==
  /\ feeding = [at |-> "open", mic |-> m]
  /\ file[m] = "sealed" \/ ~full
  /\ file' = [file EXCEPT ![m] = "sealed"]
  /\ writer' = [writer EXCEPT ![m] = 0]
  /\ fresh' = [fresh EXCEPT ![m] = file[m] # "sealed"]
  /\ feeding' = [feeding EXCEPT !.at = "link"]
  /\ UNCHANGED <<db, cells, session, socket, buffer, removing, history, leaks, env>>

OpenWriter_ResumesShortFile(m) ==
  /\ feeding = [at |-> "open", mic |-> m]
  /\ file[m] # "absent" \/ ~full
  /\ file' = [file EXCEPT ![m] = "sealed"]
  /\ writer' = [writer EXCEPT ![m] = IF file[m] = "short" THEN -2 ELSE Len(cells[m])]
  /\ fresh' = [fresh EXCEPT ![m] = file[m] # "sealed"]
  /\ feeding' = [feeding EXCEPT !.at = "link"]
  /\ UNCHANGED <<db, cells, session, socket, buffer, removing, history, leaks, env>>

\* A sealed file is appended to, from the position its length gives; any other
\* is created anew, with its header fsynced.
OpenWriter(m) ==
  /\ feeding = [at |-> "open", mic |-> m]
  /\ file[m] = "sealed" \/ ~full
  /\ file' = [file EXCEPT ![m] = "sealed"]
  /\ writer' = [writer EXCEPT ![m] = Len(cells[m])]
  /\ fresh' = [fresh EXCEPT ![m] = file[m] # "sealed"]
  /\ feeding' = [feeding EXCEPT !.at = "link"]
  /\ UNCHANGED <<db, cells, session, socket, buffer, removing, history, leaks, env>>

\* The header does not fit: the socket's handler dies of the exception.
OpenFails(m) ==
  /\ feeding = [at |-> "open", mic |-> m]
  /\ full /\ file[m] # "sealed"
  /\ file' = [file EXCEPT ![m] = "short"]
  /\ socket' = [socket EXCEPT ![m] = FALSE]
  /\ feeding' = Idle
  /\ UNCHANGED <<db, cells, session, writers, removing, history, leaks, env>>

LinkMic_Later(m) ==
  /\ feeding = [at |-> "link", mic |-> m]
  /\ feeding' = [feeding EXCEPT !.at = "default"]
  /\ linked' = [linked EXCEPT ![m] = sent[m] > 1]
  /\ UNCHANGED <<status, row, playback, disk, session, socket, writers, removing,
                 history, leaks, env>>

\* UPDATE meeting_mics SET audio_path: no row, no effect.
LinkMic(m) ==
  /\ feeding = [at |-> "link", mic |-> m]
  /\ linked' = [linked EXCEPT ![m] = row[m] = "present"]
  /\ feeding' = [feeding EXCEPT !.at = "default"]
  /\ UNCHANGED <<status, row, playback, disk, session, socket, writers, removing,
                 history, leaks, env>>

\* UPDATE meetings SET audio_path=COALESCE(audio_path, ...)
LinkMeeting(m) ==
  /\ feeding = [at |-> "default", mic |-> m]
  /\ playback' = IF playback = NoMic THEN m ELSE playback
  /\ feeding' = [feeding EXCEPT !.at = "write"]
  /\ UNCHANGED <<status, row, linked, disk, session, socket, writers, removing,
                 history, leaks, env>>

-----------------------------------------------------------------------------
\* EncryptedAudioWriter.write.

Cell(m) == [chunk |-> sent[m], pos |-> writer[m]]

Advance(m) ==
  /\ feeding = [at |-> "write", mic |-> m]
  /\ writer' = [writer EXCEPT ![m] = @ + 1]
  /\ feeding' = Idle

Write_Unflushed(m) ==
  /\ Advance(m)
  /\ ~full
  /\ cells' = [cells EXCEPT ![m] = Flushed(m)]
  /\ buffer' = [buffer EXCEPT ![m] = <<Cell(m)>>]
  /\ acked' = [acked EXCEPT ![m] = @ \cup {sent[m]}]
  /\ UNCHANGED <<db, file, session, socket, fresh, removing, sent, dropped, leaks, env>>

\* Encrypted, written, flushed and fsynced, behind whatever was still buffered.
Write(m) ==
  /\ Advance(m)
  /\ ~full
  /\ cells' = [cells EXCEPT ![m] = Append(Flushed(m), Cell(m))]
  /\ buffer' = [buffer EXCEPT ![m] = <<>>]
  /\ acked' = [acked EXCEPT ![m] = @ \cup {sent[m]}]
  /\ UNCHANGED <<db, file, session, socket, fresh, removing, sent, dropped, leaks, env>>

\* On a full disk the flush raises, after the encryptor has moved on.  Python's
\* buffered file keeps the chunk for the next flush while it has room for it.
WriteFails(m) ==
  /\ Advance(m)
  /\ full
  /\ socket' = [socket EXCEPT ![m] = FALSE]
  /\ IF Len(buffer[m]) < BufferChunks
     THEN /\ buffer' = [buffer EXCEPT ![m] = Append(@, Cell(m))]
          /\ UNCHANGED dropped
     ELSE /\ dropped' = [dropped EXCEPT ![m] = TRUE]
          /\ UNCHANGED buffer
  /\ UNCHANGED <<db, disk, session, fresh, removing, sent, acked, leaks, env>>

-----------------------------------------------------------------------------
\* The machine.

DiskFills ==
  /\ ~full /\ fulls < MaxFull
  /\ full' = TRUE
  /\ fulls' = fulls + 1
  /\ UNCHANGED <<db, disk, memory, removing, history, leaks, crashes>>

DiskFreed ==
  /\ full
  /\ full' = FALSE
  /\ UNCHANGED <<db, disk, memory, removing, history, leaks, fulls, crashes>>

\* recover_crashed_meetings takes a recording for one when its row names it.
HasAudio == \E m \in Registered : linked[m] /\ file[m] # "absent" /\ cells[m] # <<>>

\* The process dies, and the next one recovers before it serves anything.
CrashAndRecover ==
  /\ crashes < MaxCrashes
  /\ crashes' = crashes + 1
  /\ EndSession
  /\ stray' = [m \in Mics |-> {}]
  /\ feeding' = Idle
  /\ removing' = [m \in Mics |-> FALSE]
  /\ status' = IF status # "live" THEN status
               ELSE IF HasAudio THEN "processing" ELSE "failed"
  /\ UNCHANGED <<row, linked, playback, disk, history, late, full, fulls>>

Registry(m) == AddMic(m) \/ RemoveChecks(m) \/ RemoveRow(m)
Socket(m)   == Connect(m) \/ Disconnect(m) \/ Receive(m) \/ Refuse(m)
Feed(m)     == \/ OpenWriter(m) \/ OpenFails(m) \/ LinkMic(m) \/ LinkMeeting(m)
               \/ Write(m) \/ WriteFails(m)

Next ==
  \/ \E m \in Mics : Registry(m) \/ Socket(m) \/ Feed(m)
  \/ Start \/ Stop \/ StopFails
  \/ \E m \in Mics : \E w \in stray[m] : StrayWrites(m, w) \/ StrayLost(m, w)
  \/ DiskFills \/ DiskFreed
  \/ CrashAndRecover

Spec == Init /\ [][Next]_vars

-----------------------------------------------------------------------------
\* Properties.

CellsOf(m) == {cells[m][i] : i \in 1 .. Len(cells[m])}

CellType == [chunk : 1 .. MaxChunks, pos : Nat]

\* what a stray writer has to write, and where its writing had got
Strays == [from : Nat, created : BOOLEAN, chunks : Seq(CellType)]

TypeOK ==
  /\ status \in {"created", "live", "processing", "failed"}
  /\ session \in BOOLEAN
  /\ socket \in [Mics -> BOOLEAN]
  /\ row \in [Mics -> {"unborn", "present", "removed"}]
  /\ linked \in [Mics -> BOOLEAN]
  /\ playback \in Mics \cup {NoMic}
  /\ file \in [Mics -> {"absent", "short", "sealed"}]
  /\ cells \in [Mics -> Seq(CellType)]
  /\ writer \in [Mics -> {Closed} \cup Nat]
  /\ fresh \in [Mics -> BOOLEAN]
  /\ buffer \in [Mics -> Seq(CellType)]
  /\ feeding \in [at : {"idle", "open", "link", "default", "write"},
                  mic : Mics \cup {NoMic}]
  /\ removing \in [Mics -> BOOLEAN]
  /\ full \in BOOLEAN
  /\ sent \in [Mics -> 0 .. MaxChunks]
  /\ acked \in [Mics -> SUBSET (1 .. MaxChunks)]
  /\ dropped \in [Mics -> BOOLEAN]
  /\ stray \in [Mics -> SUBSET Strays]
  /\ late \subseteq Mics
  /\ fulls \in 0 .. MaxFull
  /\ crashes \in 0 .. MaxCrashes

\* The D2 invariant: a chunk that feed took without an error is in the file from
\* then on, through crashes, full disks and failing stops (session.py:102-104) -
\* unless a stray writer has written over it.
AckedIsDurable ==
  \A m \in Mics \ late : acked[m] \subseteq {c.chunk : c \in CellsOf(m)}

\* A recording decrypts at every offset, the k-th chunk with the k-th stretch of
\* the keystream, as the Range reader assumes (audiocrypt.py:97-107) - also when
\* a later session resumed it, or a stray writer ended it - unless a full disk made
\* a writer drop a chunk, or a stray writer came late.
Aligned ==
  \A m \in Mics \ late : ~dropped[m] =>
    \A i \in 1 .. Len(cells[m]) : cells[m][i].pos = i - 1

\* A mic that is still registered names the file of its recording before anything is
\* in it, so recovery and the quality pass find it after a crash at any point; and a
\* meeting with a recording has a default file to play, whether or not the row of
\* its mic is still there.  (RecordingsKeepTheirRow is about the rows.)
AudioIsFindable ==
  \A m \in Mics : cells[m] # <<>> =>
    /\ playback # NoMic
    /\ row[m] = "present" => linked[m] /\ file[m] = "sealed"

\* Recordings are append-only: nothing that reopens one loses what it holds; only a
\* stray writer that was Overtaken may write over it.
AppendOnly ==
  [][\A m \in Mics :
       \/ /\ Len(cells[m]) <= Len(cells'[m])
          /\ SubSeq(cells'[m], 1, Len(cells[m])) = cells[m]
       \/ \E w \in stray[m] : w.created /\ Overtaken(m, w) /\ w \notin stray'[m]]_vars

\* What the documentation says of this code, and the code does not keep.

\* A mic with a recording cannot be removed: "Refused once it has recorded audio -
\* the recording (and its transcript attribution) must not silently vanish"
\* (meetings.py:236-237).
RecordingsKeepTheirRow ==
  \A m \in Mics : cells[m] # <<>> => row[m] = "present"

\* "no keystream position is ever used twice" (audiocrypt.py:26-28).
KeystreamNeverReused ==
  \A m \in Mics : \A i, j \in 1 .. Len(cells[m]) :
    cells[m][i].pos = cells[m][j].pos => i = j
=============================================================================
