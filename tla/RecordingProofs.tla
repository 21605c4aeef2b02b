--------------------------- MODULE RecordingProofs ---------------------------
(***************************************************************************)
(* Proofs about Recording for any number of mics, chunks, full disks,      *)
(* failing stops and crashes, and any buffer size.                         *)
(***************************************************************************)
EXTENDS Recording, SequenceTheorems, TLAPS

USE RecordingAssumptions
USE DEF RecordingAssumptions

-----------------------------------------------------------------------------
\* The inductive invariant.

\* feed at work has a session and a chunk, and a writer once it has opened one.
FeedHolds ==
  /\ (feeding.at = "idle") <=> (feeding.mic = NoMic)
  /\ feeding.mic # NoMic => session /\ sent[feeding.mic] >= 1
  /\ feeding.at = "open" => writer[feeding.mic] = Closed
  /\ feeding.at \in {"link", "default", "write"} => writer[feeding.mic] # Closed

\* Sockets and writers are a session's; a writer has a sealed file, and a row at
\* least when it was opened.
WriterHolds ==
  \A m \in Mics :
    /\ ~session => writer[m] = Closed /\ ~socket[m]
    /\ writer[m] = Closed => buffer[m] = <<>>
    /\ writer[m] # Closed => file[m] = "sealed"
    /\ file[m] # "sealed" => cells[m] = <<>> /\ stray[m] = {}
    /\ socket[m] \/ feeding.mic = m \/ writer[m] # Closed \/ cells[m] # <<>>
         \/ stray[m] # {} => row[m] # "unborn"

\* What is in the file and what the writer still has.
InFile(m)    == Len(cells[m])
Unwritten(m) == Len(buffer[m])

\* A stray writer had got no further than the file.
StrayHolds == \A m \in Mics : \A w \in stray[m] : w.from <= InFile(m)

\* Where nothing was dropped and no stray writer came late, the keystream and what
\* is kept go side by side.
Sound(m) == ~dropped[m] /\ m \notin late

Positions ==
  \A m \in Mics : Sound(m) =>
    /\ \A i \in 1 .. Unwritten(m) : buffer[m][i].pos = InFile(m) + i - 1
    /\ writer[m] # Closed => writer[m] = InFile(m) + Unwritten(m)
    /\ \A w \in stray[m] : \A i \in 1 .. Len(w.chunks) : w.chunks[i].pos = w.from + i - 1

\* The names feed gives before its first write: a recording is in use once it holds
\* something, or a stray writer has something for it, or it has a writer whose feed
\* is past the steps that name it.
Used(m, naming) ==
  \/ cells[m] # <<>> \/ stray[m] # {}
  \/ writer[m] # Closed /\ ~(feeding.mic = m /\ feeding.at \in naming)

Named ==
  \A m \in Mics :
    /\ Used(m, {"link"}) => (row[m] = "present" => linked[m])
    /\ Used(m, {"link", "default"}) => playback # NoMic

Inv ==
  /\ TypeOK /\ FeedHolds /\ WriterHolds /\ StrayHolds /\ Positions /\ Named
  /\ AckedIsDurable /\ Aligned /\ AudioIsFindable

-----------------------------------------------------------------------------
\* Which steps may change what.

LEMMA Frame ==
  ASSUME [Next]_vars
  PROVE  /\ status' = status \/ Start \/ Stop \/ CrashAndRecover
         /\ session' = session \/ Start \/ Stop \/ StopFails \/ CrashAndRecover
         /\ \/ socket' = socket \/ Stop \/ StopFails \/ CrashAndRecover
            \/ \E m \in Mics : \/ Connect(m) \/ Disconnect(m) \/ Refuse(m)
                               \/ OpenFails(m) \/ WriteFails(m)
         /\ row' = row \/ Start \/ \E m \in Mics : AddMic(m) \/ RemoveRow(m)
         /\ linked' = linked \/ \E m \in Mics : LinkMic(m)
         /\ playback' = playback \/ \E m \in Mics : LinkMeeting(m)
         /\ file' = file \/ \E m \in Mics : OpenWriter(m) \/ OpenFails(m)
         /\ \/ cells' = cells \/ Stop
            \/ \E m \in Mics : Write(m) \/ (\E w \in stray[m] : StrayWrites(m, w))
         /\ \/ writer' = writer \/ Stop \/ StopFails \/ CrashAndRecover
            \/ \E m \in Mics : OpenWriter(m) \/ Write(m) \/ WriteFails(m)
         /\ \/ buffer' = buffer \/ Stop \/ StopFails \/ CrashAndRecover
            \/ \E m \in Mics : Write(m) \/ WriteFails(m)
         /\ \/ feeding' = feeding \/ CrashAndRecover
            \/ \E m \in Mics : \/ Receive(m) \/ OpenWriter(m) \/ OpenFails(m)
                               \/ LinkMic(m) \/ LinkMeeting(m)
                               \/ Write(m) \/ WriteFails(m)
         /\ sent' = sent \/ \E m \in Mics : Receive(m)
         /\ acked' = acked \/ \E m \in Mics : Write(m)
         /\ dropped' = dropped \/ \E m \in Mics : WriteFails(m)
         /\ \/ stray' = stray \/ StopFails \/ CrashAndRecover
            \/ \E m \in Mics : \E w \in stray[m] : StrayWrites(m, w) \/ StrayLost(m, w)
         /\ late' = late \/ \E m \in Mics : \E w \in stray[m] : StrayWrites(m, w)
<1>1. CASE \E m \in Mics : Registry(m)
  BY <1>1 DEF Registry, AddMic, RemoveChecks, RemoveRow, db, disk, memory, writers, history, leaks, env
<1>2. CASE \E m \in Mics : Socket(m)
  BY <1>2 DEF Socket, Connect, Disconnect, Receive, Refuse,
              db, disk, memory, writers, history, leaks, env
<1>3. CASE \E m \in Mics : Feed(m)
  BY <1>3 DEF Feed, OpenWriter, OpenFails, LinkMic, LinkMeeting, Advance, Write,
              WriteFails, db, disk, memory, writers, history, leaks, env
<1>4. CASE Start \/ Stop \/ StopFails \/ CrashAndRecover
  BY <1>4 DEF Start, Stop, StopFails, EndSession, CrashAndRecover,
              db, disk, memory, writers, history, leaks, env
<1>5. ASSUME NEW m \in Mics, NEW w \in stray[m], StrayWrites(m, w) \/ StrayLost(m, w)
      PROVE  /\ UNCHANGED <<status, session, socket, row, linked, playback, file, writer,
                            buffer, feeding, sent, acked, dropped>>
             /\ cells' = cells \/ StrayWrites(m, w)
             /\ late' = late \/ StrayWrites(m, w)
  BY <1>5 DEF StrayWrites, StrayLost, db, disk, memory, writers, history, leaks, env
<1>6. CASE DiskFills \/ DiskFreed \/ UNCHANGED vars
  BY <1>6 DEF DiskFills, DiskFreed, vars, db, disk, memory, writers, history, leaks, env
<1>. QED  BY <1>1, <1>2, <1>3, <1>4, <1>5, <1>6 DEF Next

-----------------------------------------------------------------------------
\* What is appended.

\* The sequences a step builds.
LEMMA Kept ==
  ASSUME TypeOK, NEW m \in Mics
  PROVE  /\ cells[m] \in Seq(CellType) /\ buffer[m] \in Seq(CellType)
         /\ Len(cells[m]) \in Nat /\ Len(buffer[m]) \in Nat
         /\ Flushed(m) \in Seq(CellType)
         /\ Len(Flushed(m)) = Len(cells[m]) + Len(buffer[m])
         /\ \A i \in 1 .. Len(cells[m]) + Len(buffer[m]) :
              Flushed(m)[i] = IF i <= Len(cells[m]) THEN cells[m][i]
                              ELSE buffer[m][i - Len(cells[m])]
<1>1. cells[m] \in Seq(CellType) /\ buffer[m] \in Seq(CellType)
  BY DEF TypeOK
<1>. QED  BY <1>1, ConcatProperties, LenProperties DEF Flushed

\* The chunk feed is about to write.
LEMMA CellInHand ==
  ASSUME TypeOK, FeedHolds, NEW m \in Mics, feeding = [at |-> "write", mic |-> m]
  PROVE  /\ Cell(m) \in CellType
         /\ Cell(m).chunk = sent[m] /\ Cell(m).pos = writer[m]
         /\ sent[m] \in 1 .. MaxChunks /\ writer[m] \in Nat
         /\ session /\ writer[m] # Closed
<1>1. m # NoMic /\ feeding.at = "write" /\ feeding.mic = m
  BY DEF Mics, NoMic
<1>2. sent[m] \in 1 .. MaxChunks /\ writer[m] # Closed /\ session
  BY <1>1 DEF FeedHolds, TypeOK
<1>3. writer[m] \in Nat
  BY <1>2 DEF TypeOK, Closed
<1>. QED  BY <1>1, <1>2, <1>3 DEF Cell, CellType

\* What a stray writer has to write, and where.
LEMMA StrayKept ==
  ASSUME TypeOK, NEW m \in Mics, NEW w \in stray[m]
  PROVE  /\ w.from \in Nat /\ w.created \in BOOLEAN /\ w.chunks \in Seq(CellType)
         /\ Len(w.chunks) \in Nat
<1>1. w \in Strays
  BY DEF TypeOK
<1>2. w.from \in Nat /\ w.created \in BOOLEAN /\ w.chunks \in Seq(CellType)
  BY <1>1 DEF Strays
<1>. QED  BY <1>2, LenProperties

\* It goes, whether it writes or not.
LEMMA StrayGoes ==
  ASSUME TypeOK, NEW m \in Mics, NEW w \in stray[m], StrayWrites(m, w) \/ StrayLost(m, w)
  PROVE  /\ stray' \in [Mics -> SUBSET Strays]
         /\ \A n \in Mics : stray'[n] \subseteq stray[n]
<1>1. /\ stray' = [stray EXCEPT ![m] = @ \ {w}]
      /\ stray \in [Mics -> SUBSET Strays]
  BY DEF StrayWrites, StrayLost, TypeOK
<1>2. DOMAIN stray' = Mics /\ \A n \in Mics : stray'[n] \subseteq stray[n]
  BY <1>1
<1>3. \A n \in Mics : stray'[n] \in SUBSET Strays
  BY <1>1, <1>2
<1>4. stray' = [n \in Mics |-> stray'[n]]
  BY <1>1
<1>. QED  BY <1>2, <1>3, <1>4

\* It comes from a stop that raised.
LEMMA StrayComes ==
  ASSUME TypeOK, [Next]_vars, NEW n \in Mics, NEW w \in stray'[n], w \notin stray[n]
  PROVE  /\ StopFails
         /\ w.from = Len(cells[n]) /\ w.chunks = buffer[n]
<1>1. ~CrashAndRecover
  BY DEF CrashAndRecover
<1>2. StopFails
  BY <1>1, StrayGoes, Frame
<1>. QED  BY <1>2 DEF StopFails

\* What another writer leaves of a sequence, and what it adds.
LEMMA OverwrittenProperties ==
  ASSUME NEW S, NEW s \in Seq(S), NEW t \in Seq(S), NEW k \in Nat, k <= Len(s)
  PROVE  /\ Overwritten(s, k, t) \in Seq(S)
         /\ Len(Overwritten(s, k, t)) \in Nat /\ Len(s) <= Len(Overwritten(s, k, t))
         /\ k = Len(s) => Overwritten(s, k, t) = s \o t
<1> DEFINE head == SubSeq(s, 1, k)
           tail == SubSeq(s, k + Len(t) + 1, Len(s))
<1>1. Len(s) \in Nat /\ Len(t) \in Nat
  BY LenProperties
<1>2. head \in Seq(S) /\ Len(head) = k /\ \A i \in 1 .. k : head[i] = s[i]
  <2>1. \A i \in 1 .. k : s[i] \in S
    BY <1>1, ElementOfSeq
  <2>. QED  BY <2>1, SubSeqProperties
<1>3. /\ tail \in Seq(S)
      /\ Len(tail) = IF k + Len(t) + 1 <= Len(s) THEN Len(s) - k - Len(t) ELSE 0
      /\ k = Len(s) => tail = <<>>
  <2>1. \A i \in k + Len(t) + 1 .. Len(s) : s[i] \in S
    BY <1>1, ElementOfSeq
  <2>2. k + Len(t) + 1 \in Int /\ Len(s) \in Int
    BY <1>1
  <2>3. /\ tail \in Seq(S)
        /\ Len(tail) = IF k + Len(t) + 1 <= Len(s)
                       THEN Len(s) - (k + Len(t) + 1) + 1 ELSE 0
    BY <2>1, <2>2, SubSeqProperties
  <2>4. k = Len(s) => tail = <<>>
    BY <1>1, <2>2, SubSeqEmpty
  <2>. QED  BY <1>1, <2>3, <2>4
<1>4. Overwritten(s, k, t) = head \o t \o tail
  BY DEF Overwritten
<1>5. k = Len(s) => head = s
  BY <1>1, <1>2, SeqEqual
<1> HIDE DEF head, tail
<1>6. head \o t \in Seq(S) /\ Len(head \o t) = k + Len(t)
  BY <1>2, ConcatProperties
<1>7. head \o t \o tail \in Seq(S) /\ Len(head \o t \o tail) = k + Len(t) + Len(tail)
  <2> DEFINE front == head \o t
  <2>1. front \in Seq(S) /\ Len(front) = k + Len(t)
    BY <1>6
  <2> HIDE DEF front
  <2>2. front \o tail \in Seq(S) /\ Len(front \o tail) = Len(front) + Len(tail)
    BY <1>3, <2>1, ConcatProperties
  <2>. QED  BY <2>1, <2>2 DEF front
<1>8. k = Len(s) => head \o t \o tail = s \o t
  <2>1. s \o t \in Seq(S)
    BY ConcatProperties
  <2>2. (s \o t) \o <<>> = s \o t
    BY <2>1, ConcatEmptySeq
  <2>. QED  BY <1>3, <1>5, <2>2
<1>9. Len(head \o t \o tail) \in Nat /\ Len(s) <= Len(head \o t \o tail)
  <2> DEFINE a == Len(s)  b == Len(t)  c == Len(tail)
  <2>1. a \in Nat /\ b \in Nat /\ k <= a
    BY <1>1
  <2>2. c = IF k + b + 1 <= a THEN a - k - b ELSE 0
    BY <1>3
  <2>3. Len(head \o t \o tail) = k + b + c
    BY <1>7
  <2> HIDE DEF a, b, c
  <2>4. k + b + c \in Nat /\ a <= k + b + c
    BY <2>1, <2>2
  <2>. QED  BY <2>3, <2>4 DEF a
<1>. QED  BY <1>4, <1>7, <1>8, <1>9

\* A stray writer writes behind what is in the file, if no other writer has been there since.
LEMMA StrayEffect ==
  ASSUME TypeOK, StrayHolds, NEW m \in Mics, NEW w \in stray[m], StrayWrites(m, w)
  PROVE  /\ cells'[m] \in Seq(CellType)
         /\ InFile(m) \in Nat /\ InFile(m)' \in Nat /\ InFile(m) <= InFile(m)'
         /\ \A n \in Mics : n # m => cells'[n] = cells[n] /\ stray'[n] = stray[n]
         /\ stray'[m] = stray[m] \ {w}
         /\ late \subseteq late' /\ (Overtaken(m, w) => m \in late')
         /\ \/ w.created /\ Overtaken(m, w)
            \/ /\ InFile(m)' = InFile(m) + Len(w.chunks)
               /\ \A i \in 1 .. InFile(m) : cells'[m][i] = cells[m][i]
               /\ \A i \in 1 .. Len(w.chunks) : cells'[m][InFile(m) + i] = w.chunks[i]
<1> DEFINE old == cells[m]  t == w.chunks
<1>1. /\ old \in Seq(CellType) /\ t \in Seq(CellType) /\ w.from \in Nat
      /\ w.created \in BOOLEAN
      /\ cells \in [Mics -> Seq(CellType)] /\ stray \in [Mics -> SUBSET Strays]
  BY StrayKept DEF TypeOK
<1>2. w.from <= Len(old)
  BY DEF StrayHolds, InFile
<1>3. /\ cells' = [cells EXCEPT ![m] = IF w.created THEN Overwritten(old, w.from, t)
                                                  ELSE old \o t]
      /\ stray' = [stray EXCEPT ![m] = @ \ {w}]
      /\ late' = IF Overtaken(m, w) THEN late \cup {m} ELSE late
  BY DEF StrayWrites
<1>4. cells'[m] = IF w.created THEN Overwritten(old, w.from, t) ELSE old \o t
  BY <1>1, <1>3
<1> HIDE DEF old, t
<1>5. Len(old) \in Nat /\ Len(t) \in Nat
  BY <1>1, LenProperties
<1>6. /\ old \o t \in Seq(CellType) /\ Len(old \o t) = Len(old) + Len(t)
      /\ \A i \in 1 .. Len(old) : (old \o t)[i] = old[i]
      /\ \A i \in 1 .. Len(t) : (old \o t)[Len(old) + i] = t[i]
  <2>1. /\ old \o t \in Seq(CellType) /\ Len(old \o t) = Len(old) + Len(t)
        /\ \A i \in 1 .. Len(old) + Len(t) :
             (old \o t)[i] = IF i <= Len(old) THEN old[i] ELSE t[i - Len(old)]
    BY <1>1, ConcatProperties
  <2>. QED  BY <1>5, <2>1
<1> DEFINE over == Overwritten(old, w.from, t)
<1>10. /\ over \in Seq(CellType) /\ Len(over) \in Nat /\ Len(old) <= Len(over)
       /\ w.from = Len(old) => over = old \o t
  BY <1>1, <1>2, OverwrittenProperties
<1> HIDE DEF over
<1>11. w.from = Len(old) \/ Overtaken(m, w)
  BY DEF Overtaken, old
<1>12. /\ cells'[m] \in Seq(CellType)
       /\ Len(cells'[m]) \in Nat /\ Len(old) <= Len(cells'[m])
       /\ \/ w.created /\ Overtaken(m, w)
          \/ /\ Len(cells'[m]) = Len(old) + Len(t)
             /\ \A i \in 1 .. Len(old) : cells'[m][i] = old[i]
             /\ \A i \in 1 .. Len(t) : cells'[m][Len(old) + i] = t[i]
  <2>1. CASE w.created
    <3>1. cells'[m] = over
      BY <1>4, <2>1 DEF over
    <3>. QED  BY <1>5, <1>6, <1>10, <1>11, <2>1, <3>1
  <2>2. CASE ~w.created
    <3>1. cells'[m] = old \o t
      BY <1>4, <2>2
    <3>. QED  BY <1>5, <1>6, <3>1
  <2>. QED  BY <1>1, <2>1, <2>2
<1>13. \A n \in Mics : n # m => cells'[n] = cells[n] /\ stray'[n] = stray[n]
  BY <1>1, <1>3
<1>14. stray'[m] = stray[m] \ {w}
  BY <1>1, <1>3
<1>15. late \subseteq late' /\ (Overtaken(m, w) => m \in late')
  BY <1>3
<1>. QED  BY <1>5, <1>12, <1>13, <1>14, <1>15 DEF old, t, InFile

-----------------------------------------------------------------------------
\* Types.

LEMMA TypeStep == Inv /\ [Next]_vars => TypeOK'
<1> SUFFICES ASSUME Inv, [Next]_vars PROVE TypeOK'
  OBVIOUS
<1> USE DEF db, disk, memory, writers, history, leaks, env
<1>0. TypeOK /\ FeedHolds /\ StrayHolds
  BY DEF Inv
<1>1. ASSUME NEW m \in Mics, Registry(m) PROVE TypeOK'
  BY <1>0, <1>1 DEF Registry, AddMic, RemoveChecks, RemoveRow, TypeOK
<1>2. CASE Start
  <2>1. row' \in [Mics -> {"unborn", "present", "removed"}]
    BY <1>0, <1>2 DEF Start, TypeOK
  <2>. QED  BY <1>0, <1>2, <2>1 DEF Start, TypeOK
<1>3. ASSUME EndSession
      PROVE  /\ session' \in BOOLEAN /\ socket' \in [Mics -> BOOLEAN]
             /\ writer' \in [Mics -> {Closed} \cup Nat]
             /\ fresh' \in [Mics -> BOOLEAN]
             /\ buffer' \in [Mics -> Seq(CellType)]
  <2>1. <<>> \in Seq(CellType)
    BY EmptySeq
  <2>. QED  BY <1>3, <2>1 DEF EndSession
<1>4. CASE Stop
  <2>1. cells' \in [Mics -> Seq(CellType)]
    BY <1>0, <1>4, Kept DEF Stop
  <2>. QED  BY <1>0, <1>3, <1>4, <2>1 DEF Stop, TypeOK
<1>5. CASE StopFails
  <2>1. PICK first \in Dirty :
          stray' = [m \in Mics |->
                      IF m \in Dirty \ {first}
                      THEN stray[m] \cup {[from |-> Len(cells[m]), created |-> fresh[m],
                                           chunks |-> buffer[m]]}
                      ELSE stray[m]]
    BY <1>5 DEF StopFails
  <2>2. \A m \in Mics : [from |-> Len(cells[m]), created |-> fresh[m],
                         chunks |-> buffer[m]] \in Strays
    BY <1>0, Kept DEF TypeOK, Strays
  <2>3. stray' \in [Mics -> SUBSET Strays]
    BY <1>0, <2>1, <2>2 DEF TypeOK
  <2>. QED  BY <1>0, <1>3, <1>5, <2>3 DEF StopFails, TypeOK
<1>6. ASSUME NEW m \in Mics, Connect(m) \/ Disconnect(m) \/ Refuse(m) PROVE TypeOK'
  BY <1>0, <1>6 DEF Connect, Disconnect, Refuse, TypeOK
<1>7. ASSUME NEW m \in Mics, Receive(m) PROVE TypeOK'
  <2>1. sent[m] + 1 \in 0 .. MaxChunks
    BY <1>0, <1>7 DEF Receive, TypeOK
  <2>. QED  BY <1>0, <1>7, <2>1 DEF Receive, TypeOK
<1>8. ASSUME NEW m \in Mics, OpenWriter(m) \/ OpenFails(m) PROVE TypeOK'
  <2>1. Len(cells[m]) \in Nat
    BY <1>0, Kept
  <2>2. CASE OpenWriter(m)
    <3>1. writer' \in [Mics -> {Closed} \cup Nat]
      BY <1>0, <2>1, <2>2 DEF OpenWriter, TypeOK
    <3>2. feeding' \in [at : {"idle", "open", "link", "default", "write"},
                        mic : Mics \cup {NoMic}]
      BY <1>0, <2>2 DEF OpenWriter, TypeOK
    <3>3. fresh' \in [Mics -> BOOLEAN]
      BY <1>0, <2>2 DEF OpenWriter, TypeOK
    <3>. QED  BY <1>0, <2>2, <3>1, <3>2, <3>3 DEF OpenWriter, TypeOK
  <2>3. CASE OpenFails(m)
    BY <1>0, <2>3 DEF OpenFails, TypeOK, Idle
  <2>. QED  BY <1>8, <2>2, <2>3
<1>9. ASSUME NEW m \in Mics, LinkMic(m) \/ LinkMeeting(m) PROVE TypeOK'
  BY <1>0, <1>9 DEF LinkMic, LinkMeeting, TypeOK
<1>10. ASSUME NEW m \in Mics, Write(m) PROVE TypeOK'
  <2>0. /\ Cell(m) \in CellType /\ Flushed(m) \in Seq(CellType)
        /\ sent[m] \in 1 .. MaxChunks /\ writer[m] + 1 \in Nat
    <3>1. feeding = [at |-> "write", mic |-> m]
      BY <1>10 DEF Write, Advance
    <3>2. /\ Cell(m) \in CellType /\ sent[m] \in 1 .. MaxChunks /\ writer[m] \in Nat
      BY <1>0, <3>1, CellInHand
    <3>3. Flushed(m) \in Seq(CellType) /\ buffer[m] \in Seq(CellType)
      BY <1>0, Kept
    <3>. QED  BY <3>2, <3>3
  <2>1. Append(Flushed(m), Cell(m)) \in Seq(CellType) /\ <<>> \in Seq(CellType)
    BY <2>0, AppendProperties, EmptySeq
  <2>2. /\ cells' \in [Mics -> Seq(CellType)]
        /\ buffer' \in [Mics -> Seq(CellType)]
        /\ writer' \in [Mics -> {Closed} \cup Nat]
        /\ acked' \in [Mics -> SUBSET (1 .. MaxChunks)]
    BY <1>0, <1>10, <2>0, <2>1 DEF Write, Advance, TypeOK
  <2>3. feeding' \in [at : {"idle", "open", "link", "default", "write"},
                      mic : Mics \cup {NoMic}]
    BY <1>10 DEF Write, Advance, Idle
  <2>. QED  BY <1>0, <1>10, <2>2, <2>3 DEF Write, TypeOK
<1>11. ASSUME NEW m \in Mics, WriteFails(m) PROVE TypeOK'
  <2>0. /\ Cell(m) \in CellType /\ buffer[m] \in Seq(CellType)
        /\ writer[m] + 1 \in Nat
    <3>1. feeding = [at |-> "write", mic |-> m]
      BY <1>11 DEF WriteFails, Advance
    <3>2. /\ Cell(m) \in CellType /\ sent[m] \in 1 .. MaxChunks /\ writer[m] \in Nat
      BY <1>0, <3>1, CellInHand
    <3>3. Flushed(m) \in Seq(CellType) /\ buffer[m] \in Seq(CellType)
      BY <1>0, Kept
    <3>. QED  BY <3>2, <3>3
  <2>1. Append(buffer[m], Cell(m)) \in Seq(CellType)
    BY <2>0, AppendProperties
  <2>2. buffer' \in [Mics -> Seq(CellType)] /\ dropped' \in [Mics -> BOOLEAN]
    <3>1. buffer \in [Mics -> Seq(CellType)] /\ dropped \in [Mics -> BOOLEAN]
      BY <1>0 DEF TypeOK
    <3>2. \/ buffer' = [buffer EXCEPT ![m] = Append(@, Cell(m))] /\ dropped' = dropped
          \/ buffer' = buffer /\ dropped' = [dropped EXCEPT ![m] = TRUE]
      BY <1>11 DEF WriteFails
    <3>. QED  BY <2>1, <3>1, <3>2
  <2>3. writer' \in [Mics -> {Closed} \cup Nat]
    BY <1>0, <1>11, <2>0 DEF WriteFails, Advance, TypeOK
  <2>4. feeding' \in [at : {"idle", "open", "link", "default", "write"},
                      mic : Mics \cup {NoMic}]
    BY <1>11 DEF WriteFails, Advance, Idle
  <2>. QED  BY <1>0, <1>11, <2>2, <2>3, <2>4 DEF WriteFails, TypeOK
<1>12. CASE DiskFills \/ DiskFreed
  <2>1. full' \in BOOLEAN /\ fulls' \in 0 .. MaxFull
    <3>1. CASE DiskFills
      <4>1. fulls \in Nat /\ fulls < MaxFull /\ fulls' = fulls + 1
        BY <1>0, <3>1 DEF DiskFills, TypeOK
      <4>. QED  BY <3>1, <4>1 DEF DiskFills
    <3>2. CASE DiskFreed
      BY <1>0, <3>2 DEF DiskFreed, TypeOK
    <3>. QED  BY <1>12, <3>1, <3>2
  <2>2. UNCHANGED <<db, disk, memory, removing, history, leaks, crashes>>
    BY <1>12 DEF DiskFills, DiskFreed
  <2>. QED  BY <1>0, <2>1, <2>2 DEF TypeOK
<1>13. CASE CrashAndRecover
  <2>1. crashes' \in 0 .. MaxCrashes
    BY <1>0, <1>13 DEF CrashAndRecover, TypeOK
  <2>2. status' \in {"created", "live", "processing", "failed"}
    BY <1>0, <1>13 DEF CrashAndRecover, TypeOK
  <2>3. feeding' \in [at : {"idle", "open", "link", "default", "write"},
                      mic : Mics \cup {NoMic}]
    BY <1>13 DEF CrashAndRecover, Idle
  <2>4. removing' \in [Mics -> BOOLEAN] /\ EndSession
    BY <1>13 DEF CrashAndRecover
  <2>5. UNCHANGED <<row, linked, playback, file, cells, sent, acked, dropped, late,
                   full, fulls>>
    BY <1>13 DEF CrashAndRecover
  <2>6. /\ session' \in BOOLEAN /\ socket' \in [Mics -> BOOLEAN]
        /\ writer' \in [Mics -> {Closed} \cup Nat]
        /\ fresh' \in [Mics -> BOOLEAN]
        /\ buffer' \in [Mics -> Seq(CellType)]
    BY <1>3, <2>4
  <2>7. stray' \in [Mics -> SUBSET Strays]
    BY <1>13 DEF CrashAndRecover
  <2>. QED  BY <1>0, <2>1, <2>2, <2>3, <2>4, <2>5, <2>6, <2>7 DEF TypeOK
<1>14. CASE UNCHANGED vars
  BY <1>0, <1>14 DEF vars, TypeOK
<1>15. ASSUME NEW m \in Mics, NEW w \in stray[m], StrayWrites(m, w) \/ StrayLost(m, w)
       PROVE  TypeOK'
  <2>1. stray' \in [Mics -> SUBSET Strays]
    BY <1>0, <1>15, StrayGoes
  <2>2. late' \subseteq Mics
    BY <1>0, <1>15 DEF StrayWrites, StrayLost, TypeOK
  <2>3. cells' \in [Mics -> Seq(CellType)]
    <3>1. CASE StrayWrites(m, w)
      <4>1. DOMAIN cells' = Mics /\ \E e : cells' = [cells EXCEPT ![m] = e]
        BY <1>0, <3>1 DEF StrayWrites, TypeOK
      <4>2. \A n \in Mics : cells'[n] \in Seq(CellType)
        BY <1>0, <3>1, StrayEffect DEF TypeOK
      <4>. QED  BY <1>0, <4>1, <4>2 DEF TypeOK
    <3>2. CASE StrayLost(m, w)
      BY <1>0, <3>2 DEF StrayLost, TypeOK
    <3>. QED  BY <1>15, <3>1, <3>2
  <2>4. UNCHANGED <<db, file, memory, removing, history, env>>
    BY <1>15 DEF StrayWrites, StrayLost
  <2>. QED  BY <1>0, <2>1, <2>2, <2>3, <2>4 DEF TypeOK
<1>. QED
  BY <1>1, <1>2, <1>4, <1>5, <1>6, <1>7, <1>8, <1>9, <1>10, <1>11, <1>12, <1>13, <1>14,
     <1>15
     DEF Next, Socket, Feed

-----------------------------------------------------------------------------
\* feed, the sockets and the writers.

\* Opening, linking and writing a mic is feed's, and nobody else's.
LEMMA FeedStep == Inv /\ [Next]_vars => FeedHolds'
<1> SUFFICES ASSUME Inv, [Next]_vars PROVE FeedHolds'
  OBVIOUS
<1> USE DEF db, disk, memory, writers, history, leaks, env, FeedHolds, Idle, LoopFree, Closed, NoMic, Mics
<1>0. TypeOK /\ FeedHolds /\ WriterHolds
  BY DEF Inv
<1>1. ASSUME NEW m \in Mics, Registry(m) PROVE FeedHolds'
  BY <1>0, <1>1 DEF Registry, AddMic, RemoveChecks, RemoveRow
<1>2. CASE Start \/ Stop \/ StopFails \/ CrashAndRecover
  BY <1>0, <1>2 DEF Start, Stop, StopFails, EndSession, CrashAndRecover
<1>3. ASSUME NEW m \in Mics, Connect(m) \/ Disconnect(m) \/ Refuse(m) PROVE FeedHolds'
  BY <1>0, <1>3 DEF Connect, Disconnect, Refuse
<1>4. ASSUME NEW m \in Mics, Receive(m) PROVE FeedHolds'
  <2>1. session /\ sent' = [sent EXCEPT ![m] = @ + 1] /\ sent[m] \in Nat
    BY <1>0, <1>4 DEF Receive, WriterHolds, TypeOK
  <2>2. sent'[m] >= 1
    BY <1>0, <2>1 DEF TypeOK
  <2>. QED  BY <1>0, <1>4, <2>1, <2>2 DEF Receive
<1>5. ASSUME NEW m \in Mics, OpenWriter(m) PROVE FeedHolds'
  <2>1. Len(cells[m]) \in Nat
    BY <1>0, Kept
  <2>2. writer'[m] = Len(cells[m]) /\ UNCHANGED <<session, sent>>
    BY <1>0, <1>5 DEF OpenWriter, TypeOK
  <2>3. feeding.mic = m /\ feeding'.mic = m /\ feeding'.at = "link"
    BY <1>5 DEF OpenWriter
  <2>. QED  BY <1>0, <2>1, <2>2, <2>3
<1>6. ASSUME NEW m \in Mics, LinkMic(m) PROVE FeedHolds'
  <2>1. /\ feeding.mic = m /\ feeding.at = "link" /\ feeding'.mic = m
        /\ feeding'.at = "default" /\ UNCHANGED <<session, sent, writer>>
    BY <1>6 DEF LinkMic
  <2>. QED  BY <1>0, <2>1
<1>7. ASSUME NEW m \in Mics, LinkMeeting(m) PROVE FeedHolds'
  <2>1. /\ feeding.mic = m /\ feeding.at = "default" /\ feeding'.mic = m
        /\ feeding'.at = "write" /\ UNCHANGED <<session, sent, writer>>
    BY <1>7 DEF LinkMeeting
  <2>. QED  BY <1>0, <2>1
<1>8. ASSUME NEW m \in Mics, OpenFails(m) \/ Write(m) \/ WriteFails(m) PROVE FeedHolds'
  <2>1. feeding' = Idle
    BY <1>8 DEF OpenFails, Write, WriteFails, Advance
  <2>. QED  BY <2>1
<1>9. CASE \/ DiskFills \/ DiskFreed \/ UNCHANGED vars
          \/ \E m \in Mics : \E w \in stray[m] : StrayWrites(m, w) \/ StrayLost(m, w)
  <2>1. UNCHANGED <<feeding, session, sent, writer>>
    BY <1>9 DEF DiskFills, DiskFreed, StrayWrites, StrayLost, vars
  <2>. QED  BY <1>0, <2>1
<1>. QED
  BY <1>1, <1>2, <1>3, <1>4, <1>5, <1>6, <1>7, <1>8, <1>9 DEF Next, Socket, Feed

\* Writers go with the session, and files are sealed before they are written.
LEMMA WriterStep == Inv /\ [Next]_vars => WriterHolds'
<1> SUFFICES ASSUME Inv, [Next]_vars PROVE WriterHolds'
  OBVIOUS
<1> USE DEF db, disk, memory, writers, history, leaks, env, Idle, LoopFree, NoMic, Mics
<1>0. TypeOK /\ FeedHolds /\ WriterHolds /\ StrayHolds
  BY DEF Inv
<1>1. ASSUME NEW m \in Mics, Registry(m) PROVE WriterHolds'
  <2>1. /\ UNCHANGED <<session, socket, writer, buffer, file, cells, feeding, stray>>
        /\ \A n \in Mics : row[n] # "unborn" => row'[n] # "unborn"
    BY <1>0, <1>1 DEF Registry, AddMic, RemoveChecks, RemoveRow, TypeOK
  <2>. QED  BY <1>0, <2>1 DEF WriterHolds
<1>2. CASE Start
  <2>1. /\ UNCHANGED <<socket, writer, buffer, file, cells, feeding, stray>>
        /\ session' /\ ~session
        /\ \A n \in Mics : row[n] # "unborn" => row'[n] # "unborn"
    BY <1>0, <1>2 DEF Start, IsNextMic, TypeOK
  <2>. QED  BY <1>0, <2>1 DEF WriterHolds
<1>3. CASE Stop \/ StopFails \/ CrashAndRecover
  <2>1. EndSession /\ UNCHANGED <<row, file>> /\ feeding'.mic = NoMic
    BY <1>3 DEF Stop, StopFails, CrashAndRecover
  <2>2. \A n \in Mics : /\ ~socket'[n] /\ writer'[n] = Closed /\ buffer'[n] = <<>>
    BY <2>1 DEF EndSession
  <2>3. \A n \in Mics : \/ cells'[n] = cells[n]
                        \/ writer[n] # Closed
                        \/ cells'[n] = cells[n] \o <<>>
    BY <1>0, <1>3 DEF Stop, StopFails, CrashAndRecover, Flushed, WriterHolds
  <2>4. \A n \in Mics : cells'[n] = cells[n] \/ writer[n] # Closed
    <3> SUFFICES ASSUME NEW n \in Mics, cells'[n] = cells[n] \o <<>>
                 PROVE  cells'[n] = cells[n]
      BY <2>3
    <3>1. cells[n] \in Seq(CellType)
      BY <1>0 DEF TypeOK
    <3>. QED  BY <3>1, ConcatEmptySeq
  <2>5. \A n \in Mics : stray'[n] # {} => stray[n] # {} \/ writer[n] # Closed
    <3>1. CASE Stop
      BY <3>1 DEF Stop
    <3>2. CASE StopFails
      <4>1. \A n \in Mics : stray'[n] # {} => stray[n] # {} \/ n \in Dirty
        BY <3>2 DEF StopFails
      <4>. QED  BY <1>0, <4>1 DEF Dirty, WriterHolds
    <3>3. CASE CrashAndRecover
      BY <3>3 DEF CrashAndRecover
    <3>. QED  BY <1>3, <3>1, <3>2, <3>3
  <2>. QED  BY <1>0, <2>1, <2>2, <2>4, <2>5 DEF WriterHolds
<1>4. ASSUME NEW m \in Mics, Connect(m) \/ Disconnect(m) \/ Refuse(m) PROVE WriterHolds'
  BY <1>0, <1>4 DEF Connect, Disconnect, Refuse, WriterHolds, TypeOK
<1>5. ASSUME NEW m \in Mics, Receive(m) PROVE WriterHolds'
  BY <1>0, <1>5 DEF Receive, WriterHolds, TypeOK
<1>6. ASSUME NEW m \in Mics, OpenWriter(m) PROVE WriterHolds'
  <2>1. Len(cells[m]) \in Nat
    BY <1>0, Kept
  <2>2. /\ feeding.mic = m /\ feeding'.mic = m /\ session /\ writer[m] = Closed
    BY <1>0, <1>6 DEF OpenWriter, FeedHolds
  <2>3. /\ UNCHANGED <<session, socket, buffer, row, cells, stray>>
        /\ file' = [file EXCEPT ![m] = "sealed"]
        /\ writer' = [writer EXCEPT ![m] = Len(cells[m])]
    BY <1>6 DEF OpenWriter
  <2>. QED  BY <1>0, <2>1, <2>2, <2>3 DEF WriterHolds, TypeOK
<1>7. ASSUME NEW m \in Mics, OpenFails(m) PROVE WriterHolds'
  <2>1. /\ feeding.mic = m /\ feeding'.mic = NoMic /\ writer[m] = Closed
    BY <1>0, <1>7 DEF OpenFails, FeedHolds
  <2>2. /\ UNCHANGED <<session, buffer, row, cells, writer, stray>>
        /\ file[m] # "sealed"
        /\ file' = [file EXCEPT ![m] = "short"]
        /\ socket' = [socket EXCEPT ![m] = FALSE]
    BY <1>7 DEF OpenFails
  <2>3. \A n \in Mics : /\ socket'[n] => socket[n]
                        /\ n # m => file'[n] = file[n]
    BY <1>0, <2>2 DEF TypeOK
  <2>4. cells'[m] = <<>> /\ stray'[m] = {} /\ writer'[m] = Closed
    BY <1>0, <2>1, <2>2 DEF WriterHolds
  <2>. QED  BY <1>0, <2>1, <2>2, <2>3, <2>4 DEF WriterHolds
<1>8. ASSUME NEW m \in Mics, LinkMic(m) \/ LinkMeeting(m) PROVE WriterHolds'
  <2>1. feeding'.mic = m /\ feeding.mic = m
    BY <1>8 DEF LinkMic, LinkMeeting
  <2>. QED  BY <1>0, <1>8, <2>1 DEF LinkMic, LinkMeeting, WriterHolds
<1>9. ASSUME NEW m \in Mics, Write(m) \/ WriteFails(m) PROVE WriterHolds'
  <2>1. feeding = [at |-> "write", mic |-> m]
    BY <1>9 DEF Write, WriteFails, Advance
  <2>2. writer[m] \in Nat /\ writer[m] # Closed /\ session
    BY <1>0, <2>1, CellInHand
  <2>3. /\ writer' = [writer EXCEPT ![m] = @ + 1] /\ feeding'.mic = NoMic
        /\ UNCHANGED <<session, row, file, stray>>
    BY <1>9 DEF Write, WriteFails, Advance
  <2>4. writer'[m] # Closed
    BY <1>0, <2>2, <2>3 DEF TypeOK, Closed
  <2>5. \A n \in Mics : n # m => /\ cells'[n] = cells[n] /\ buffer'[n] = buffer[n]
                                 /\ writer'[n] = writer[n]
    BY <1>0, <1>9, <2>3 DEF Write, WriteFails, TypeOK
  <2>6. \A n \in Mics : socket'[n] => socket[n]
    BY <1>0, <1>9 DEF Write, WriteFails, TypeOK
  <2>. QED  BY <1>0, <2>1, <2>2, <2>3, <2>4, <2>5, <2>6 DEF WriterHolds
<1>10. CASE DiskFills \/ DiskFreed \/ UNCHANGED vars
  <2>1. UNCHANGED <<feeding, session, socket, writer, buffer, file, cells, row, stray>>
    BY <1>10 DEF DiskFills, DiskFreed, vars
  <2>. QED  BY <1>0, <2>1 DEF WriterHolds
<1>11. ASSUME NEW m \in Mics, NEW w \in stray[m], StrayWrites(m, w) \/ StrayLost(m, w)
       PROVE  WriterHolds'
  <2>1. UNCHANGED <<feeding, session, socket, writer, buffer, file, row>>
    BY <1>11 DEF StrayWrites, StrayLost
  <2>2. \A n \in Mics : /\ cells'[n] # <<>> => cells[n] # <<>> \/ stray[n] # {}
                        /\ stray'[n] # {} => stray[n] # {}
    <3>1. CASE StrayWrites(m, w)
      BY <1>0, <3>1, StrayEffect
    <3>2. CASE StrayLost(m, w)
      BY <1>0, <3>2 DEF StrayLost, TypeOK
    <3>. QED  BY <1>11, <3>1, <3>2
  <2>. QED  BY <1>0, <2>1, <2>2 DEF WriterHolds
<1>. QED
  BY <1>1, <1>2, <1>3, <1>4, <1>5, <1>6, <1>7, <1>8, <1>9, <1>10, <1>11
     DEF Next, Socket, Feed

-----------------------------------------------------------------------------
\* What the steps of a writer do.

LEMMA NoneKept == Len(<<>>) = 0
  OBVIOUS

\* The chunk a write was called with is in the file, or in the buffer, or gone.
LEMMA WriteEffect ==
  ASSUME Inv, NEW m \in Mics, Write(m)
  PROVE  /\ InFile(m)' = InFile(m) + Unwritten(m) + 1 /\ Unwritten(m)' = 0
         /\ \A i \in 1 .. InFile(m) + Unwritten(m) :
              cells'[m][i] = IF i <= InFile(m) THEN cells[m][i] ELSE buffer[m][i - InFile(m)]
         /\ cells'[m][InFile(m) + Unwritten(m) + 1].chunk = sent[m]
         /\ cells'[m][InFile(m) + Unwritten(m) + 1].pos = writer[m]
         /\ buffer'[m] = <<>> /\ writer'[m] = writer[m] + 1 /\ writer[m] \in Nat
         /\ acked'[m] = acked[m] \cup {sent[m]} /\ dropped' = dropped
         /\ late' = late /\ stray' = stray
<1>1. feeding = [at |-> "write", mic |-> m]
  BY DEF Write, Advance
<1>2. TypeOK /\ FeedHolds
  BY DEF Inv
<1>3. /\ Cell(m) \in CellType /\ Cell(m).chunk = sent[m] /\ Cell(m).pos = writer[m]
      /\ writer[m] \in Nat
  BY <1>1, <1>2, CellInHand
<1>4. /\ cells'[m] = Append(Flushed(m), Cell(m)) /\ buffer'[m] = <<>>
      /\ writer'[m] = writer[m] + 1 /\ acked'[m] = acked[m] \cup {sent[m]}
      /\ dropped' = dropped /\ late' = late /\ stray' = stray
  BY <1>2 DEF Write, Advance, TypeOK, leaks
<1>5. /\ Flushed(m) \in Seq(CellType)
      /\ Len(Flushed(m)) = InFile(m) + Unwritten(m)
      /\ InFile(m) \in Nat /\ Unwritten(m) \in Nat
      /\ \A i \in 1 .. InFile(m) + Unwritten(m) :
           Flushed(m)[i] = IF i <= InFile(m) THEN cells[m][i] ELSE buffer[m][i - InFile(m)]
  BY <1>2, Kept DEF InFile, Unwritten
<1>6. /\ Len(cells'[m]) = InFile(m) + Unwritten(m) + 1
      /\ \A i \in 1 .. InFile(m) + Unwritten(m) : cells'[m][i] = Flushed(m)[i]
      /\ cells'[m][InFile(m) + Unwritten(m) + 1] = Cell(m)
  <2> DEFINE fl == Flushed(m)  ce == Cell(m)
  <2>1. fl \in Seq(CellType) /\ ce \in CellType
    BY <1>3, <1>5
  <2> HIDE DEF fl, ce
  <2>2. /\ Len(Append(fl, ce)) = Len(fl) + 1
        /\ \A i \in 1 .. Len(fl) : Append(fl, ce)[i] = fl[i]
        /\ Append(fl, ce)[Len(fl) + 1] = ce
    BY <2>1, AppendProperties
  <2>3. cells'[m] = Append(fl, ce) /\ Len(fl) = InFile(m) + Unwritten(m)
    BY <1>4, <1>5 DEF fl, ce
  <2>4. /\ Len(cells'[m]) = Len(fl) + 1
        /\ \A i \in 1 .. Len(fl) : cells'[m][i] = fl[i]
        /\ cells'[m][Len(fl) + 1] = ce
    BY <2>2, <2>3
  <2>. QED  BY <2>3, <2>4 DEF fl, ce
<1>7. \A i \in 1 .. InFile(m) + Unwritten(m) :
        cells'[m][i] = IF i <= InFile(m) THEN cells[m][i] ELSE buffer[m][i - InFile(m)]
  BY <1>5, <1>6
<1>8. InFile(m)' = InFile(m) + Unwritten(m) + 1
  BY <1>6 DEF InFile
<1>9. Unwritten(m)' = 0
  BY <1>4, NoneKept DEF Unwritten
<1>. QED  BY <1>3, <1>4, <1>6, <1>7, <1>8, <1>9

\* Writing, with success or not, ends the feed and is about one mic.
LEMMA WriteLeaves ==
  ASSUME Inv, NEW m \in Mics, Write(m) \/ WriteFails(m)
  PROVE  /\ sent' = sent /\ late' = late /\ stray' = stray
         /\ feeding.at = "write" /\ feeding.mic = m /\ feeding'.mic = NoMic
         /\ \A n \in Mics : n # m =>
              /\ cells'[n] = cells[n] /\ buffer'[n] = buffer[n] /\ writer'[n] = writer[n]
              /\ dropped'[n] = dropped[n] /\ acked'[n] = acked[n]
              /\ InFile(n)' = InFile(n) /\ Unwritten(n)' = Unwritten(n)
<1>1. /\ cells \in [Mics -> Seq(CellType)] /\ writer \in [Mics -> {Closed} \cup Nat]
      /\ buffer \in [Mics -> Seq(CellType)] /\ dropped \in [Mics -> BOOLEAN]
      /\ acked \in [Mics -> SUBSET (1 .. MaxChunks)]
  BY DEF Inv, TypeOK
<1>2. /\ feeding = [at |-> "write", mic |-> m] /\ feeding' = Idle /\ sent' = sent
      /\ writer' = [writer EXCEPT ![m] = @ + 1]
      /\ late' = late /\ stray' = stray
  BY DEF Write, WriteFails, Advance, leaks
<1>3. /\ feeding.at = "write" /\ feeding.mic = m /\ feeding'.mic = NoMic
  BY <1>2 DEF Idle
<1>4. ASSUME NEW n \in Mics, n # m
      PROVE  /\ cells'[n] = cells[n] /\ buffer'[n] = buffer[n] /\ writer'[n] = writer[n]
             /\ dropped'[n] = dropped[n] /\ acked'[n] = acked[n]
  <2>1. CASE Write(m)
    BY <1>1, <1>2, <1>4, <2>1 DEF Write
  <2>2. CASE WriteFails(m)
    BY <1>1, <1>2, <1>4, <2>2 DEF WriteFails, disk
  <2>. QED  BY <2>1, <2>2
<1>5. \A n \in Mics : n # m => InFile(n)' = InFile(n) /\ Unwritten(n)' = Unwritten(n)
  BY <1>4 DEF InFile, Unwritten
<1>. QED  BY <1>2, <1>3, <1>4, <1>5

\* A failed one has written nothing.
LEMMA FailEffect ==
  ASSUME Inv, NEW m \in Mics, WriteFails(m)
  PROVE  /\ cells' = cells /\ acked' = acked
         /\ InFile(m) = InFile(m)'
         /\ writer'[m] = writer[m] + 1 /\ writer[m] \in Nat
         /\ \/ dropped'[m] /\ Unwritten(m)' = Unwritten(m)
            \/ /\ dropped'[m] = dropped[m]
               /\ Unwritten(m)' = Unwritten(m) + 1
               /\ \A i \in 1 .. Unwritten(m) : buffer'[m][i] = buffer[m][i]
               /\ buffer'[m][Unwritten(m) + 1].pos = writer[m]
<1>1. feeding = [at |-> "write", mic |-> m]
  BY DEF WriteFails, Advance
<1>2. TypeOK /\ FeedHolds
  BY DEF Inv
<1>3. Cell(m) \in CellType /\ Cell(m).pos = writer[m] /\ writer[m] \in Nat
  BY <1>1, <1>2, CellInHand
<1>4. UNCHANGED <<cells, acked>> /\ writer'[m] = writer[m] + 1
  BY <1>2 DEF WriteFails, Advance, TypeOK, disk
<1>5. \/ dropped'[m] /\ buffer'[m] = buffer[m]
      \/ dropped'[m] = dropped[m] /\ buffer'[m] = Append(buffer[m], Cell(m))
  BY <1>2 DEF WriteFails, TypeOK
<1>6. buffer[m] \in Seq(CellType)
  BY <1>2, Kept
<1>7. /\ Len(Append(buffer[m], Cell(m))) = Unwritten(m) + 1
      /\ \A i \in 1 .. Unwritten(m) : Append(buffer[m], Cell(m))[i] = buffer[m][i]
      /\ Append(buffer[m], Cell(m))[Unwritten(m) + 1] = Cell(m)
  BY <1>3, <1>6, AppendProperties DEF Unwritten
<1>8. InFile(m) = InFile(m)'
  BY <1>4 DEF InFile
<1>9. CASE dropped'[m] /\ buffer'[m] = buffer[m]
  BY <1>3, <1>4, <1>8, <1>9 DEF Unwritten
<1>10. CASE dropped'[m] = dropped[m] /\ buffer'[m] = Append(buffer[m], Cell(m))
  <2>1. /\ Unwritten(m)' = Unwritten(m) + 1
        /\ \A i \in 1 .. Unwritten(m) : buffer'[m][i] = buffer[m][i]
        /\ buffer'[m][Unwritten(m) + 1].pos = writer[m]
    BY <1>3, <1>7, <1>10 DEF Unwritten
  <2>. QED  BY <1>3, <1>4, <1>8, <1>10, <2>1
<1>. QED  BY <1>5, <1>9, <1>10

\* A stop appends what each writer still had.
LEMMA StopEffect ==
  ASSUME Inv, Stop, NEW m \in Mics
  PROVE  /\ cells'[m] = Flushed(m)
         /\ InFile(m)' = InFile(m) + Unwritten(m) /\ Unwritten(m)' = 0
         /\ \A i \in 1 .. InFile(m) + Unwritten(m) :
              cells'[m][i] = IF i <= InFile(m) THEN cells[m][i] ELSE buffer[m][i - InFile(m)]
         /\ buffer'[m] = <<>> /\ writer'[m] = Closed
         /\ feeding' = feeding /\ feeding.mic = NoMic
         /\ sent' = sent /\ dropped' = dropped /\ acked' = acked
         /\ late' = late /\ stray' = stray
<1>1. cells'[m] = Flushed(m)
  BY DEF Stop
<1>2. buffer'[m] = <<>> /\ writer'[m] = Closed
  BY DEF Stop, EndSession
<1>3. UNCHANGED <<feeding, sent, dropped, acked, late, stray>> /\ feeding.mic = NoMic
  BY DEF Stop, LoopFree, Idle, history, leaks
<1>4. TypeOK
  BY DEF Inv
<1>5. /\ InFile(m)' = InFile(m) + Unwritten(m)
      /\ \A i \in 1 .. InFile(m) + Unwritten(m) :
           cells'[m][i] = IF i <= InFile(m) THEN cells[m][i] ELSE buffer[m][i - InFile(m)]
  BY <1>1, <1>4, Kept DEF InFile, Unwritten
<1>6. Unwritten(m)' = 0
  BY <1>2, NoneKept DEF Unwritten
<1>. QED  BY <1>1, <1>2, <1>3, <1>5, <1>6

\* A session that ends otherwise loses its buffers and nothing else.
LEMMA EndEffect ==
  ASSUME StopFails \/ CrashAndRecover, NEW m \in Mics
  PROVE  /\ cells' = cells /\ file' = file
         /\ buffer'[m] = <<>> /\ writer'[m] = Closed
         /\ feeding'.mic = NoMic
         /\ InFile(m)' = InFile(m) /\ Unwritten(m)' = 0
         /\ sent' = sent /\ dropped' = dropped /\ acked' = acked /\ late' = late
  BY NoneKept DEF InFile, Unwritten, StopFails, CrashAndRecover, EndSession, LoopFree,
                  Idle, NoMic, disk, history

\* Opening a writer puts it where the file ends.
LEMMA OpenEffect ==
  ASSUME Inv, NEW m \in Mics, OpenWriter(m)
  PROVE  /\ cells' = cells /\ buffer' = buffer /\ sent' = sent /\ dropped' = dropped
         /\ acked' = acked /\ late' = late /\ stray' = stray
         /\ writer'[m] = Len(cells[m]) /\ buffer[m] = <<>> /\ writer[m] = Closed
         /\ feeding.mic = m /\ feeding'.mic = m /\ feeding.at = "open"
         /\ feeding'.at = "link"
         /\ \A n \in Mics : n # m => writer'[n] = writer[n]
<1>1. TypeOK /\ FeedHolds /\ WriterHolds
  BY DEF Inv
<1>2. feeding.mic = m /\ feeding'.mic = m /\ feeding.at = "open" /\ feeding'.at = "link"
  BY DEF OpenWriter
<1>3. writer[m] = Closed /\ buffer[m] = <<>>
  BY <1>1, <1>2 DEF FeedHolds, WriterHolds
<1>4. /\ UNCHANGED <<cells, buffer, sent, dropped, acked, late, stray>>
      /\ writer' = [writer EXCEPT ![m] = Len(cells[m])]
  BY DEF OpenWriter, history, leaks
<1>. QED  BY <1>1, <1>2, <1>3, <1>4 DEF TypeOK

\* No other step touches a writer or what it wrote.
LEMMA RestKeeps ==
  ASSUME [Next]_vars, ~(Stop \/ StopFails \/ CrashAndRecover),
         \A m \in Mics : /\ ~(OpenWriter(m) \/ Write(m) \/ WriteFails(m))
                        /\ \A w \in stray[m] : ~StrayWrites(m, w)
  PROVE  /\ UNCHANGED <<cells, buffer, writer, dropped, acked, late>>
         /\ stray' = stray \/ \E m \in Mics : \E w \in stray[m] : StrayLost(m, w)
  BY Frame

\* A recording changes by its own writes, by a stop, or by a stray writer of it.
LEMMA Changes ==
  ASSUME Inv, [Next]_vars, NEW n \in Mics
  PROVE  /\ cells'[n] = cells[n] \/ Stop \/ Write(n) \/ \E w \in stray[n] : StrayWrites(n, w)
         /\ acked'[n] = acked[n] \/ Write(n)
         /\ dropped'[n] = dropped[n] \/ WriteFails(n)
<1>1. CASE \E m \in Mics : Write(m) /\ n # m
  BY <1>1, WriteLeaves
<1>2. CASE \E m \in Mics : WriteFails(m) /\ n # m
  BY <1>2, WriteLeaves
<1>3. CASE \E m \in Mics : \E w \in stray[m] : StrayWrites(m, w) /\ n # m
  <2>1. TypeOK /\ StrayHolds
    BY DEF Inv
  <2>. QED  BY <1>3, <2>1, StrayEffect DEF StrayWrites, history
<1>4. CASE \A m \in Mics : /\ Write(m) \/ WriteFails(m) => m = n
                          /\ \A w \in stray[m] : StrayWrites(m, w) => m = n
  BY <1>4, Frame
<1>. QED  BY <1>1, <1>2, <1>3, <1>4

\* Nothing is forgotten of what has gone wrong.
LEMMA LateKept ==
  ASSUME [Next]_vars
  PROVE  late \subseteq late'
  BY Frame DEF StrayWrites

-----------------------------------------------------------------------------
\* What a step adds to a recording.

\* A write, a stop and a stray writer append, unless another writer was at the file
\* before the stray one that had created it.
LEMMA Grows ==
  ASSUME Inv, [Next]_vars, NEW n \in Mics
  PROVE  /\ InFile(n) \in Nat /\ InFile(n)' \in Nat /\ InFile(n) <= InFile(n)'
         /\ \/ \A i \in 1 .. InFile(n) : cells'[n][i] = cells[n][i]
            \/ /\ n \in late'
               /\ \E w \in stray[n] : w.created /\ Overtaken(n, w) /\ w \notin stray'[n]
<1>0. InFile(n) \in Nat /\ Unwritten(n) \in Nat /\ TypeOK /\ StrayHolds
  <2>1. TypeOK /\ StrayHolds
    BY DEF Inv
  <2>. QED  BY <2>1, Kept DEF InFile, Unwritten
<1>1. CASE Stop
  <2>1. /\ InFile(n)' = InFile(n) + Unwritten(n)
        /\ \A i \in 1 .. InFile(n) + Unwritten(n) :
             cells'[n][i] = IF i <= InFile(n) THEN cells[n][i] ELSE buffer[n][i - InFile(n)]
    BY <1>1, StopEffect
  <2>. QED  BY <1>0, <2>1
<1>2. CASE Write(n)
  <2>1. /\ InFile(n)' = InFile(n) + Unwritten(n) + 1
        /\ \A i \in 1 .. InFile(n) + Unwritten(n) :
             cells'[n][i] = IF i <= InFile(n) THEN cells[n][i] ELSE buffer[n][i - InFile(n)]
    BY <1>2, WriteEffect
  <2>. QED  BY <1>0, <2>1
<1>3. ASSUME NEW w \in stray[n], StrayWrites(n, w)
      PROVE  /\ InFile(n)' \in Nat /\ InFile(n) <= InFile(n)'
             /\ \/ \A i \in 1 .. InFile(n) : cells'[n][i] = cells[n][i]
                \/ /\ n \in late' /\ w \notin stray'[n]
                   /\ w.created /\ Overtaken(n, w)
  BY <1>0, <1>3, StrayEffect
<1>4. CASE cells'[n] = cells[n]
  BY <1>0, <1>4 DEF InFile
<1>. QED  BY <1>0, <1>1, <1>2, <1>3, <1>4, Changes

\* A stray writer had got no further than the file, which never shrinks.
LEMMA StrayStep == Inv /\ [Next]_vars => StrayHolds'
<1> SUFFICES ASSUME Inv, [Next]_vars, NEW n \in Mics, NEW w \in stray'[n]
             PROVE  w.from <= InFile(n)'
  BY DEF StrayHolds
<1>0. /\ TypeOK /\ StrayHolds
      /\ InFile(n) \in Nat /\ InFile(n)' \in Nat /\ InFile(n) <= InFile(n)'
  BY Grows DEF Inv
<1>1. CASE w \in stray[n]
  <2>1. w.from \in Nat /\ w.from <= InFile(n)
    BY <1>0, <1>1, StrayKept DEF StrayHolds
  <2>. QED  BY <1>0, <2>1
<1>2. CASE w \notin stray[n]
  BY <1>0, <1>2, StrayComes DEF InFile
<1>. QED  BY <1>1, <1>2

\* Positions survive: what is buffered goes behind what is in the file.
LEMMA PositionStep == Inv /\ [Next]_vars => Positions'
<1> DEFINE
  Side(n) == /\ \A i \in 1 .. Unwritten(n) : buffer[n][i].pos = InFile(n) + i - 1
             /\ writer[n] # Closed => writer[n] = InFile(n) + Unwritten(n)
  Placed(w) == \A i \in 1 .. Len(w.chunks) : w.chunks[i].pos = w.from + i - 1
<1> SUFFICES ASSUME Inv, [Next]_vars, NEW n \in Mics, Sound(n)'
             PROVE  Side(n)' /\ \A w \in stray'[n] : Placed(w)
  BY DEF Positions
<1>0. /\ TypeOK /\ StrayHolds /\ WriterHolds
      /\ InFile(n) \in Nat /\ Unwritten(n) \in Nat
      /\ Sound(n) => Side(n) /\ \A w \in stray[n] : Placed(w)
  <2>1. TypeOK /\ StrayHolds /\ WriterHolds /\ Positions
    BY DEF Inv
  <2>2. InFile(n) \in Nat /\ Unwritten(n) \in Nat
    BY <2>1, Kept DEF InFile, Unwritten
  <2>. QED  BY <2>1, <2>2 DEF Positions
<1>1. Sound(n)
  BY LateKept, Changes, FailEffect DEF Sound
<1>2. Side(n)'
  <2>1. CASE Stop \/ StopFails \/ CrashAndRecover
    <3>1. buffer'[n] = <<>> /\ writer'[n] = Closed
      BY <2>1, StopEffect, EndEffect
    <3>2. Unwritten(n)' = 0
      BY <3>1, NoneKept DEF Unwritten
    <3>. QED  BY <3>1, <3>2
  <2>2. CASE OpenWriter(n)
    <3>1. buffer'[n] = <<>> /\ writer'[n] = InFile(n) /\ InFile(n)' = InFile(n)
      BY <2>2, OpenEffect DEF InFile
    <3>2. Unwritten(n)' = 0
      BY <3>1, NoneKept DEF Unwritten
    <3>. QED  BY <1>0, <3>1, <3>2
  <2>3. CASE Write(n)
    <3>1. /\ buffer'[n] = <<>> /\ writer'[n] = writer[n] + 1 /\ writer[n] \in Nat
          /\ InFile(n)' = InFile(n) + Unwritten(n) + 1
      BY <2>3, WriteEffect
    <3>2. Unwritten(n)' = 0
      BY <3>1, NoneKept DEF Unwritten
    <3>. QED  BY <1>0, <1>1, <3>1, <3>2 DEF Closed
  <2>4. CASE WriteFails(n)
    <3>1. /\ InFile(n)' = InFile(n) /\ writer'[n] = writer[n] + 1 /\ writer[n] \in Nat
          /\ Unwritten(n)' = Unwritten(n) + 1
          /\ \A i \in 1 .. Unwritten(n) : buffer'[n][i] = buffer[n][i]
          /\ buffer'[n][Unwritten(n) + 1].pos = writer[n]
      BY <2>4, FailEffect DEF Sound
    <3>2. writer[n] = InFile(n) + Unwritten(n)
      BY <1>0, <1>1, <3>1 DEF Closed
    <3>3. ASSUME NEW i \in 1 .. Unwritten(n)'
          PROVE  buffer'[n][i].pos = InFile(n)' + i - 1
      BY <1>0, <1>1, <3>1, <3>2
    <3>. QED  BY <1>0, <3>1, <3>2, <3>3
  <2>5. CASE \E w \in stray[n] : StrayWrites(n, w)
    <3>1. PICK w \in stray[n] : StrayWrites(n, w)
      BY <2>5
    <3>2. ~Overtaken(n, w)
      BY <1>0, <3>1, StrayEffect DEF Sound
    <3>3. writer[n] = Closed /\ buffer[n] = <<>>
      BY <1>0, <3>2 DEF Overtaken, WriterHolds
    <3>4. writer'[n] = Closed /\ buffer'[n] = <<>>
      BY <3>1, <3>3 DEF StrayWrites, memory, writers
    <3>5. Unwritten(n)' = 0
      BY <3>4, NoneKept DEF Unwritten
    <3>. QED  BY <3>4, <3>5
  <2>6. CASE /\ ~(Stop \/ StopFails \/ CrashAndRecover)
             /\ ~(OpenWriter(n) \/ Write(n) \/ WriteFails(n))
             /\ \A w \in stray[n] : ~StrayWrites(n, w)
    <3>1. cells'[n] = cells[n] /\ buffer'[n] = buffer[n] /\ writer'[n] = writer[n]
      <4>1. CASE \E m \in Mics : OpenWriter(m)
        BY <2>6, <4>1, OpenEffect
      <4>2. CASE \E m \in Mics : Write(m) \/ WriteFails(m)
        BY <2>6, <4>2, WriteLeaves
      <4>3. CASE \E m \in Mics : \E w \in stray[m] : StrayWrites(m, w)
        BY <1>0, <2>6, <4>3, StrayEffect DEF StrayWrites, memory, writers
      <4>4. CASE \A m \in Mics : /\ ~(OpenWriter(m) \/ Write(m) \/ WriteFails(m))
                                /\ \A w \in stray[m] : ~StrayWrites(m, w)
        BY <2>6, <4>4, RestKeeps
      <4>. QED  BY <4>1, <4>2, <4>3, <4>4
    <3>2. InFile(n)' = InFile(n) /\ Unwritten(n)' = Unwritten(n)
      BY <3>1 DEF InFile, Unwritten
    <3>. QED  BY <1>0, <1>1, <3>1, <3>2
  <2>. QED  BY <2>1, <2>2, <2>3, <2>4, <2>5, <2>6
<1>3. ASSUME NEW w \in stray'[n] PROVE Placed(w)
  <2>1. CASE w \in stray[n]
    BY <1>0, <1>1, <2>1
  <2>2. CASE w \notin stray[n]
    <3>1. w.from = InFile(n) /\ w.chunks = buffer[n]
      BY <1>0, <2>2, StrayComes DEF InFile
    <3>. QED  BY <1>0, <1>1, <3>1 DEF Unwritten
  <2>. QED  BY <2>1, <2>2
<1>. QED  BY <1>2, <1>3

LEMMA AlignedStep == Inv /\ [Next]_vars => Aligned'
<1> SUFFICES ASSUME Inv, [Next]_vars, NEW n \in Mics, Sound(n)',
                    NEW i \in 1 .. InFile(n)'
             PROVE  cells'[n][i].pos = i - 1
  BY DEF Aligned, InFile, Sound
<1>0. /\ TypeOK /\ StrayHolds /\ InFile(n) \in Nat /\ Unwritten(n) \in Nat
  <2>1. TypeOK /\ StrayHolds
    BY DEF Inv
  <2>. QED  BY <2>1, Kept DEF InFile, Unwritten
<1>1. /\ \A j \in 1 .. InFile(n) : cells[n][j].pos = j - 1
      /\ \A j \in 1 .. Unwritten(n) : buffer[n][j].pos = InFile(n) + j - 1
      /\ writer[n] # Closed => writer[n] = InFile(n) + Unwritten(n)
      /\ \A w \in stray[n] : \A j \in 1 .. Len(w.chunks) : w.chunks[j].pos = w.from + j - 1
  <2>1. Sound(n)
    BY LateKept, Changes, FailEffect DEF Sound
  <2>2. Positions /\ Aligned
    BY DEF Inv
  <2>. QED  BY <2>1, <2>2 DEF Positions, Aligned, InFile, Sound
<1>2. ASSUME \A j \in 1 .. InFile(n) + Unwritten(n) :
               cells'[n][j] = IF j <= InFile(n) THEN cells[n][j]
                              ELSE buffer[n][j - InFile(n)]
      PROVE  \A j \in 1 .. InFile(n) + Unwritten(n) : cells'[n][j].pos = j - 1
  <2> SUFFICES ASSUME NEW j \in 1 .. InFile(n) + Unwritten(n)
               PROVE  cells'[n][j].pos = j - 1
    OBVIOUS
  <2>1. CASE j <= InFile(n)
    BY <1>0, <1>1, <1>2, <2>1
  <2>2. CASE j > InFile(n)
    <3>1. j - InFile(n) \in 1 .. Unwritten(n) /\ cells'[n][j] = buffer[n][j - InFile(n)]
      BY <1>0, <1>2, <2>2
    <3>. QED  BY <1>0, <1>1, <3>1
  <2>. QED  BY <1>0, <2>1, <2>2
<1>3. CASE Stop
  <2>1. /\ InFile(n)' = InFile(n) + Unwritten(n)
        /\ \A j \in 1 .. InFile(n) + Unwritten(n) :
             cells'[n][j] = IF j <= InFile(n) THEN cells[n][j]
                            ELSE buffer[n][j - InFile(n)]
    BY <1>3, StopEffect
  <2>. QED  BY <1>2, <2>1
<1>4. CASE Write(n)
  <2>1. /\ InFile(n)' = InFile(n) + Unwritten(n) + 1
        /\ \A j \in 1 .. InFile(n) + Unwritten(n) :
             cells'[n][j] = IF j <= InFile(n) THEN cells[n][j]
                            ELSE buffer[n][j - InFile(n)]
        /\ cells'[n][InFile(n) + Unwritten(n) + 1].pos = writer[n]
        /\ writer[n] \in Nat
    BY <1>4, WriteEffect
  <2>2. writer[n] = InFile(n) + Unwritten(n)
    BY <1>1, <2>1 DEF Closed
  <2>3. CASE i = InFile(n) + Unwritten(n) + 1
    BY <1>0, <2>1, <2>2, <2>3
  <2>4. CASE i \in 1 .. InFile(n) + Unwritten(n)
    BY <1>2, <2>1, <2>4
  <2>5. i = InFile(n) + Unwritten(n) + 1 \/ i \in 1 .. InFile(n) + Unwritten(n)
    BY <1>0, <2>1
  <2>. QED  BY <2>3, <2>4, <2>5
<1>5. CASE \E w \in stray[n] : StrayWrites(n, w)
  <2>1. PICK w \in stray[n] : StrayWrites(n, w)
    BY <1>5
  <2>2. ~Overtaken(n, w)
    BY <1>0, <2>1, StrayEffect DEF Sound
  <2>3. w.from = InFile(n)
    BY <2>2 DEF Overtaken, InFile
  <2>4. /\ InFile(n)' = InFile(n) + Len(w.chunks) /\ Len(w.chunks) \in Nat
        /\ \A j \in 1 .. InFile(n) : cells'[n][j] = cells[n][j]
        /\ \A j \in 1 .. Len(w.chunks) : cells'[n][InFile(n) + j] = w.chunks[j]
    BY <1>0, <2>1, <2>2, StrayEffect, StrayKept
  <2>5. CASE i \in 1 .. InFile(n)
    BY <1>1, <2>4, <2>5
  <2>6. CASE i > InFile(n)
    <3>1. i - InFile(n) \in 1 .. Len(w.chunks) /\ i = InFile(n) + (i - InFile(n))
      BY <1>0, <2>4, <2>6
    <3>2. cells'[n][i] = w.chunks[i - InFile(n)]
      BY <2>4, <3>1
    <3>. QED  BY <1>0, <1>1, <2>3, <3>1, <3>2
  <2>. QED  BY <1>0, <2>5, <2>6
<1>6. CASE cells'[n] = cells[n]
  <2>1. InFile(n)' = InFile(n)
    BY <1>6 DEF InFile
  <2>. QED  BY <1>0, <1>1, <1>6, <2>1
<1>. QED  BY <1>3, <1>4, <1>5, <1>6, Changes

\* What feed answered for stays answered for.
LEMMA DurableStep == Inv /\ [Next]_vars => AckedIsDurable'
<1> SUFFICES ASSUME Inv, [Next]_vars, NEW n \in Mics \ late', NEW k \in acked'[n]
             PROVE  \E i \in 1 .. InFile(n)' : cells'[n][i].chunk = k
  BY DEF AckedIsDurable, CellsOf, InFile
<1>1. \A a \in acked[n] : \E i \in 1 .. InFile(n) : cells[n][i].chunk = a
  BY LateKept DEF Inv, AckedIsDurable, CellsOf, InFile
<1>2. CASE k \in acked[n]
  <2>1. PICK i \in 1 .. InFile(n) : cells[n][i].chunk = k
    BY <1>1, <1>2
  <2>2. i \in 1 .. InFile(n)' /\ cells'[n][i] = cells[n][i]
    BY Grows
  <2>. QED  BY <2>1, <2>2
<1>3. CASE k \notin acked[n]
  <2>1. Write(n)
    BY <1>3, Changes
  <2>2. /\ InFile(n)' = InFile(n) + Unwritten(n) + 1 /\ k = sent[n]
        /\ cells'[n][InFile(n) + Unwritten(n) + 1].chunk = sent[n]
    BY <1>3, <2>1, WriteEffect
  <2>3. InFile(n) \in Nat /\ Unwritten(n) \in Nat
    <3>1. TypeOK
      BY DEF Inv
    <3>. QED  BY <3>1, Kept DEF InFile, Unwritten
  <2>4. InFile(n) + Unwritten(n) + 1 \in 1 .. InFile(n)'
    BY <2>2, <2>3
  <2>5. cells'[n][InFile(n) + Unwritten(n) + 1].chunk = k
    BY <2>2
  <2>. QED  BY <2>4, <2>5
<1>. QED  BY <1>2, <1>3

-----------------------------------------------------------------------------
\* The names of a recording.

LEMMA UsedStep ==
  ASSUME Inv, [Next]_vars, NEW n \in Mics, NEW naming \in {{"link"}, {"link", "default"}},
         Used(n, naming)', ~Used(n, naming)
  PROVE  (LinkMic(n) /\ naming = {"link"}) \/ LinkMeeting(n)
<1>0. TypeOK /\ FeedHolds /\ WriterHolds /\ StrayHolds /\ n # NoMic
  BY DEF Inv, Mics, NoMic
<1>1. ~Stop
  <2> SUFFICES ASSUME Stop PROVE FALSE
    OBVIOUS
  <2>1. /\ cells'[n] = Flushed(n) /\ writer'[n] = Closed /\ feeding.mic = NoMic
        /\ stray' = stray
    BY StopEffect
  <2>2. cells[n] = <<>> /\ writer[n] = Closed
    BY <1>0, <2>1 DEF Used
  <2>3. cells'[n] = <<>>
    BY <1>0, <2>1, <2>2 DEF Flushed, WriterHolds
  <2>. QED  BY <2>1, <2>3 DEF Used
<1>2. ~(StopFails \/ CrashAndRecover)
  <2> SUFFICES ASSUME StopFails \/ CrashAndRecover PROVE FALSE
    OBVIOUS
  <2>1. cells' = cells /\ writer'[n] = Closed
    BY EndEffect
  <2>2. stray'[n] # {}
    BY <2>1 DEF Used
  <2>3. StopFails /\ n \in Dirty /\ LoopFree
    BY <2>2 DEF StopFails, CrashAndRecover, Used
  <2>. QED  BY <1>0, <2>3 DEF Used, Dirty, WriterHolds, LoopFree, Idle
<1>3. ASSUME NEW m \in Mics, OpenWriter(m) PROVE FALSE
  <2>1. /\ cells' = cells /\ stray' = stray /\ feeding.mic = m /\ feeding'.mic = m /\ feeding'.at = "link"
        /\ n # m => writer'[n] = writer[n]
    BY <1>3, OpenEffect
  <2>. QED  BY <2>1 DEF Used
<1>4. ASSUME NEW m \in Mics, Write(m) PROVE FALSE
  <2>1. feeding.at = "write" /\ feeding.mic = m /\ feeding'.mic = NoMic /\ stray' = stray
    BY <1>4, WriteLeaves
  <2>2. n # m => cells'[n] = cells[n] /\ writer'[n] = writer[n]
    BY <1>4, WriteLeaves
  <2>. QED  BY <1>0, <2>1, <2>2 DEF Used, FeedHolds
<1>5. ASSUME NEW m \in Mics, WriteFails(m) PROVE FALSE
  <2>1. /\ feeding.at = "write" /\ feeding.mic = m /\ feeding'.mic = NoMic
        /\ n # m => writer'[n] = writer[n]
        /\ cells' = cells /\ stray' = stray
    BY <1>5, FailEffect, WriteLeaves
  <2>. QED  BY <1>0, <2>1 DEF Used, FeedHolds
<1>6. UNCHANGED <<cells, writer, feeding>> \/ UNCHANGED <<cells, writer, stray>>
  <2>1. ASSUME NEW m \in Mics, NEW w \in stray[m], StrayWrites(m, w) PROVE FALSE
    <3>1. UNCHANGED <<writer, feeding>>
      BY <2>1 DEF StrayWrites, memory, writers
    <3>2. n # m => cells'[n] = cells[n] /\ stray'[n] = stray[n]
      BY <1>0, <2>1, StrayEffect
    <3>. QED  BY <2>1, <3>1, <3>2 DEF Used
  <2>2. UNCHANGED <<cells, writer>>
    BY <1>1, <1>2, <1>3, <1>4, <1>5, <2>1, RestKeeps
  <2>3. ASSUME NEW m \in Mics, NEW w \in stray[m], StrayLost(m, w) PROVE feeding' = feeding
    BY <2>3 DEF StrayLost, memory
  <2>. QED  BY <1>1, <1>2, <1>3, <1>4, <1>5, <2>1, <2>2, <2>3, RestKeeps
<1>7. feeding.mic = n /\ feeding.at \in naming
      /\ ~(feeding'.mic = n /\ feeding'.at \in naming)
  <2>1. stray'[n] # {} => stray[n] # {}
    <3>1. ASSUME NEW m \in Mics, NEW w \in stray[m], StrayWrites(m, w) \/ StrayLost(m, w)
          PROVE  stray'[n] \subseteq stray[n]
      BY <1>0, <3>1, StrayGoes
    <3>. QED  BY <1>2, <3>1, Frame
  <2>. QED  BY <1>6, <2>1 DEF Used
<1>8. \E m \in Mics : Receive(m) \/ OpenFails(m) \/ LinkMic(m) \/ LinkMeeting(m)
  BY <1>1, <1>2, <1>3, <1>4, <1>5, <1>7, Frame
<1>. QED  BY <1>0, <1>7, <1>8 DEF Receive, OpenFails, LinkMic, LinkMeeting, LoopFree, Idle

LEMMA NamedStep == Inv /\ [Next]_vars => Named'
<1> SUFFICES ASSUME Inv, [Next]_vars, NEW n \in Mics
             PROVE  /\ Used(n, {"link"})' => (row'[n] = "present" => linked'[n])
                    /\ Used(n, {"link", "default"})' => playback' # NoMic
  BY DEF Named
<1>0. TypeOK /\ WriterHolds /\ Named
  BY DEF Inv
<1>1. ASSUME Used(n, {"link"})', row'[n] = "present" PROVE linked'[n]
  <2>1. CASE LinkMic(n)
    BY <1>0, <1>1, <2>1 DEF LinkMic, TypeOK
  <2>2. CASE LinkMeeting(n)
    <3>1. feeding.mic = n /\ feeding.at = "default" /\ UNCHANGED <<cells, writer, stray, row, linked>>
      BY <2>2 DEF LinkMeeting, disk, writers, leaks
    <3>2. Used(n, {"link"})
      BY <1>1, <3>1 DEF Used
    <3>. QED  BY <1>0, <1>1, <3>1, <3>2 DEF Named
  <2>3. CASE Used(n, {"link"}) /\ ~LinkMic(n)
    <3>1. row[n] # "unborn"
      BY <1>0, <2>3 DEF Used, WriterHolds
    <3>2. row[n] = "present"
      <4>1. row' = row \/ Start \/ \E m \in Mics : AddMic(m) \/ RemoveRow(m)
        BY Frame
      <4>. QED  BY <1>0, <1>1, <3>1, <4>1 DEF Start, AddMic, RemoveRow, IsNextMic, TypeOK
    <3>3. linked[n]
      BY <1>0, <2>3, <3>2 DEF Named
    <3>4. linked' = linked \/ \E m \in Mics : LinkMic(m)
      BY Frame
    <3>. QED  BY <1>0, <2>3, <3>3, <3>4 DEF LinkMic, TypeOK
  <2>. QED  BY <1>1, <2>1, <2>2, <2>3, UsedStep
<1>2. ASSUME Used(n, {"link", "default"})' PROVE playback' # NoMic
  <2>1. CASE LinkMeeting(n)
    BY <2>1 DEF LinkMeeting, Mics, NoMic
  <2>2. CASE Used(n, {"link", "default"})
    <3>1. playback # NoMic
      BY <1>0, <2>2 DEF Named
    <3>2. playback' = playback \/ \E m \in Mics : LinkMeeting(m)
      BY Frame
    <3>. QED  BY <3>1, <3>2 DEF LinkMeeting
  <2>3. {"link"} # {"link", "default"}
    OBVIOUS
  <2>. QED  BY <1>2, <2>1, <2>2, <2>3, UsedStep
<1>. QED  BY <1>1, <1>2

-----------------------------------------------------------------------------
\* The invariant.

LEMMA InitInv == Init => Inv
<1> SUFFICES ASSUME Init PROVE Inv
  OBVIOUS
<1> USE DEF Init, Idle, NoMic, Closed
<1>1. TypeOK
  <2>1. <<>> \in Seq(CellType)
    BY EmptySeq
  <2>2. cells \in [Mics -> Seq(CellType)] /\ buffer \in [Mics -> Seq(CellType)]
    BY <2>1
  <2>3. /\ sent \in [Mics -> 0 .. MaxChunks]
        /\ fulls \in 0 .. MaxFull /\ crashes \in 0 .. MaxCrashes
    OBVIOUS
  <2>4. acked \in [Mics -> SUBSET (1 .. MaxChunks)] /\ writer \in [Mics -> {Closed} \cup Nat]
    OBVIOUS
  <2>5. feeding \in [at : {"idle", "open", "link", "default", "write"},
                     mic : Mics \cup {NoMic}]
    OBVIOUS
  <2>6. /\ fresh \in [Mics -> BOOLEAN] /\ dropped \in [Mics -> BOOLEAN]
        /\ stray \in [Mics -> SUBSET Strays] /\ late \subseteq Mics
    OBVIOUS
  <2>. QED  BY <2>2, <2>3, <2>4, <2>5, <2>6 DEF TypeOK
<1>2. FeedHolds /\ WriterHolds
  BY DEF FeedHolds, WriterHolds, Mics
<1>3. \A m \in Mics : InFile(m) = 0 /\ Unwritten(m) = 0
  BY NoneKept DEF InFile, Unwritten
<1>4. StrayHolds /\ Positions
  BY <1>3 DEF StrayHolds, Positions, Mics
<1>5. Named /\ AudioIsFindable
  BY DEF Named, Used, AudioIsFindable
<1>6. AckedIsDurable
  BY DEF AckedIsDurable
<1>7. Aligned
  BY <1>3 DEF Aligned, InFile
<1>. QED  BY <1>1, <1>2, <1>4, <1>5, <1>6, <1>7 DEF Inv

LEMMA NextInv == Inv /\ [Next]_vars => Inv'
<1> SUFFICES ASSUME Inv, [Next]_vars PROVE Inv'
  OBVIOUS
<1>1. TypeOK' /\ FeedHolds' /\ WriterHolds' /\ StrayHolds' /\ Positions' /\ Named'
  BY TypeStep, FeedStep, WriterStep, StrayStep, PositionStep, NamedStep
<1>2. AckedIsDurable' /\ Aligned'
  BY DurableStep, AlignedStep
<1>3. AudioIsFindable'
  BY <1>1 DEF WriterHolds, Named, Used, AudioIsFindable
<1>. QED  BY <1>1, <1>2, <1>3 DEF Inv

THEOREM Invariant == Spec => []Inv
  BY InitInv, NextInv, PTL DEF Spec

-----------------------------------------------------------------------------
\* Theorems.

\* Every variable keeps its type.
THEOREM TypeCorrect == Spec => []TypeOK
  BY Invariant, PTL DEF Inv

\* D2, for any buffer, number of mics, full disks and crashes: a chunk feed took
\* without an error is in its recording from then on, unless a stray writer, after
\* another had been at the file, has written to it.
THEOREM AcknowledgedAudioIsKept == Spec => []AckedIsDurable
  BY Invariant, PTL DEF Inv

\* Each chunk of a recording is encrypted at its own offset, whatever sessions
\* resumed it and whatever writers a raising stop left open, as long as no chunk was
\* dropped and no stray writer came after another had been at the file.
THEOREM RecordingsAlign == Spec => []Aligned
  BY Invariant, PTL DEF Inv

\* As long as a mic is registered, its row names what it has recorded; and a meeting
\* with a recording, of a registered mic or not, has a default file to play.
THEOREM RecordingsAreFound == Spec => []AudioIsFindable
  BY Invariant, PTL DEF Inv

\* Recordings only grow, but for a stray writer that had created the file and comes
\* after another has been at it.
THEOREM RecordingsGrow == Spec => AppendOnly
<1> DEFINE Longer(m) == /\ Len(cells[m]) <= Len(cells'[m])
                        /\ SubSeq(cells'[m], 1, Len(cells[m])) = cells[m]
           Wrote(m)  == \E w \in stray[m] : w.created /\ Overtaken(m, w) /\ w \notin stray'[m]
<1>1. ASSUME Inv, [Next]_vars, NEW m \in Mics
      PROVE  Longer(m) \/ Wrote(m)
  <2> DEFINE old == cells[m]  new == cells'[m]
  <2>1. TypeOK /\ TypeOK'
    BY <1>1, TypeStep DEF Inv
  <2>2. old \in Seq(CellType) /\ new \in Seq(CellType)
    BY <2>1 DEF TypeOK
  <2>3. Len(old) <= Len(new) /\ ((\A i \in 1 .. Len(old) : new[i] = old[i]) \/ Wrote(m))
    BY <1>1, Grows DEF InFile
  <2> HIDE DEF old, new, Wrote
  <2>4. Len(old) \in Nat /\ Len(new) \in Nat
    BY <2>2, LenProperties
  <2>5. /\ SubSeq(new, 1, Len(old)) \in Seq(CellType)
        /\ Len(SubSeq(new, 1, Len(old))) = Len(old)
        /\ \A i \in 1 .. Len(old) : SubSeq(new, 1, Len(old))[i] = new[i]
    BY <2>2, <2>3, <2>4, SubSeqProperties
  <2>6. SubSeq(new, 1, Len(old)) = old \/ Wrote(m)
    BY <2>2, <2>3, <2>5, SeqEqual
  <2>. QED  BY <2>3, <2>6 DEF old, new
<1>2. Inv /\ [Next]_vars =>
        [\A m \in Mics :
           \/ /\ Len(cells[m]) <= Len(cells'[m])
              /\ SubSeq(cells'[m], 1, Len(cells[m])) = cells[m]
           \/ \E w \in stray[m] : w.created /\ Overtaken(m, w) /\ w \notin stray'[m]]_vars
  BY <1>1
<1>. QED  BY <1>2, Invariant, PTL DEF Spec, AppendOnly
=============================================================================
