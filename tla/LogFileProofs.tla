---------------------------- MODULE LogFileProofs ----------------------------
(* Theorems about LogFile, for any threads, paths, days and numbers of lines:  *)
(* the operators on the files of the disk first, and then the logger.          *)
EXTENDS LogFile, FoldLemmas, FiniteSetTheorems
-----------------------------------------------------------------------------
(* Files of the disk. A file system fs, a buffer b, a set l of lost lines and  *)
(* the number n of lines that were written are what Conserved is about.        *)

Typed(fs) == /\ DOMAIN fs \in SUBSET Names
             /\ \A f \in DOMAIN fs : fs[f] \in SUBSET Lines

\* No line is in two places.
Apart(fs, b, l) ==
  /\ \A f, g \in DOMAIN fs : f # g => Ids(fs[f]) \cap Ids(fs[g]) = {}
  /\ \A f \in DOMAIN fs : Ids(fs[f]) \cap Ids(b \cup l) = {}
  /\ Ids(b) \cap Ids(l) = {}

\* Every line is in one, and no place has a line that was not written.
Complete(fs, b, l, n) ==
  /\ \A i \in 1 .. n : \/ \E f \in DOMAIN fs : i \in Ids(fs[f])
                       \/ i \in Ids(b) \/ i \in Ids(l)
  /\ \A f \in DOMAIN fs : Ids(fs[f]) \subseteq 1 .. n
  /\ Ids(b) \subseteq 1 .. n /\ Ids(l) \subseteq 1 .. n

Sound(fs, b, l, n) == Apart(fs, b, l) /\ Complete(fs, b, l, n)

LEMMA IdsOfUnion ==
  ASSUME NEW a, NEW b PROVE Ids(a \cup b) = Ids(a) \cup Ids(b)
BY DEF Ids

LEMMA IdsOfNone == Ids({}) = {}
BY DEF Ids

LEMMA IdsOfOne == ASSUME NEW x PROVE Ids({x}) = {x.id}
BY DEF Ids

\* Closing the stream: the buffer goes to the file that has it.
CloseFile(fs, b, f) == [g \in DOMAIN fs |-> IF g = f THEN fs[g] \cup b ELSE fs[g]]

LEMMA CloseSound ==
  ASSUME NEW fs, NEW b, NEW l, NEW n \in Nat, NEW f \in DOMAIN fs,
         Sound(fs, b, l, n)
  PROVE  Sound(CloseFile(fs, b, f), {}, l, n)
<1> DEFINE gs == CloseFile(fs, b, f)
<1>1. DOMAIN gs = DOMAIN fs
  BY DEF CloseFile
<1>2. \A g \in DOMAIN fs : gs[g] = IF g = f THEN fs[g] \cup b ELSE fs[g]
  BY DEF CloseFile
<1>3. Ids(gs[f]) = Ids(fs[f]) \cup Ids(b)
  BY <1>2, IdsOfUnion
<1>4. \A g \in DOMAIN fs : g # f => Ids(gs[g]) = Ids(fs[g])
  BY <1>2
<1>5. \A g \in DOMAIN fs : Ids(fs[g]) \cap Ids(b) = {} /\ Ids(fs[g]) \cap Ids(l) = {}
  BY IdsOfUnion DEF Sound, Apart
<1> HIDE DEF gs
<1>6. Apart(gs, {}, l)
  <2>1. ASSUME NEW g \in DOMAIN gs, NEW h \in DOMAIN gs, g # h
        PROVE  Ids(gs[g]) \cap Ids(gs[h]) = {}
    <3>1. Ids(fs[g]) \cap Ids(fs[h]) = {}
      BY <1>1, <2>1 DEF Sound, Apart
    <3> QED
      BY <1>1, <1>3, <1>4, <1>5, <2>1, <3>1
  <2>2. ASSUME NEW g \in DOMAIN gs
        PROVE  Ids(gs[g]) \cap Ids(l) = {}
    BY <1>1, <1>3, <1>4, <1>5, <2>2 DEF Sound, Apart
  <2>3. {} \cup l = l
    OBVIOUS
  <2> QED
    BY <2>1, <2>2, <2>3, IdsOfNone DEF Apart
<1>7. Complete(gs, {}, l, n)
  <2>1. ASSUME NEW i \in 1 .. n
        PROVE  (\E g \in DOMAIN gs : i \in Ids(gs[g])) \/ i \in Ids(l)
    BY <1>1, <1>3, <1>4 DEF Sound, Complete
  <2>2. ASSUME NEW g \in DOMAIN gs
        PROVE  Ids(gs[g]) \subseteq 1 .. n
    BY <1>1, <1>3, <1>4 DEF Sound, Complete
  <2> QED
    BY <2>1, <2>2, IdsOfNone DEF Sound, Complete
<1> QED
  BY <1>6, <1>7 DEF gs, Sound

LEMMA RenameSound ==
  ASSUME NEW fs, NEW b, NEW l, NEW n \in Nat,
         NEW from \in DOMAIN fs, NEW to, to \notin DOMAIN fs,
         Sound(fs, b, l, n)
  PROVE  Sound(Rename(fs, from, to), b, l, n)
<1> DEFINE gs == Rename(fs, from, to)
<1>1. DOMAIN gs = (DOMAIN fs \ {from}) \cup {to}
  BY DEF Rename
<1>2. gs[to] = fs[from] /\ \A g \in DOMAIN gs : g # to => gs[g] = fs[g]
  BY <1>1 DEF Rename
<1> HIDE DEF gs
<1>3. Apart(gs, b, l)
  <2>1. ASSUME NEW g \in DOMAIN gs, NEW h \in DOMAIN gs, g # h
        PROVE  Ids(gs[g]) \cap Ids(gs[h]) = {}
    BY <1>1, <1>2, <2>1 DEF Sound, Apart
  <2>2. ASSUME NEW g \in DOMAIN gs
        PROVE  Ids(gs[g]) \cap Ids(b \cup l) = {}
    BY <1>1, <1>2, <2>2 DEF Sound, Apart
  <2> QED
    BY <2>1, <2>2 DEF Sound, Apart
<1>4. Complete(gs, b, l, n)
  <2>1. ASSUME NEW f \in DOMAIN fs, NEW i, i \in Ids(fs[f])
        PROVE  \E g \in DOMAIN gs : i \in Ids(gs[g])
    <3>1. CASE f = from
      BY <1>1, <1>2, <2>1, <3>1
    <3>2. CASE f # from
      BY <1>1, <1>2, <2>1, <3>2
    <3> QED
      BY <3>1, <3>2
  <2>2. ASSUME NEW g \in DOMAIN gs
        PROVE  Ids(gs[g]) \subseteq 1 .. n
    BY <1>1, <1>2 DEF Sound, Complete
  <2> QED
    BY <2>1, <2>2 DEF Sound, Complete
<1> QED
  BY <1>3, <1>4 DEF gs, Sound

LEMMA OpenSound ==
  ASSUME NEW fs, NEW b, NEW l, NEW n \in Nat, NEW p, Sound(fs, b, l, n)
  PROVE  Sound(OpenFile(fs, p), b, l, n)
<1> DEFINE gs == OpenFile(fs, p)
<1>1. DOMAIN gs = DOMAIN fs \cup {Live(p)}
  BY DEF OpenFile
<1>2. \A g \in DOMAIN gs : gs[g] = IF g \in DOMAIN fs THEN fs[g] ELSE {}
  BY DEF OpenFile
<1> HIDE DEF gs
<1>3. \A g \in DOMAIN gs : Ids(gs[g]) = IF g \in DOMAIN fs THEN Ids(fs[g]) ELSE {}
  BY <1>2, IdsOfNone
<1>4. Apart(gs, b, l)
  BY <1>1, <1>3 DEF Sound, Apart
<1>5. Complete(gs, b, l, n)
  BY <1>1, <1>3 DEF Sound, Complete
<1> QED
  BY <1>4, <1>5 DEF gs, Sound

LEMMA LoseSound ==
  ASSUME NEW fs, NEW b, NEW l, NEW n \in Nat, Sound(fs, b, l, n)
  PROVE  Sound(fs, {}, l \cup b, n)
<1>1. {} \cup (l \cup b) = b \cup l /\ Ids(l \cup b) = Ids(l) \cup Ids(b)
  BY IdsOfUnion
<1> QED
  BY <1>1, IdsOfNone DEF Sound, Apart, Complete

LEMMA AddSound ==
  ASSUME NEW fs, NEW b, NEW l, NEW n \in Nat, NEW x, x.id = n + 1,
         Sound(fs, b, l, n)
  PROVE  Sound(fs, b \cup {x}, l, n + 1)
<1>1. Ids(b \cup {x}) = Ids(b) \cup {n + 1}
  <2>1. Ids({x}) = {n + 1}
    BY IdsOfOne
  <2> QED
    BY <2>1, IdsOfUnion
<1>2. Ids((b \cup {x}) \cup l) = Ids(b \cup l) \cup {n + 1}
  BY <1>1, IdsOfUnion
<1>3. n + 1 \notin 1 .. n /\ 1 .. n + 1 = 1 .. n \cup {n + 1}
  OBVIOUS
<1>4. \A f \in DOMAIN fs : n + 1 \notin Ids(fs[f])
  BY <1>3 DEF Sound, Complete
<1>5. n + 1 \notin Ids(l)
  BY <1>3 DEF Sound, Complete
<1>6. Apart(fs, b \cup {x}, l)
  BY <1>1, <1>2, <1>4, <1>5 DEF Sound, Apart
<1>7. Complete(fs, b \cup {x}, l, n + 1)
  BY <1>1, <1>3 DEF Sound, Complete
<1> QED
  BY <1>6, <1>7 DEF Sound

LEMMA SoundIsConserved == TypeOK => (Conserved <=> Sound(files, buffer, lost, written))
<1> SUFFICES ASSUME TypeOK
             PROVE  Conserved <=> Sound(files, buffer, lost, written)
  OBVIOUS
<1>1. Ids(buffer \cup lost) = Ids(buffer) \cup Ids(lost)
  BY IdsOfUnion
<1> DEFINE Held == UNION {Ids(files[f]) : f \in DOMAIN files}
<1>2. \A i : i \in Held <=> \E f \in DOMAIN files : i \in Ids(files[f])
  OBVIOUS
<1>3. Held \cup Ids(buffer \cup lost) = 1 .. written
        <=> Complete(files, buffer, lost, written)
  <2> HIDE DEF Held
  <2>1. ASSUME Held \cup Ids(buffer \cup lost) = 1 .. written
        PROVE  Complete(files, buffer, lost, written)
    BY <1>1, <1>2, <2>1 DEF Complete
  <2>2. ASSUME Complete(files, buffer, lost, written)
        PROVE  Held \cup Ids(buffer \cup lost) = 1 .. written
    BY <1>1, <1>2, <2>2 DEF Complete
  <2> QED
    BY <2>1, <2>2
<1> QED
  BY <1>3 DEF Conserved, Sound, Apart
-----------------------------------------------------------------------------
(* The inductive invariant: a logger that has a path has its file on the disk, *)
(* and a stream that is closed has nothing in its buffer.                      *)

OpenInv == /\ path_ # NoPath => Live(path_) \in DOMAIN files
           /\ path_ = NoPath => ofs_ = "closed"
           /\ ofs_ = "closed" => buffer = {}

Places == Sound(files, buffer, lost, written)

Inv == TypeOK /\ OpenInv /\ Places

LEMMA NamesOfFiles ==
  /\ \A p \in Paths : Live(p) \in Names
  /\ \A p \in Paths, d \in 0 .. MaxDay, n \in Tried : Backup(p, d, n) \in Names
BY LogFileAssumption DEF Live, Backup, Names, Tried

LEMMA ClosedFacts ==
  ASSUME Inv
  PROVE  /\ DOMAIN Closed = DOMAIN files
         /\ Typed(Closed)
         /\ Sound(Closed, {}, lost, written)
<1>1. DOMAIN Closed = DOMAIN files
  BY DEF Closed
<1>2. Typed(Closed)
  BY DEF Inv, TypeOK, Typed, Closed
<1>3. CASE path_ = NoPath
  <2>1. buffer = {} /\ \A f \in DOMAIN files : Closed[f] = files[f]
    BY <1>3 DEF Inv, OpenInv, Closed
  <2> HIDE DEF Closed
  <2> QED
    BY <1>1, <1>2, <2>1 DEF Inv, Places, Sound, Apart, Complete
<1>4. CASE path_ # NoPath
  <2>1. Closed = CloseFile(files, buffer, Live(path_))
    BY <1>4 DEF Closed, CloseFile
  <2>2. Live(path_) \in DOMAIN files /\ written \in Nat
    BY <1>4 DEF Inv, TypeOK, OpenInv
  <2> QED
    BY <1>1, <1>2, <2>1, <2>2, CloseSound DEF Inv, Places
<1> QED
  BY <1>1, <1>2, <1>3, <1>4

(* get_previous_path_() gives the name of no file that is there.               *)
LEMMA PreviousPathIsFree ==
  ASSUME TypeOK, path_ # NoPath, Free # {}
  PROVE  /\ PreviousPath \in Names
         /\ PreviousPath \notin DOMAIN files
         /\ PreviousPath.day = daily_
<1>1. Free \in SUBSET Nat
  BY LogFileAssumption DEF Free, Tried
<1>2. \E n \in Free : \A m \in Free : n <= m
  BY <1>1, Smallest
<1>3. PICK n \in Free : PreviousPath = Backup(path_, daily_, n)
  BY <1>2 DEF PreviousPath
<1>4. n \in Tried /\ Backup(path_, daily_, n) \notin DOMAIN files
  BY <1>3 DEF Free
<1> QED
  BY <1>3, <1>4, NamesOfFiles DEF TypeOK, Backup

LEMMA SetAsideFacts ==
  ASSUME Inv, NEW lt, NeedsRotation(lt), Free # {}
  PROVE  /\ DOMAIN SetAside = (DOMAIN files \ {Live(path_)}) \cup {PreviousPath}
         /\ Typed(SetAside)
         /\ Sound(SetAside, {}, lost, written)
<1>1. path_ # NoPath /\ Live(path_) \in DOMAIN files /\ written \in Nat
  BY DEF NeedsRotation, Inv, TypeOK
<1>2. PreviousPath \in Names /\ PreviousPath \notin DOMAIN files
  BY <1>1, PreviousPathIsFree DEF Inv
<1>3. DOMAIN SetAside = (DOMAIN files \ {Live(path_)}) \cup {PreviousPath}
  BY ClosedFacts DEF SetAside, Rename
<1>4. \A f \in DOMAIN SetAside : SetAside[f] = IF f = PreviousPath THEN Closed[Live(path_)]
                                                                  ELSE Closed[f]
  BY <1>3, ClosedFacts DEF SetAside, Rename
<1>5. Typed(SetAside)
  BY <1>1, <1>2, <1>3, <1>4, ClosedFacts DEF Typed
<1>6. Sound(SetAside, {}, lost, written)
  BY <1>1, <1>2, ClosedFacts, RenameSound DEF SetAside
<1> QED
  BY <1>3, <1>5, <1>6

LEMMA OpenFacts ==
  ASSUME NEW fs, Typed(fs), NEW p \in Paths
  PROVE  Typed(OpenFile(fs, p)) /\ DOMAIN OpenFile(fs, p) = DOMAIN fs \cup {Live(p)}
<1>1. DOMAIN OpenFile(fs, p) = DOMAIN fs \cup {Live(p)}
  BY DEF OpenFile
<1> QED
  BY <1>1, NamesOfFiles DEF Typed, OpenFile

\* The files before set_path() opens the new one.
LEMMA RotatedFacts ==
  ASSUME Inv, NeedsRotation(day) => Free # {}
  PROVE  Typed(Rotated) /\ Sound(Rotated, {}, lost, written)
BY ClosedFacts, SetAsideFacts DEF Rotated
-----------------------------------------------------------------------------
(* What the steps keep. A step gives the next file system, and whatever else   *)
(* the types and the invariant need.                                           *)

LEMMA LineFacts ==
  ASSUME TypeOK, NEW t \in Threads
  PROVE  Line(t) \in Lines /\ Line(t).id = written + 1 /\ Line(t).stamp = stamp[t]
BY DEF TypeOK, Line, Lines

LEMMA LogStepInv ==
  ASSUME Inv, NEW t \in Threads, LogStep(t)
  PROVE  Inv'
<1>1. CASE Stamp(t)
  BY <1>1 DEF Stamp, Inv, TypeOK, OpenInv, Places, stream
<1>2. CASE CheckPath(t)
  BY <1>2 DEF CheckPath, Inv, TypeOK, OpenInv, Places, stream
<1>3. CASE Write(t)
  <2>1. TypeOK'
    BY <1>3, LineFacts DEF Write, Finish, Inv, TypeOK, Days
  <2>2. OpenInv'
    BY <1>3 DEF Write, Finish, Inv, OpenInv
  <2>3. Places'
    BY <1>3, LineFacts, AddSound DEF Write, Finish, Inv, TypeOK, Places
  <2> QED
    BY <2>1, <2>2, <2>3 DEF Inv
<1>4. CASE Drop(t)
  BY <1>4 DEF Drop, Finish, Inv, TypeOK, OpenInv, Places, Days
<1>5. CASE Rotate(t)
  <2>1. /\ Typed(SetAside) /\ Sound(SetAside, {}, lost, written)
        /\ path_ \in Paths /\ written \in Nat
    BY <1>5, SetAsideFacts DEF Rotate, NeedsRotation, Inv, TypeOK
  <2>2. Typed(files') /\ Live(path_) \in DOMAIN files'
    BY <1>5, <2>1, OpenFacts DEF Rotate
  <2>3. Sound(files', {}, lost, written)
    BY <1>5, <2>1, OpenSound DEF Rotate
  <2>4. Sound(files', {} \cup {Line(t)}, lost, written + 1)
    BY <2>1, <2>3, LineFacts, AddSound DEF Inv
  <2>5. {} \cup {Line(t)} = buffer'
    BY <1>5 DEF Rotate
  <2>6. TypeOK'
    BY <1>5, <2>2, LineFacts DEF Rotate, Finish, Inv, TypeOK, Typed, Days
  <2>7. OpenInv'
    BY <1>5, <2>1, <2>2, LogFileAssumption DEF Rotate, OpenInv
  <2>8. Places'
    BY <1>5, <2>4, <2>5 DEF Rotate, Places
  <2> QED
    BY <2>6, <2>7, <2>8 DEF Inv
<1>6. CASE RotateFailsToRename(t)
  BY <1>6, ClosedFacts DEF RotateFailsToRename, Finish, Inv, TypeOK, OpenInv, Places, Typed
<1>7. CASE RotateFailsToOpen(t)
  BY <1>7, SetAsideFacts, LogFileAssumption
     DEF RotateFailsToOpen, Finish, Inv, TypeOK, OpenInv, Places, Typed
<1> QED
  BY <1>1, <1>2, <1>3, <1>4, <1>5, <1>6, <1>7 DEF LogStep

LEMMA SetPathInv ==
  ASSUME Inv, NEW p \in Paths, NEW daily \in Modes, SetPath(p, daily)
  PROVE  Inv'
<1>1. Typed(Rotated) /\ Sound(Rotated, {}, lost, written)
  BY RotatedFacts DEF SetPath
<1>2. Typed(files') /\ Live(p) \in DOMAIN files'
  BY <1>1, OpenFacts DEF SetPath
<1>3. Sound(files', {}, lost, written)
  BY <1>1, OpenSound DEF SetPath, Inv, TypeOK
<1>4. TypeOK'
  BY <1>2, LogFileAssumption DEF SetPath, Untouched, Inv, TypeOK, Typed, Days
<1>5. OpenInv'
  BY <1>2, LogFileAssumption DEF SetPath, OpenInv
<1>6. Places'
  BY <1>3 DEF SetPath, Untouched, Places
<1> QED
  BY <1>4, <1>5, <1>6 DEF Inv

LEMMA InvInit == Init => Inv
<1> SUFFICES ASSUME Init PROVE Inv
  OBVIOUS
<1>1. TypeOK /\ OpenInv
  BY LogFileAssumption DEF Init, TypeOK, OpenInv, Days
<1>2. Places
  BY IdsOfNone DEF Init, Places, Sound, Apart, Complete
<1> QED
  BY <1>1, <1>2 DEF Inv

LEMMA InvStep == Inv /\ [Next]_vars => Inv'
<1> SUFFICES ASSUME Inv, [Next]_vars PROVE Inv'
  OBVIOUS
<1>1. CASE Tick
  BY <1>1, LogFileAssumption DEF Tick, Inv, TypeOK, OpenInv, Places, stream, Days
<1>2. CASE Flush
  BY <1>2, ClosedFacts DEF Flush, Inv, TypeOK, OpenInv, Places, Typed
<1>3. CASE StreamFails
  BY <1>3, LoseSound DEF StreamFails, Inv, TypeOK, OpenInv, Places
<1>4. CASE Restart
  <2>1. TypeOK' /\ OpenInv'
    BY <1>4, ClosedFacts, LogFileAssumption DEF Restart, Inv, TypeOK, OpenInv, Typed
  <2>2. CASE files' = Closed /\ UNCHANGED lost
    BY <1>4, <2>1, <2>2, ClosedFacts DEF Restart, Inv, Places
  <2>3. CASE lost' = lost \cup buffer /\ UNCHANGED files
    <3>1. Sound(files, {}, lost \cup buffer, written)
      BY LoseSound DEF Inv, TypeOK, Places
    <3>2. Places'
      BY <1>4, <2>3, <3>1 DEF Restart, Places, Sound, Apart, Complete
    <3> QED
      BY <2>1, <3>2 DEF Inv
  <2> QED
    BY <1>4, <2>1, <2>2, <2>3 DEF Restart, Inv
<1>5. ASSUME NEW t \in Threads, LogStep(t)
      PROVE  Inv'
  BY <1>5, LogStepInv
<1>6. ASSUME NEW p \in Paths, NEW daily \in Modes, SetPath(p, daily)
      PROVE  Inv'
  BY <1>6, SetPathInv
<1>7. ASSUME NEW p \in Paths \cup {NoPath}, StopFile(p)
      PROVE  Inv'
  BY <1>7, RotatedFacts, LogFileAssumption DEF StopFile, Untouched, Inv, TypeOK, OpenInv, Places, Typed
<1>8. CASE SetPathThrows
  BY <1>8, ClosedFacts DEF SetPathThrows, Untouched, Inv, TypeOK, OpenInv, Places, Typed
<1>9. CASE UNCHANGED vars
  BY <1>9 DEF vars, stream, Inv, TypeOK, OpenInv, Places
<1> QED
  BY <1>1, <1>2, <1>3, <1>4, <1>5, <1>6, <1>7, <1>8, <1>9 DEF Next

LEMMA Invariant == Spec => []Inv
BY InvInit, InvStep, PTL DEF Spec

(* Every variable of the logger and its files keeps its type.                  *)
THEOREM TypeCorrect == Spec => []TypeOK
<1>1. Inv => TypeOK
  BY DEF Inv
<1> QED
  BY <1>1, Invariant, PTL

(* Whatever fails, and wherever the program crashes, a line that went into the *)
(* stream is in exactly one file, in the buffer, or went down with it.         *)
THEOREM ConservedCorrect == Spec => []Conserved
<1>1. Inv => Conserved
  BY SoundIsConserved DEF Inv, Places
<1> QED
  BY <1>1, Invariant, PTL
-----------------------------------------------------------------------------
(* The contract: what the files hold together is what is stored, and what the  *)
(* buffer holds is what is pending.                                            *)

StoredIn(fs) == UNION {Ids(fs[f]) : f \in DOMAIN fs}

LEMMA InStored ==
  ASSUME NEW fs, NEW i
  PROVE  i \in StoredIn(fs) <=> \E f \in DOMAIN fs : i \in Ids(fs[f])
BY DEF StoredIn

LEMMA CloseStores ==
  ASSUME Inv PROVE StoredIn(Closed) = StoredIn(files) \cup Ids(buffer)
<1>1. DOMAIN Closed = DOMAIN files
  BY DEF Closed
<1>2. CASE path_ = NoPath
  <2>1. buffer = {} /\ \A f \in DOMAIN files : Closed[f] = files[f]
    BY <1>2 DEF Inv, OpenInv, Closed
  <2> QED
    BY <1>1, <2>1, IdsOfNone DEF StoredIn
<1>3. CASE path_ # NoPath
  <2>1. Live(path_) \in DOMAIN files
    BY <1>3 DEF Inv, OpenInv
  <2>2. \A f \in DOMAIN files : Closed[f] = IF f = Live(path_) THEN files[f] \cup buffer
                                                             ELSE files[f]
    BY <1>3 DEF Closed
  <2>3. \A f \in DOMAIN files : Ids(Closed[f]) = IF f = Live(path_)
                                THEN Ids(files[f]) \cup Ids(buffer) ELSE Ids(files[f])
    BY <2>2, IdsOfUnion
  <2>4. ASSUME NEW i
        PROVE  i \in StoredIn(Closed) <=> i \in StoredIn(files) \cup Ids(buffer)
    BY <1>1, <2>1, <2>3, InStored
  <2> QED
    BY <2>4
<1> QED
  BY <1>2, <1>3

LEMMA RenameStores ==
  ASSUME NEW fs, NEW from \in DOMAIN fs, NEW to, to \notin DOMAIN fs
  PROVE  StoredIn(Rename(fs, from, to)) = StoredIn(fs)
<1> DEFINE gs == Rename(fs, from, to)
<1>1. DOMAIN gs = (DOMAIN fs \ {from}) \cup {to}
  BY DEF Rename
<1>2. gs[to] = fs[from] /\ \A g \in DOMAIN gs : g # to => gs[g] = fs[g]
  BY <1>1 DEF Rename
<1> HIDE DEF gs
<1>3. ASSUME NEW i, NEW f \in DOMAIN fs, i \in Ids(fs[f])
      PROVE  \E g \in DOMAIN gs : i \in Ids(gs[g])
  <2>1. CASE f = from
    BY <1>1, <1>2, <1>3, <2>1
  <2>2. CASE f # from
    BY <1>1, <1>2, <1>3, <2>2
  <2> QED
    BY <2>1, <2>2
<1>4. ASSUME NEW i, NEW g \in DOMAIN gs, i \in Ids(gs[g])
      PROVE  \E f \in DOMAIN fs : i \in Ids(fs[f])
  BY <1>1, <1>2, <1>4
<1>5. \A i : i \in StoredIn(gs) <=> i \in StoredIn(fs)
  BY <1>3, <1>4, InStored
<1>6. StoredIn(gs) = StoredIn(fs)
  BY <1>5
<1> QED
  BY <1>6 DEF gs

LEMMA OpenStores ==
  ASSUME NEW fs, NEW p PROVE StoredIn(OpenFile(fs, p)) = StoredIn(fs)
<1> DEFINE gs == OpenFile(fs, p)
<1>1. DOMAIN gs = DOMAIN fs \cup {Live(p)}
  BY DEF OpenFile
<1>2. \A g \in DOMAIN gs : gs[g] = IF g \in DOMAIN fs THEN fs[g] ELSE {}
  BY DEF OpenFile
<1> HIDE DEF gs
<1>3. \A g \in DOMAIN gs : Ids(gs[g]) = IF g \in DOMAIN fs THEN Ids(fs[g]) ELSE {}
  BY <1>2, IdsOfNone
<1>4. \A i : i \in StoredIn(gs) <=> i \in StoredIn(fs)
  BY <1>1, <1>3, InStored
<1>5. StoredIn(gs) = StoredIn(fs)
  BY <1>4
<1> QED
  BY <1>5 DEF gs

LEMMA SetAsideStores ==
  ASSUME Inv, NEW lt, NeedsRotation(lt), Free # {}
  PROVE  StoredIn(SetAside) = StoredIn(files) \cup Ids(buffer)
<1>1. path_ # NoPath /\ Live(path_) \in DOMAIN Closed
  BY ClosedFacts DEF NeedsRotation
<1>2. PreviousPath \notin DOMAIN Closed
  BY <1>1, PreviousPathIsFree, ClosedFacts DEF Inv
<1> QED
  BY <1>1, <1>2, RenameStores, CloseStores DEF SetAside

LEMMA RotatedStores ==
  ASSUME Inv, NeedsRotation(day) => Free # {}
  PROVE  StoredIn(Rotated) = StoredIn(files) \cup Ids(buffer)
BY SetAsideStores, CloseStores DEF Rotated

LEMMA PendingIsBuffer ==
  ASSUME Inv PROVE (1 .. written) \ (StoredIn(files) \cup Ids(lost)) = Ids(buffer)
<1>1. Ids(buffer \cup lost) = Ids(buffer) \cup Ids(lost)
  BY IdsOfUnion
<1>2. Sound(files, buffer, lost, written)
  BY DEF Inv, Places
<1>3. ASSUME NEW i
      PROVE  i \in (1 .. written) \ (StoredIn(files) \cup Ids(lost)) <=> i \in Ids(buffer)
  <2>1. i \in Ids(buffer) => /\ i \in 1 .. written /\ i \notin Ids(lost)
                             /\ \A f \in DOMAIN files : i \notin Ids(files[f])
    BY <1>1, <1>2 DEF Sound, Apart, Complete
  <2>2. i \in 1 .. written => \/ \E f \in DOMAIN files : i \in Ids(files[f])
                              \/ i \in Ids(buffer) \/ i \in Ids(lost)
    BY <1>2 DEF Sound, Complete
  <2> QED
    BY <2>1, <2>2, InStored
<1> QED
  BY <1>3

\* The steps of the contract, in the terms of the logger.
LEMMA StepsOfContract ==
  ASSUME Inv
  PROVE  /\ /\ StoredIn(files') = StoredIn(files) \cup Ids(buffer)
            /\ written' = written /\ lost' = lost
            => Contract!Store
         /\ /\ StoredIn(files') \in {StoredIn(files), StoredIn(files) \cup Ids(buffer)}
            /\ written' = written + 1 /\ lost' = lost
            => Contract!Log
         /\ files' = files /\ written' = written /\ lost' = lost \cup buffer
            => Contract!Lose
         /\ files' = files /\ written' = written /\ lost' = lost
            => UNCHANGED Contract!vars
<1>1. Contract!Pending = Ids(buffer)
  BY PendingIsBuffer DEF Contract!Pending, StoredIn
<1>2. Ids(lost \cup buffer) = Ids(lost) \cup Ids(buffer)
  BY IdsOfUnion
<1> QED
  BY <1>1, <1>2 DEF Contract!Store, Contract!Log, Contract!Lose, Contract!vars, StoredIn

LEMMA StepImplements == Inv /\ [Next]_vars => [Contract!Next]_(Contract!vars)
<1> SUFFICES ASSUME Inv, [Next]_vars PROVE [Contract!Next]_(Contract!vars)
  OBVIOUS
<1> USE StepsOfContract DEF Contract!Next
<1>1. CASE Tick
  BY <1>1 DEF Tick
<1>2. CASE Flush
  BY <1>2, CloseStores DEF Flush
<1>3. CASE StreamFails
  BY <1>3 DEF StreamFails
<1>4. CASE Restart
  BY <1>4, CloseStores DEF Restart
<1>5. ASSUME NEW t \in Threads, LogStep(t)
      PROVE  [Contract!Next]_(Contract!vars)
  <2>1. CASE Stamp(t) \/ CheckPath(t) \/ Drop(t)
    BY <2>1 DEF Stamp, CheckPath, Drop, Finish
  <2>2. CASE Write(t)
    BY <2>2 DEF Write, Finish
  <2>3. CASE Rotate(t)
    BY <2>3, SetAsideStores, OpenStores DEF Rotate, Finish
  <2>4. CASE RotateFailsToRename(t)
    BY <2>4, CloseStores DEF RotateFailsToRename, Finish
  <2>5. CASE RotateFailsToOpen(t)
    BY <2>5, SetAsideStores DEF RotateFailsToOpen, Finish
  <2> QED
    BY <1>5, <2>1, <2>2, <2>3, <2>4, <2>5 DEF LogStep
<1>6. ASSUME NEW p \in Paths, NEW daily \in Modes, SetPath(p, daily)
      PROVE  [Contract!Next]_(Contract!vars)
  BY <1>6, RotatedStores, OpenStores DEF SetPath, Untouched
<1>7. ASSUME NEW p \in Paths \cup {NoPath}, StopFile(p)
      PROVE  [Contract!Next]_(Contract!vars)
  BY <1>7, RotatedStores DEF StopFile, Untouched
<1>8. CASE SetPathThrows
  BY <1>8, CloseStores DEF SetPathThrows, Untouched
<1>9. CASE UNCHANGED vars
  BY <1>9 DEF vars
<1> QED
  BY <1>1, <1>2, <1>3, <1>4, <1>5, <1>6, <1>7, <1>8, <1>9 DEF Next

(* Threads, dates, rotations and restarts are invisible to a program that only *)
(* asks what became of its lines: the logger implements the contract of a log. *)
THEOREM ImplementsContract == Spec => ContractSpec
<1>1. Init => Contract!Init
  BY IdsOfNone DEF Init, Contract!Init
<1>2. Inv /\ [Next]_vars => [Contract!Next]_(Contract!vars)
  BY StepImplements
<1> QED
  BY <1>1, <1>2, Invariant, PTL DEF Spec, ContractSpec, Contract!Spec
-----------------------------------------------------------------------------
(* What a step does to the files that are set aside already.                   *)

KeepsBackups(fs) ==
  \A f \in DOMAIN files : f.day # 0 => f \in DOMAIN fs /\ fs[f] = files[f]

LEMMA ClosedKeeps == KeepsBackups(Closed)
BY DEF KeepsBackups, Closed, Live

LEMMA SetAsideKeeps ==
  ASSUME Inv, NEW lt, NeedsRotation(lt), Free # {}
  PROVE  KeepsBackups(SetAside)
<1>1. PreviousPath \notin DOMAIN files
  BY PreviousPathIsFree DEF NeedsRotation, Inv
<1>2. DOMAIN SetAside = (DOMAIN files \ {Live(path_)}) \cup {PreviousPath}
  BY SetAsideFacts
<1>3. \A f \in DOMAIN SetAside : f # PreviousPath => SetAside[f] = Closed[f]
  BY <1>2, ClosedFacts DEF SetAside, Rename
<1>4. \A f \in DOMAIN files : f.day # 0 => f # Live(path_) /\ f # PreviousPath
  BY <1>1 DEF Live
<1> QED
  BY <1>2, <1>3, <1>4, ClosedKeeps DEF KeepsBackups

LEMMA OpenKeeps ==
  ASSUME NEW fs, NEW p, KeepsBackups(fs) PROVE KeepsBackups(OpenFile(fs, p))
<1>1. \A f \in DOMAIN fs : f \in DOMAIN OpenFile(fs, p) /\ OpenFile(fs, p)[f] = fs[f]
  BY DEF OpenFile
<1> QED
  BY <1>1 DEF KeepsBackups

LEMMA RotatedKeeps ==
  ASSUME Inv, NeedsRotation(day) => Free # {} PROVE KeepsBackups(Rotated)
BY ClosedKeeps, SetAsideKeeps DEF Rotated

LEMMA StepKeeps == Inv /\ [Next]_vars => KeepsBackups(files')
<1> SUFFICES ASSUME Inv, [Next]_vars PROVE KeepsBackups(files')
  OBVIOUS
<1>1. KeepsBackups(files)
  BY DEF KeepsBackups
<1>2. CASE files' = files
  BY <1>1, <1>2
<1>3. CASE files' = Closed
  BY <1>3, ClosedKeeps
<1>4. CASE Tick \/ StreamFails \/ UNCHANGED vars
  BY <1>2, <1>4 DEF Tick, StreamFails, vars
<1>5. CASE Flush \/ Restart \/ SetPathThrows
  BY <1>2, <1>3, <1>5 DEF Flush, Restart, SetPathThrows
<1>6. ASSUME NEW t \in Threads, LogStep(t)
      PROVE  KeepsBackups(files')
  <2>1. CASE Stamp(t) \/ CheckPath(t) \/ Write(t) \/ Drop(t)
    BY <1>2, <2>1 DEF Stamp, CheckPath, Write, Drop
  <2>2. CASE Rotate(t)
    BY <2>2, SetAsideKeeps, OpenKeeps DEF Rotate
  <2>3. CASE RotateFailsToRename(t)
    BY <1>3, <2>3 DEF RotateFailsToRename
  <2>4. CASE RotateFailsToOpen(t)
    BY <2>4, SetAsideKeeps DEF RotateFailsToOpen
  <2> QED
    BY <1>6, <2>1, <2>2, <2>3, <2>4 DEF LogStep
<1>7. ASSUME NEW p \in Paths, NEW daily \in Modes, SetPath(p, daily)
      PROVE  KeepsBackups(files')
  BY <1>7, RotatedKeeps, OpenKeeps DEF SetPath
<1>8. ASSUME NEW p \in Paths \cup {NoPath}, StopFile(p)
      PROVE  KeepsBackups(files')
  BY <1>8, RotatedKeeps DEF StopFile
<1> QED
  BY <1>4, <1>5, <1>6, <1>7, <1>8 DEF Next

(* Whatever the program asks for and whatever fails, no step of the logger     *)
(* writes, replaces or removes a file that was set aside.                      *)
THEOREM BackupsAreFinalCorrect == Spec => BackupsAreFinal
<1>1. Inv /\ [Next]_vars
        => [\A f \in DOMAIN files :
              f.day # 0 => f \in DOMAIN files' /\ files'[f] = files[f]]_vars
  BY StepKeeps DEF KeepsBackups
<1> QED
  BY <1>1, Invariant, PTL DEF Spec, BackupsAreFinal
-----------------------------------------------------------------------------
(* Daily files. The lines of the file that is written, and those in the buffer, *)
(* are of one day, which is daily_.                                             *)

OfDay(lines, d) == \A l \in lines : l.stamp = d

Dated(fs) == \A f \in DOMAIN fs : f.day # 0 => OfDay(fs[f], f.day)

DayInv == /\ Dated(files)
          /\ path_ # NoPath => daily_ # 0 /\ OfDay(files[Live(path_)], daily_)
          /\ OfDay(buffer, daily_)

LEMMA ClosedDated ==
  ASSUME Inv, DayInv
  PROVE  /\ Dated(Closed)
         /\ path_ # NoPath => OfDay(Closed[Live(path_)], daily_)
<1>1. \A f \in DOMAIN files :
        Closed[f] = IF path_ # NoPath /\ f = Live(path_) THEN files[f] \cup buffer
                                                         ELSE files[f]
  BY DEF Closed
<1>2. DOMAIN Closed = DOMAIN files
  BY DEF Closed
<1> QED
  BY <1>1, <1>2 DEF Inv, OpenInv, DayInv, Dated, OfDay, Live

LEMMA SetAsideDated ==
  ASSUME Inv, DayInv, NEW lt, NeedsRotation(lt), Free # {}
  PROVE  /\ Dated(SetAside)
         /\ Live(path_) \notin DOMAIN SetAside
         /\ \A p \in Paths : Live(p) \in DOMAIN SetAside => Live(p) \in DOMAIN files
<1>1. path_ # NoPath /\ daily_ # 0 /\ PreviousPath.day = daily_
  BY PreviousPathIsFree DEF NeedsRotation, Inv
<1>2. \A p : Live(p).day = 0
  BY DEF Live
<1>3. DOMAIN SetAside = (DOMAIN files \ {Live(path_)}) \cup {PreviousPath}
  BY SetAsideFacts
<1>4. \A f \in DOMAIN SetAside : SetAside[f] = IF f = PreviousPath THEN Closed[Live(path_)]
                                                                  ELSE Closed[f]
  BY <1>3, ClosedFacts DEF SetAside, Rename
<1>5. Dated(SetAside)
  BY <1>1, <1>3, <1>4, ClosedFacts, ClosedDated DEF Dated
<1> QED
  BY <1>1, <1>2, <1>3, <1>5

LEMMA OpenDated ==
  ASSUME NEW fs, NEW p, Dated(fs)
  PROVE  /\ Dated(OpenFile(fs, p))
         /\ OpenFile(fs, p)[Live(p)] = IF Live(p) \in DOMAIN fs THEN fs[Live(p)] ELSE {}
<1>1. DOMAIN OpenFile(fs, p) = DOMAIN fs \cup {Live(p)}
  BY DEF OpenFile
<1>2. \A f \in DOMAIN OpenFile(fs, p) :
        OpenFile(fs, p)[f] = IF f \in DOMAIN fs THEN fs[f] ELSE {}
  BY DEF OpenFile
<1> QED
  BY <1>1, <1>2 DEF Dated, OfDay

LEMMA RotatedDated ==
  ASSUME Inv, DayInv, NeedsRotation(day) => Free # {}
  PROVE  Dated(Rotated)
BY ClosedDated, SetAsideDated DEF Rotated

LEMMA LogStepDated ==
  ASSUME Inv, DayInv, NEW t \in Threads, LogStep(t)
  PROVE  DayInv'
<1>1. stamp[t] # 0
  BY DEF Inv, TypeOK, Days
<1>2. ~NeedsRotation(stamp[t]) /\ path_ # NoPath => daily_ = stamp[t]
  BY DEF NeedsRotation, Inv, OpenInv, DayInv
<1>3. CASE Stamp(t) \/ CheckPath(t)
  BY <1>3 DEF Stamp, CheckPath, stream, DayInv
<1>4. CASE Write(t)
  <2>1. path_ # NoPath /\ daily_ = stamp[t]
    BY <1>2, <1>4 DEF Write, Inv, OpenInv
  <2>2. OfDay(buffer \cup {Line(t)}, daily_)
    BY <2>1, LineFacts DEF OfDay, DayInv, Inv
  <2> QED
    BY <1>4, <2>1, <2>2 DEF Write, DayInv
<1>5. CASE Drop(t)
  <2>1. path_ = NoPath => buffer = {}
    BY DEF Inv, OpenInv
  <2>2. path_ # NoPath => daily_' = daily_
    BY <1>2, <1>5 DEF Drop
  <2> QED
    BY <1>5, <2>1, <2>2 DEF Drop, DayInv, OfDay
<1>6. CASE Rotate(t)
  <2>1. Dated(SetAside) /\ Live(path_) \notin DOMAIN SetAside
    BY <1>6, SetAsideDated DEF Rotate
  <2>2. Dated(files') /\ files'[Live(path_)] = {}
    BY <1>6, <2>1, OpenDated DEF Rotate
  <2>3. OfDay({Line(t)}, stamp[t])
    BY LineFacts DEF OfDay, Inv
  <2>4. path_' = path_ /\ daily_' = stamp[t] /\ buffer' = {Line(t)}
    BY <1>6 DEF Rotate
  <2> QED
    BY <1>1, <2>2, <2>3, <2>4 DEF DayInv, OfDay
<1>7. CASE RotateFailsToRename(t)
  BY <1>7, ClosedDated DEF RotateFailsToRename, DayInv, OfDay
<1>8. CASE RotateFailsToOpen(t)
  BY <1>8, SetAsideDated DEF RotateFailsToOpen, DayInv, OfDay
<1> QED
  BY <1>3, <1>4, <1>5, <1>6, <1>7, <1>8 DEF LogStep

LEMMA SetPathDated ==
  ASSUME Inv, DayInv, Resumes = FALSE, NEW p \in Paths, SetPath(p, TRUE)
  PROVE  DayInv'
<1>1. day # 0
  BY DEF Inv, TypeOK, Days
<1>2. NeedsRotation(day) => Free # {}
  BY DEF SetPath
<1>3. Dated(files')
       /\ files'[Live(p)] = IF Live(p) \in DOMAIN Rotated THEN Rotated[Live(p)] ELSE {}
  BY <1>2, RotatedDated, OpenDated DEF SetPath
<1>4. p # NoPath
  BY LogFileAssumption
<1>5. Live(p) \in DOMAIN Rotated => OfDay(Rotated[Live(p)], day)
  <2>1. CASE NeedsRotation(day)
    <3>1. Live(p) \notin DOMAIN SetAside
      BY <1>2, <2>1, SetAsideDated DEF SetPath
    <3> QED
      BY <2>1, <3>1 DEF Rotated
  <2>2. CASE ~NeedsRotation(day)
    <3>1. Rotated = Closed /\ DOMAIN Closed = DOMAIN files
      BY <2>2, ClosedFacts DEF Rotated
    <3>2. p = path_ => daily_ = day
      BY <1>4, <2>2 DEF NeedsRotation, Inv, OpenInv, DayInv
    <3>3. p = path_ \/ Live(p) \notin DOMAIN files
      BY DEF SetPath
    <3> QED
      BY <1>4, <3>1, <3>2, <3>3, ClosedDated
  <2> QED
    BY <2>1, <2>2
<1>6. path_' = p /\ daily_' = day /\ buffer' = {}
  BY DEF SetPath
<1> QED
  BY <1>1, <1>3, <1>5, <1>6 DEF DayInv, OfDay

LEMMA DayStep ==
  ASSUME Modes = {TRUE}, Resumes = FALSE
  PROVE  Inv /\ DayInv /\ [Next]_vars => DayInv'
<1> SUFFICES ASSUME Inv, DayInv, [Next]_vars PROVE DayInv'
  OBVIOUS
<1>1. CASE Tick
  BY <1>1 DEF Tick, DayInv, stream
<1>2. CASE Flush
  BY <1>2, ClosedDated DEF Flush, DayInv, OfDay
<1>3. CASE StreamFails
  BY <1>3 DEF StreamFails, DayInv, OfDay
<1>4. CASE Restart
  <2>1. Dated(files')
    BY <1>4, ClosedDated DEF Restart, DayInv
  <2> QED
    BY <1>4, <2>1 DEF Restart, DayInv, OfDay
<1>5. ASSUME NEW t \in Threads, LogStep(t)
      PROVE  DayInv'
  BY <1>5, LogStepDated
<1>6. ASSUME NEW p \in Paths, NEW daily \in Modes, SetPath(p, daily)
      PROVE  DayInv'
  BY <1>6, SetPathDated
<1>7. ASSUME NEW p \in Paths \cup {NoPath}, StopFile(p)
      PROVE  DayInv'
  BY <1>7, RotatedDated DEF StopFile, DayInv, OfDay
<1>8. CASE SetPathThrows
  BY <1>8, ClosedDated DEF SetPathThrows, DayInv, OfDay
<1>9. CASE UNCHANGED vars
  BY <1>9 DEF vars, stream, DayInv
<1> QED
  BY <1>1, <1>2, <1>3, <1>4, <1>5, <1>6, <1>7, <1>8, <1>9 DEF Next

(* A daily logger that opens no file of an earlier run: a file that was set    *)
(* aside under a date holds lines of that date only, however late a thread     *)
(* brings its line, and whatever fails.                                        *)
THEOREM BackupIsOfItsDayCorrect ==
  ASSUME Modes = {TRUE}, Resumes = FALSE
  PROVE  Spec => []BackupIsOfItsDay
<1>1. Init => DayInv
  BY DEF Init, DayInv, Dated, OfDay
<1>2. Inv /\ DayInv /\ [Next]_vars => DayInv'
  BY DayStep
<1>3. DayInv => BackupIsOfItsDay
  BY DEF DayInv, Dated, OfDay, BackupIsOfItsDay
<1> QED
  BY <1>1, <1>2, <1>3, Invariant, PTL DEF Spec
-----------------------------------------------------------------------------
(* The names that the backups of one date need. While a date is today's, a file *)
(* of it is set aside only for a line of an earlier day, and each thread has at *)
(* most one of those. Later it is set aside once, and once more for each thread *)
(* whose line of that date was still to come when the day ended.                *)

BackupsIn(fs, p, d) == {n \in Tried : Backup(p, d, n) \in DOMAIN fs}
Backups(p, d)       == BackupsIn(files, p, d)

\* Threads with a line of an earlier date than d, or of d.
Before(d) == {t \in Threads : pc[t] # "idle" /\ stamp[t] < d}
With(d)   == {t \in Threads : pc[t] # "idle" /\ stamp[t] = d}

Here(p, d) == IF path_ = p /\ daily_ = d THEN 1 ELSE 0

\* What is counted for one path and date.
Count(p, d) ==
  /\ day < d => Backups(p, d) = {}
  /\ day = d => Cardinality(Backups(p, d)) + Cardinality(Before(d)) <= Cardinality(Threads)
  /\ day > d => Cardinality(Backups(p, d)) + Cardinality(With(d)) + Here(p, d)
                  <= 2 * Cardinality(Threads) + 1

StuckInv == /\ NeverStuck
            /\ daily_ <= day /\ \A t \in Threads : stamp[t] <= day
            /\ \A p \in Paths, d \in Days : Count(p, d)

LEMMA FewThreads ==
  ASSUME IsFiniteSet(Threads), NEW S \in SUBSET Threads
  PROVE  /\ IsFiniteSet(S) /\ Cardinality(S) \in Nat /\ Cardinality(Threads) \in Nat
         /\ Cardinality(S) <= Cardinality(Threads)
<1>1. IsFiniteSet(S) /\ Cardinality(S) <= Cardinality(Threads)
  BY FS_Subset
<1> QED
  BY <1>1, FS_CardinalityType

LEMMA FewSuffixes ==
  /\ IsFiniteSet(Tried) /\ Cardinality(Tried) = MaxRetry + 2
  /\ \A S \in SUBSET Tried : IsFiniteSet(S) /\ Cardinality(S) \in Nat
<1>1. MaxRetry \in Nat
  BY LogFileAssumption
<1>2. IsFiniteSet(0 .. MaxRetry + 1) /\ Cardinality(0 .. MaxRetry + 1) = MaxRetry + 2
  BY <1>1, FS_Interval
<1>3. IsFiniteSet(Tried)
  BY <1>2 DEF Tried
<1>4. ASSUME NEW S \in SUBSET Tried
      PROVE  IsFiniteSet(S) /\ Cardinality(S) \in Nat
  <2>1. IsFiniteSet(S)
    BY <1>3, FS_Subset
  <2> QED
    BY <2>1, FS_CardinalityType
<1> QED
  BY <1>2, <1>3, <1>4 DEF Tried

\* A set that loses an element, or that gains one at most.
LEMMA OneLess ==
  ASSUME NEW S, IsFiniteSet(S), NEW x \in S, NEW T, T \subseteq S \ {x}
  PROVE  Cardinality(T) + 1 <= Cardinality(S)
<1>1. IsFiniteSet(S \ {x}) /\ Cardinality(S \ {x}) = Cardinality(S) - 1
  BY FS_RemoveElement
<1>2. Cardinality(T) <= Cardinality(S \ {x}) /\ IsFiniteSet(T)
  BY <1>1, FS_Subset
<1>3. Cardinality(S) \in Nat /\ Cardinality(T) \in Nat
  BY <1>2, FS_CardinalityType
<1> QED
  BY <1>1, <1>2, <1>3

LEMMA OneMore ==
  ASSUME NEW S, IsFiniteSet(S), NEW x, NEW T, T \subseteq S \cup {x}
  PROVE  Cardinality(T) <= Cardinality(S) + 1
<1>1. /\ IsFiniteSet(S \cup {x})
      /\ Cardinality(S \cup {x}) = IF x \in S THEN Cardinality(S) ELSE Cardinality(S) + 1
  BY FS_AddElement
<1>2. Cardinality(T) <= Cardinality(S \cup {x}) /\ IsFiniteSet(T)
  BY <1>1, FS_Subset
<1>3. Cardinality(S) \in Nat /\ Cardinality(T) \in Nat
  BY <1>2, FS_CardinalityType
<1> QED
  BY <1>1, <1>2, <1>3

LEMMA CountTypes ==
  ASSUME IsFiniteSet(Threads), NEW p, NEW d
  PROVE  /\ Backups(p, d) \in SUBSET Tried /\ Backups(p, d)' \in SUBSET Tried
         /\ Before(d) \in SUBSET Threads /\ Before(d)' \in SUBSET Threads
         /\ With(d) \in SUBSET Threads /\ With(d)' \in SUBSET Threads
         /\ Here(p, d) \in {0, 1} /\ Here(p, d)' \in {0, 1}
BY DEF Backups, BackupsIn, Before, With, Here

\* A step that counts nothing more keeps the count.
LEMMA CalmStep ==
  ASSUME IsFiniteSet(Threads), NEW p, NEW d, day' = day, Count(p, d),
         Backups(p, d)' = Backups(p, d),
         day = d => Before(d)' \subseteq Before(d),
         day > d => With(d)' \subseteq With(d) /\ Here(p, d)' <= Here(p, d)
  PROVE  Count(p, d)'
<1>1. PICK b : b = Cardinality(Backups(p, d))
  OBVIOUS
<1>2. PICK e : e = Cardinality(Before(d))
  OBVIOUS
<1>3. PICK e2 : e2 = Cardinality(Before(d)')
  OBVIOUS
<1>4. PICK w : w = Cardinality(With(d))
  OBVIOUS
<1>5. PICK w2 : w2 = Cardinality(With(d)')
  OBVIOUS
<1>6. PICK h : h = Here(p, d)
  OBVIOUS
<1>7. PICK h2 : h2 = Here(p, d)'
  OBVIOUS
<1>8. PICK n : n = Cardinality(Threads)
  OBVIOUS
<1>9. b \in Nat /\ e \in Nat /\ e2 \in Nat /\ w \in Nat /\ w2 \in Nat /\ n \in Nat
      /\ h \in Nat /\ h2 \in Nat
  BY <1>1, <1>2, <1>3, <1>4, <1>5, <1>6, <1>7, <1>8, CountTypes, FewThreads, FewSuffixes
<1>10. (day = d => e2 <= e) /\ (day > d => w2 <= w)
  <2>1. IsFiniteSet(Before(d)) /\ IsFiniteSet(With(d))
    BY CountTypes, FewThreads
  <2>2. day = d => Cardinality(Before(d)') <= Cardinality(Before(d))
    BY <2>1, FS_Subset
  <2>3. day > d => Cardinality(With(d)') <= Cardinality(With(d))
    BY <2>1, FS_Subset
  <2> QED
    BY <1>2, <1>3, <1>4, <1>5, <2>2, <2>3
<1>11. /\ day < d => Backups(p, d) = {}
       /\ day = d => b + e <= n
       /\ day > d => b + w + h <= 2 * n + 1
  BY <1>1, <1>2, <1>4, <1>6, <1>8 DEF Count
<1>12. /\ day < d => Backups(p, d) = {}
       /\ day = d => b + e2 <= n
       /\ day > d => b + w2 + h2 <= 2 * n + 1
  BY <1>6, <1>7, <1>9, <1>10, <1>11
<1> QED
  BY <1>1, <1>3, <1>5, <1>7, <1>8, <1>12 DEF Count

\* A thread writes its line of d: whatever file is of d now, the line is done.
LEMMA LineStep ==
  ASSUME IsFiniteSet(Threads), NEW p, NEW d, day' = day, Count(p, d),
         Backups(p, d)' = Backups(p, d), Before(d)' \subseteq Before(d),
         NEW t \in With(d), With(d)' \subseteq With(d) \ {t}
  PROVE  Count(p, d)'
<1>1. PICK b : b = Cardinality(Backups(p, d))
  OBVIOUS
<1>2. PICK e : e = Cardinality(Before(d))
  OBVIOUS
<1>3. PICK e2 : e2 = Cardinality(Before(d)')
  OBVIOUS
<1>4. PICK w : w = Cardinality(With(d))
  OBVIOUS
<1>5. PICK w2 : w2 = Cardinality(With(d)')
  OBVIOUS
<1>6. PICK h : h = Here(p, d)
  OBVIOUS
<1>7. PICK h2 : h2 = Here(p, d)'
  OBVIOUS
<1>8. PICK n : n = Cardinality(Threads)
  OBVIOUS
<1>9. b \in Nat /\ e \in Nat /\ e2 \in Nat /\ w \in Nat /\ w2 \in Nat /\ n \in Nat
      /\ h \in {0, 1} /\ h2 \in {0, 1}
  BY <1>1, <1>2, <1>3, <1>4, <1>5, <1>6, <1>7, <1>8, CountTypes, FewThreads, FewSuffixes
<1>10. e2 <= e /\ w2 + 1 <= w
  <2>1. IsFiniteSet(Before(d)) /\ IsFiniteSet(With(d))
    BY CountTypes, FewThreads
  <2>2. Cardinality(Before(d)') <= Cardinality(Before(d))
    BY <2>1, FS_Subset
  <2>3. Cardinality(With(d)') + 1 <= Cardinality(With(d))
    BY <2>1, OneLess
  <2> QED
    BY <1>2, <1>3, <1>4, <1>5, <2>2, <2>3
<1>11. /\ day < d => Backups(p, d) = {}
       /\ day = d => b + e <= n
       /\ day > d => b + w + h <= 2 * n + 1
  BY <1>1, <1>2, <1>4, <1>6, <1>8 DEF Count
<1>12. /\ day < d => Backups(p, d) = {}
       /\ day = d => b + e2 <= n
       /\ day > d => b + w2 + h2 <= 2 * n + 1
  BY <1>9, <1>10, <1>11
<1> QED
  BY <1>1, <1>3, <1>5, <1>7, <1>8, <1>12 DEF Count

\* The file of d is set aside: on its own day a line of an earlier one is done,
\* and later the file itself is not there any more.
LEMMA AsideStep ==
  ASSUME IsFiniteSet(Threads), NEW p, NEW d, day' = day, Count(p, d),
         NEW k, Backups(p, d)' \subseteq Backups(p, d) \cup {k},
         day >= d,
         day = d => \E t \in Before(d) : Before(d)' \subseteq Before(d) \ {t},
         With(d)' \subseteq With(d), Here(p, d) = 1, Here(p, d)' = 0, day \in Nat, d \in Nat
  PROVE  Count(p, d)'
<1>1. PICK b : b = Cardinality(Backups(p, d))
  OBVIOUS
<1>2. PICK b2 : b2 = Cardinality(Backups(p, d)')
  OBVIOUS
<1>3. PICK e : e = Cardinality(Before(d))
  OBVIOUS
<1>4. PICK e2 : e2 = Cardinality(Before(d)')
  OBVIOUS
<1>5. PICK w : w = Cardinality(With(d))
  OBVIOUS
<1>6. PICK w2 : w2 = Cardinality(With(d)')
  OBVIOUS
<1>7. PICK n : n = Cardinality(Threads)
  OBVIOUS
<1>8. b \in Nat /\ b2 \in Nat /\ e \in Nat /\ e2 \in Nat /\ w \in Nat /\ w2 \in Nat /\ n \in Nat
  BY <1>1, <1>2, <1>3, <1>4, <1>5, <1>6, <1>7, CountTypes, FewThreads, FewSuffixes
<1>9. b2 <= b + 1
  <2>1. IsFiniteSet(Backups(p, d))
    BY CountTypes, FewSuffixes
  <2> QED
    BY <1>1, <1>2, <2>1, OneMore
<1>10. w2 <= w
  <2>1. IsFiniteSet(With(d))
    BY CountTypes, FewThreads
  <2> QED
    BY <1>5, <1>6, <2>1, FS_Subset
<1>11. day = d => e2 + 1 <= e
  <2>1. IsFiniteSet(Before(d))
    BY CountTypes, FewThreads
  <2> QED
    BY <1>3, <1>4, <2>1, OneLess
<1>12. /\ day = d => b + e <= n
       /\ day > d => b + w + 1 <= 2 * n + 1
  BY <1>1, <1>3, <1>5, <1>7 DEF Count
<1>13. /\ ~ (day < d)
       /\ day = d => b2 + e2 <= n
       /\ day > d => b2 + w2 + 0 <= 2 * n + 1
  BY <1>8, <1>9, <1>10, <1>11, <1>12
<1> QED
  BY <1>2, <1>4, <1>6, <1>7, <1>13 DEF Count

\* The day ends: what was counted for it is counted on.
LEMMA DayEnds ==
  ASSUME IsFiniteSet(Threads), NEW p, NEW d \in Nat, day \in Nat, day' = day + 1, Count(p, d),
         Backups(p, d)' = Backups(p, d), Before(d)' = Before(d),
         With(d)' = With(d), Here(p, d)' = Here(p, d)
  PROVE  Count(p, d)'
<1>1. PICK b : b = Cardinality(Backups(p, d))
  OBVIOUS
<1>2. PICK e : e = Cardinality(Before(d))
  OBVIOUS
<1>3. PICK w : w = Cardinality(With(d))
  OBVIOUS
<1>4. PICK h : h = Here(p, d)
  OBVIOUS
<1>5. PICK n : n = Cardinality(Threads)
  OBVIOUS
<1>6. b \in Nat /\ e \in Nat /\ w \in Nat /\ n \in Nat /\ h \in {0, 1} /\ e <= n /\ w <= n
  BY <1>1, <1>2, <1>3, <1>4, <1>5, CountTypes, FewThreads, FewSuffixes
<1>7. Backups(p, d) = {} => b = 0
  BY <1>1, FS_EmptySet
<1>8. /\ day < d => Backups(p, d) = {}
      /\ day = d => b + e <= n
      /\ day > d => b + w + h <= 2 * n + 1
  BY <1>1, <1>2, <1>3, <1>4, <1>5 DEF Count
<1>9. PICK x : x = day
  OBVIOUS
<1>10. /\ x + 1 < d => Backups(p, d) = {}
       /\ x + 1 = d => b + e <= n
       /\ x + 1 > d => b + w + h <= 2 * n + 1
  BY <1>6, <1>7, <1>8, <1>9
<1> QED
  BY <1>1, <1>2, <1>3, <1>4, <1>5, <1>9, <1>10 DEF Count

\* What the operations on the files make of the backups.
LEMMA BackupsOfOpen ==
  ASSUME NEW fs, NEW q, NEW p, NEW d \in Days
  PROVE  BackupsIn(OpenFile(fs, q), p, d) = BackupsIn(fs, p, d)
<1>1. d # 0
  BY DEF Days
<1>2. \A n : Backup(p, d, n) # Live(q)
  BY <1>1 DEF Backup, Live
<1> QED
  BY <1>2 DEF BackupsIn, OpenFile

LEMMA BackupsOfClosed ==
  ASSUME NEW p, NEW d PROVE BackupsIn(Closed, p, d) = Backups(p, d)
BY DEF Backups, BackupsIn, Closed

LEMMA BackupsOfSetAside ==
  ASSUME Inv, NEW lt, NeedsRotation(lt), Free # {}
  PROVE  \E n : \A p \in Paths, d \in Days :
           BackupsIn(SetAside, p, d)
             \subseteq Backups(p, d) \cup (IF p = path_ /\ d = daily_ THEN {n} ELSE {})
<1>1. DOMAIN SetAside = (DOMAIN files \ {Live(path_)}) \cup {PreviousPath}
  BY SetAsideFacts
<1>2. PICK n : PreviousPath = Backup(path_, daily_, n)
  BY DEF PreviousPath
<1>3. ASSUME NEW p \in Paths, NEW d \in Days, NEW k \in BackupsIn(SetAside, p, d)
      PROVE  k \in Backups(p, d) \/ (p = path_ /\ d = daily_ /\ k = n)
  <2>1. k \in Tried /\ Backup(p, d, k) \in DOMAIN SetAside
    BY DEF BackupsIn
  <2>2. CASE Backup(p, d, k) \in DOMAIN files
    BY <2>1, <2>2 DEF Backups, BackupsIn
  <2>3. CASE Backup(p, d, k) = PreviousPath
    BY <1>2, <2>3 DEF Backup
  <2> QED
    BY <1>1, <2>1, <2>2, <2>3
<1> QED
  BY <1>3

LEMMA BackupsStay ==
  ASSUME Inv, NEW lt, NeedsRotation(lt), Free # {}, NEW p \in Paths, NEW d \in Days,
         ~ (p = path_ /\ d = daily_)
  PROVE  BackupsIn(SetAside, p, d) = Backups(p, d)
<1>1. BackupsIn(SetAside, p, d) \subseteq Backups(p, d)
  BY BackupsOfSetAside
<1>2. DOMAIN SetAside = (DOMAIN files \ {Live(path_)}) \cup {PreviousPath}
  BY SetAsideFacts
<1>3. \A n : Backup(p, d, n) # Live(path_)
  BY DEF Backup, Live, Days
<1> QED
  BY <1>1, <1>2, <1>3 DEF Backups, BackupsIn

\* There are names enough: one is free whenever a file has to be set aside.
LEMMA NameIsFree ==
  ASSUME IsFiniteSet(Threads), 2 * Cardinality(Threads) + 1 <= MaxRetry + 2,
         TypeOK, StuckInv, path_ # NoPath, daily_ # 0,
         daily_ < day \/ \E t \in Threads : t \in Before(daily_)
  PROVE  Free # {}
<1> SUFFICES ASSUME Free = {} PROVE FALSE
  OBVIOUS
<1>1. path_ \in Paths /\ daily_ \in Days /\ day \in Nat
  BY LogFileAssumption DEF TypeOK, Days
<1>2. Backups(path_, daily_) = Tried
  BY DEF Free, Backups, BackupsIn
<1>3. PICK d : d = daily_
  OBVIOUS
<1>4. PICK n : n = Cardinality(Threads)
  OBVIOUS
<1>5. PICK w : w = Cardinality(With(daily_))
  OBVIOUS
<1>6. PICK e : e = Cardinality(Before(daily_))
  OBVIOUS
<1>7. n \in Nat /\ w \in Nat /\ e \in Nat /\ d \in Nat /\ MaxRetry \in Nat
  <2>1. w \in Nat /\ e \in Nat
    BY <1>5, <1>6, CountTypes, FewThreads
  <2>2. n \in Nat
    BY <1>4, FS_CardinalityType
  <2>3. d \in Nat
    BY <1>1, <1>3 DEF Days
  <2> QED
    BY <2>1, <2>2, <2>3, LogFileAssumption
<1>8. Cardinality(Backups(path_, daily_)) = MaxRetry + 2
  BY <1>2, FewSuffixes
<1>9. Here(path_, daily_) = 1
  BY DEF Here
<1>10. Count(path_, daily_)
  BY <1>1 DEF StuckInv
<1>11. /\ day = d => (MaxRetry + 2) + e <= n
       /\ day > d => (MaxRetry + 2) + w + 1 <= 2 * n + 1
  BY <1>3, <1>4, <1>5, <1>6, <1>8, <1>9, <1>10 DEF Count
<1>12. 2 * n + 1 <= MaxRetry + 2
  BY <1>4
<1>13. d <= day
  BY <1>3 DEF StuckInv
<1> QED
  BY <1>1, <1>7, <1>11, <1>12, <1>13

LEMMA LineHasName ==
  ASSUME IsFiniteSet(Threads), 2 * Cardinality(Threads) + 1 <= MaxRetry + 2,
         TypeOK, StuckInv, NEW t \in Threads, pc[t] # "idle", NeedsRotation(stamp[t])
  PROVE  Free # {} /\ (daily_ = day => t \in Before(day))
<1>1. stamp[t] <= day /\ daily_ <= day /\ daily_ # stamp[t]
  BY DEF StuckInv, NeedsRotation
<1>2. stamp[t] \in Nat /\ daily_ \in Nat /\ day \in Nat
  BY LogFileAssumption DEF TypeOK, Days
<1>3. daily_ = day => stamp[t] < day
  BY <1>1, <1>2
<1>4. daily_ = day => t \in Before(day)
  BY <1>3 DEF Before
<1>5. daily_ < day \/ daily_ = day
  BY <1>1, <1>2
<1>6. path_ # NoPath /\ daily_ # 0
  BY DEF NeedsRotation
<1> QED
  BY <1>4, <1>5, <1>6, NameIsFree

LEMMA DayHasName ==
  ASSUME IsFiniteSet(Threads), 2 * Cardinality(Threads) + 1 <= MaxRetry + 2,
         TypeOK, StuckInv, NeedsRotation(day)
  PROVE  Free # {} /\ daily_ < day
<1>1. daily_ <= day /\ daily_ # day /\ path_ # NoPath /\ daily_ # 0
  BY DEF StuckInv, NeedsRotation
<1>2. daily_ \in Nat /\ day \in Nat
  BY LogFileAssumption DEF TypeOK, Days
<1>3. daily_ < day
  BY <1>1, <1>2
<1> QED
  BY <1>1, <1>3, NameIsFree

\* The assumption of the theorem: nothing fails, and there are names enough.
Roomy == /\ MayFail = FALSE /\ IsFiniteSet(Threads)
         /\ 2 * Cardinality(Threads) + 1 <= MaxRetry + 2

LEMMA FinishFacts ==
  ASSUME TypeOK, NEW t \in Threads, Finish(t), NEW d
  PROVE  /\ Before(d)' \subseteq Before(d) \ {t} /\ With(d)' \subseteq With(d) \ {t}
         /\ d = stamp[t] => t \in With(d)
         /\ pc[t] # "idle"
<1>1. pc'[t] = "idle" /\ \A u \in Threads : u # t => pc'[u] = pc[u]
  BY DEF Finish, TypeOK
<1>2. stamp' = stamp /\ pc[t] = "locking"
  BY DEF Finish
<1> QED
  BY <1>1, <1>2 DEF Before, With

LEMMA WriteCounts ==
  ASSUME Roomy, Inv, StuckInv, NEW t \in Threads, Write(t)
  PROVE  StuckInv'
<1>1. Finish(t) /\ daily_' = stamp[t] /\ path_' = path_ /\ ofs_' = ofs_ /\ files' = files
      /\ day' = day /\ stamp' = stamp
  BY DEF Write, Finish
<1>2. NeverStuck' /\ daily_' <= day' /\ \A u \in Threads : stamp'[u] <= day'
  BY <1>1 DEF StuckInv, NeverStuck
<1>3. ASSUME NEW p \in Paths, NEW d \in Days
      PROVE  Count(p, d)'
  <2>1. Backups(p, d)' = Backups(p, d) /\ Count(p, d) /\ IsFiniteSet(Threads)
    BY <1>1 DEF Backups, BackupsIn, StuckInv, Roomy
  <2>2. /\ Before(d)' \subseteq Before(d) \ {t} /\ With(d)' \subseteq With(d) \ {t}
        /\ d = stamp[t] => t \in With(d)
    BY <1>1, FinishFacts DEF Inv
  <2>3. CASE d = stamp[t]
    BY <1>1, <2>1, <2>2, <2>3, LineStep
  <2>4. CASE d # stamp[t]
    <3>1. Here(p, d)' = 0 /\ Here(p, d) \in {0, 1}
      BY <1>1, <2>4 DEF Here
    <3> QED
      BY <1>1, <2>1, <2>2, <3>1, CalmStep
  <2> QED
    BY <2>3, <2>4
<1> QED
  BY <1>2, <1>3 DEF StuckInv

LEMMA RotateCounts ==
  ASSUME Roomy, Inv, StuckInv, NEW t \in Threads, Rotate(t)
  PROVE  StuckInv'
<1>1. Finish(t) /\ daily_' = stamp[t] /\ path_' = path_ /\ ofs_' = "open"
      /\ files' = OpenFile(SetAside, path_) /\ day' = day /\ stamp' = stamp
      /\ NeedsRotation(stamp[t]) /\ Free # {}
  BY DEF Rotate, Finish
<1>2. NeverStuck' /\ daily_' <= day' /\ \A u \in Threads : stamp'[u] <= day'
  BY <1>1 DEF StuckInv, NeverStuck
<1>3. daily_ # stamp[t]
  BY <1>1 DEF NeedsRotation
<1>4. ASSUME NEW p \in Paths, NEW d \in Days
      PROVE  Count(p, d)'
  <2>1. Count(p, d) /\ IsFiniteSet(Threads)
    BY DEF StuckInv, Roomy
  <2>2. Backups(p, d)' = BackupsIn(SetAside, p, d)
    BY <1>1, BackupsOfOpen DEF Backups, BackupsIn
  <2>3. /\ Before(d)' \subseteq Before(d) \ {t} /\ With(d)' \subseteq With(d) \ {t}
        /\ d = stamp[t] => t \in With(d)
        /\ pc[t] # "idle"
    BY <1>1, FinishFacts DEF Inv
  <2>4. CASE p = path_ /\ d = daily_
    <3>1. PICK k : Backups(p, d)' \subseteq Backups(p, d) \cup {k}
      BY <1>1, <2>2, <2>4, BackupsOfSetAside
    <3>2. Here(p, d) = 1 /\ Here(p, d)' = 0
      BY <1>1, <1>3, <2>4 DEF Here
    <3>3. day = d => t \in Before(d)
      BY <1>1, <2>3, <2>4, LineHasName DEF Roomy, Inv
    <3>4. day \in Nat /\ d \in Nat
      BY LogFileAssumption DEF Inv, TypeOK, Days
    <3>5. d <= day
      BY <2>4 DEF StuckInv
    <3> QED
      BY <1>1, <2>1, <2>3, <3>1, <3>2, <3>3, <3>4, <3>5, AsideStep
  <2>5. CASE ~ (p = path_ /\ d = daily_)
    <3>1. Backups(p, d)' = Backups(p, d)
      BY <1>1, <2>2, <2>5, BackupsStay
    <3>2. CASE d = stamp[t]
      BY <1>1, <2>1, <2>3, <3>1, <3>2, LineStep
    <3>3. CASE d # stamp[t]
      <4>1. Here(p, d)' = 0 /\ Here(p, d) \in {0, 1}
        BY <1>1, <3>3 DEF Here
      <4> QED
        BY <1>1, <2>1, <2>3, <3>1, <4>1, CalmStep
    <3> QED
      BY <3>2, <3>3
  <2> QED
    BY <2>4, <2>5
<1> QED
  BY <1>2, <1>4 DEF StuckInv

\* A step that neither moves a file nor begins a line.
LEMMA CalmCounts ==
  ASSUME Roomy, Inv, StuckInv, day' = day, stamp' = stamp, NeverStuck', daily_' <= day',
         \A p \in Paths, d \in Days : BackupsIn(files', p, d) = Backups(p, d),
         \A t \in Threads : pc[t] = "idle" => pc'[t] = "idle",
         \A p \in Paths, d \in Days : day > d => Here(p, d)' <= Here(p, d)
  PROVE  StuckInv'
<1>1. ASSUME NEW p \in Paths, NEW d \in Days
      PROVE  Count(p, d)'
  <2>1. Count(p, d) /\ IsFiniteSet(Threads)
    BY DEF StuckInv, Roomy
  <2>2. Backups(p, d)' = Backups(p, d)
    BY DEF Backups, BackupsIn
  <2>3. Before(d)' \subseteq Before(d) /\ With(d)' \subseteq With(d)
    BY DEF Before, With
  <2> QED
    BY <2>1, <2>2, <2>3, CalmStep
<1> QED
  BY <1>1 DEF StuckInv

LEMMA LogStepCounts ==
  ASSUME Roomy, Inv, StuckInv, NEW t \in Threads, LogStep(t)
  PROVE  StuckInv'
<1>1. CASE Write(t)
  BY <1>1, WriteCounts
<1>2. CASE Rotate(t)
  BY <1>2, RotateCounts
<1>3. CASE RotateFailsToRename(t)
  <2>1. pc[t] # "idle" /\ NeedsRotation(stamp[t]) /\ RenameMayThrow
    BY <1>3 DEF RotateFailsToRename, Finish
  <2>2. Free # {}
    BY <2>1, LineHasName DEF Roomy, Inv
  <2> QED
    BY <2>1, <2>2 DEF RenameMayThrow, Roomy
<1>4. CASE RotateFailsToOpen(t)
  BY <1>4 DEF RotateFailsToOpen, Roomy
<1>5. CASE Stamp(t)
  <2>1. pc[t] = "idle" /\ pc' = [pc EXCEPT ![t] = "stamped"]
        /\ stamp' = [stamp EXCEPT ![t] = day] /\ day' = day /\ files' = files
        /\ path_' = path_ /\ daily_' = daily_ /\ ofs_' = ofs_
    BY <1>5 DEF Stamp, stream
  <2>2. day \in Nat /\ \A u \in Threads : stamp[u] \in Nat
    BY LogFileAssumption DEF Inv, TypeOK, Days
  <2>3. \A u \in Threads : stamp'[u] = IF u = t THEN day ELSE stamp[u]
    BY <2>1 DEF Inv, TypeOK
  <2>4. NeverStuck' /\ daily_' <= day' /\ \A u \in Threads : stamp'[u] <= day'
    BY <2>1, <2>2, <2>3 DEF StuckInv, NeverStuck
  <2>5. ASSUME NEW p \in Paths, NEW d \in Days
        PROVE  Count(p, d)'
    <3>1. Count(p, d) /\ IsFiniteSet(Threads) /\ d \in Nat
      BY DEF StuckInv, Roomy, Days
    <3>2. Backups(p, d)' = Backups(p, d) /\ Here(p, d)' = Here(p, d) /\ Here(p, d) \in {0, 1}
      BY <2>1 DEF Backups, BackupsIn, Here
    <3>3. \A u \in Threads : u # t => pc'[u] = pc[u]
      BY <2>1 DEF Inv, TypeOK
    <3>4. day = d => Before(d)' \subseteq Before(d)
      BY <2>1, <2>2, <2>3, <3>1, <3>3 DEF Before
    <3>5. day > d => With(d)' \subseteq With(d)
      BY <2>1, <2>2, <2>3, <3>1, <3>3 DEF With
    <3> QED
      BY <2>1, <3>1, <3>2, <3>4, <3>5, CalmStep
  <2> QED
    BY <2>4, <2>5 DEF StuckInv
<1>6. CASE CheckPath(t)
  <2>1. pc[t] # "idle" /\ (\A u \in Threads : u # t => pc'[u] = pc[u])
        /\ UNCHANGED <<day, files, path_, daily_, ofs_, stamp>>
    BY <1>6 DEF CheckPath, Inv, TypeOK, stream
  <2>2. \A p \in Paths, d \in Days :
          /\ BackupsIn(files', p, d) = Backups(p, d)
          /\ Here(p, d)' = Here(p, d) /\ Here(p, d) \in {0, 1}
    BY <2>1 DEF Backups, BackupsIn, Here
  <2>3. NeverStuck' /\ daily_' <= day'
    BY <2>1 DEF StuckInv, NeverStuck
  <2> QED
    BY <2>1, <2>2, <2>3, CalmCounts
<1>7. CASE Drop(t)
  <2>1. path_ = NoPath /\ daily_' = stamp[t] /\ Finish(t)
        /\ UNCHANGED <<day, files, path_, ofs_, stamp>>
    BY <1>7 DEF Drop, Finish, StuckInv, NeverStuck
  <2>2. NeverStuck' /\ daily_' <= day' /\ \A u \in Threads : stamp'[u] <= day'
    BY <2>1 DEF StuckInv, NeverStuck
  <2>3. ASSUME NEW p \in Paths, NEW d \in Days
        PROVE  Count(p, d)'
    <3>1. Count(p, d) /\ IsFiniteSet(Threads)
      BY DEF StuckInv, Roomy
    <3>2. Backups(p, d)' = Backups(p, d) /\ Here(p, d)' = 0 /\ Here(p, d) \in {0, 1}
      BY <2>1, LogFileAssumption DEF Backups, BackupsIn, Here
    <3>3. Before(d)' \subseteq Before(d) /\ With(d)' \subseteq With(d)
      BY <2>1, FinishFacts DEF Inv
    <3> QED
      BY <2>1, <3>1, <3>2, <3>3, CalmStep
  <2> QED
    BY <2>2, <2>3 DEF StuckInv
<1> QED
  BY <1>1, <1>2, <1>3, <1>4, <1>5, <1>6, <1>7 DEF LogStep

\* set_path() sets the file of an earlier day aside, and its day is over.
LEMMA RotatedCounts ==
  ASSUME Roomy, Inv, StuckInv, NeedsRotation(day) => Free # {},
         day' = day, stamp' = stamp, pc' = pc, NeverStuck', daily_' \in {0, day},
         \A p \in Paths, d \in Days : BackupsIn(files', p, d) = BackupsIn(Rotated, p, d)
  PROVE  StuckInv'
<1>1. day \in Nat /\ daily_ \in Nat
  BY LogFileAssumption DEF Inv, TypeOK, Days
<1>2. \A p \in Paths, d \in Days : day > d => Here(p, d)' = 0 /\ Here(p, d) \in {0, 1}
  BY <1>1 DEF Here, Days
<1>3. daily_' <= day'
  BY <1>1
<1>4. CASE NeedsRotation(day)
  <2>1. Free # {} /\ daily_ < day /\ Rotated = SetAside
    BY <1>4, DayHasName DEF Roomy, Inv, Rotated
  <2>2. ASSUME NEW p \in Paths, NEW d \in Days
        PROVE  Count(p, d)'
    <3>1. Count(p, d) /\ IsFiniteSet(Threads) /\ d \in Nat
      BY DEF StuckInv, Roomy, Days
    <3>2. Before(d)' \subseteq Before(d) /\ With(d)' \subseteq With(d)
      BY DEF Before, With
    <3>3. Backups(p, d)' = BackupsIn(SetAside, p, d)
      BY <2>1 DEF Backups, BackupsIn
    <3>4. CASE p = path_ /\ d = daily_
      <4>1. PICK k : Backups(p, d)' \subseteq Backups(p, d) \cup {k}
        BY <1>4, <2>1, <3>3, <3>4, BackupsOfSetAside
      <4>2. day > d /\ day >= d /\ ~ (day = d)
        BY <1>1, <2>1, <3>4
      <4>3. Here(p, d) = 1 /\ Here(p, d)' = 0
        BY <1>2, <3>4, <4>2 DEF Here
      <4> QED
        BY <1>1, <3>1, <3>2, <4>1, <4>2, <4>3, AsideStep
    <3>5. CASE ~ (p = path_ /\ d = daily_)
      <4>1. Backups(p, d)' = Backups(p, d)
        BY <1>4, <2>1, <3>3, <3>5, BackupsStay
      <4> QED
        BY <1>2, <3>1, <3>2, <4>1, CalmStep
    <3> QED
      BY <3>4, <3>5
  <2> QED
    BY <1>3, <2>2 DEF StuckInv
<1>5. CASE ~ NeedsRotation(day)
  <2>1. \A p \in Paths, d \in Days : BackupsIn(files', p, d) = Backups(p, d)
    BY <1>5, BackupsOfClosed DEF Rotated
  <2> QED
    BY <1>2, <1>3, <2>1, CalmCounts
<1> QED
  BY <1>4, <1>5

LEMMA CountInit == ASSUME Roomy PROVE Init => StuckInv
<1> SUFFICES ASSUME Init PROVE StuckInv
  OBVIOUS
<1>1. NeverStuck /\ daily_ <= day /\ \A t \in Threads : stamp[t] <= day
  BY DEF Init, NeverStuck
<1>2. ASSUME NEW p \in Paths, NEW d \in Days
      PROVE  Count(p, d)
  <2>1. Backups(p, d) = {} /\ Before(d) = {} /\ With(d) = {}
    BY DEF Init, Backups, BackupsIn, Before, With
  <2>2. Here(p, d) = 0
    BY LogFileAssumption DEF Init, Here
  <2>3. Cardinality(Threads) \in Nat
    BY FS_CardinalityType DEF Roomy
  <2>4. Cardinality({}) = 0
    BY FS_EmptySet
  <2> QED
    BY <2>1, <2>2, <2>3, <2>4 DEF Count
<1> QED
  BY <1>1, <1>2 DEF StuckInv

LEMMA CountStep ==
  ASSUME Roomy PROVE Inv /\ StuckInv /\ [Next]_vars => StuckInv'
<1> SUFFICES ASSUME Inv, StuckInv, [Next]_vars PROVE StuckInv'
  OBVIOUS
<1>1. CASE Tick
  <2>1. day' = day + 1 /\ UNCHANGED <<files, path_, daily_, ofs_, pc, stamp>>
    BY <1>1 DEF Tick, stream
  <2>2. day \in Nat /\ daily_ \in Nat /\ \A t \in Threads : stamp[t] \in Nat
    BY LogFileAssumption DEF Inv, TypeOK, Days
  <2>3. NeverStuck'
    BY <2>1 DEF StuckInv, NeverStuck
  <2>4. daily_' <= day' /\ \A t \in Threads : stamp'[t] <= day'
    BY <2>1, <2>2 DEF StuckInv
  <2>5. ASSUME NEW p \in Paths, NEW d \in Days
        PROVE  Count(p, d)'
    <3>1. Count(p, d) /\ IsFiniteSet(Threads) /\ d \in Nat
      BY DEF StuckInv, Roomy, Days
    <3>2. Backups(p, d)' = Backups(p, d) /\ Before(d)' = Before(d)
          /\ With(d)' = With(d) /\ Here(p, d)' = Here(p, d)
      BY <2>1 DEF Backups, BackupsIn, Before, With, Here
    <3> QED
      BY <2>1, <2>2, <3>1, <3>2, DayEnds
  <2> QED
    BY <2>3, <2>4, <2>5 DEF StuckInv
<1>2. CASE Flush
  <2>1. UNCHANGED <<day, path_, daily_, ofs_, pc, stamp>> /\ files' = Closed
    BY <1>2 DEF Flush
  <2>2. \A p \in Paths, d \in Days :
          /\ BackupsIn(files', p, d) = Backups(p, d)
          /\ Here(p, d)' = Here(p, d) /\ Here(p, d) \in {0, 1}
    BY <2>1, BackupsOfClosed DEF Here
  <2>3. NeverStuck' /\ daily_' <= day'
    BY <2>1 DEF StuckInv, NeverStuck
  <2> QED
    BY <2>1, <2>2, <2>3, CalmCounts
<1>3. CASE StreamFails
  BY <1>3 DEF StreamFails, Roomy
<1>4. CASE Restart
  <2>1. /\ UNCHANGED <<day, stamp>> /\ path_' = NoPath /\ daily_' = 0
        /\ files' = Closed \/ files' = files
        /\ \A t \in Threads : pc'[t] = "idle"
    BY <1>4 DEF Restart
  <2>2. \A p \in Paths, d \in Days :
          /\ BackupsIn(files', p, d) = Backups(p, d)
          /\ Here(p, d)' = 0 /\ Here(p, d) \in {0, 1}
    BY <2>1, BackupsOfClosed, LogFileAssumption DEF Here, Backups
  <2>3. NeverStuck' /\ daily_' <= day'
    BY <2>1 DEF NeverStuck, Inv, TypeOK, Days
  <2> QED
    BY <2>1, <2>2, <2>3, CalmCounts
<1>5. ASSUME NEW t \in Threads, LogStep(t)
      PROVE  StuckInv'
  BY <1>5, LogStepCounts
<1>6. ASSUME NEW p \in Paths, NEW daily \in Modes, SetPath(p, daily)
      PROVE  StuckInv'
  <2>1. /\ NeedsRotation(day) => Free # {}
        /\ UNCHANGED <<day, stamp, pc>> /\ files' = OpenFile(Rotated, p)
        /\ ofs_' = "open" /\ daily_' \in {0, day}
    BY <1>6 DEF SetPath, Untouched
  <2>2. \A q \in Paths, d \in Days : BackupsIn(files', q, d) = BackupsIn(Rotated, q, d)
    BY <2>1, BackupsOfOpen
  <2> QED
    BY <2>1, <2>2, RotatedCounts DEF NeverStuck
<1>7. ASSUME NEW p \in Paths \cup {NoPath}, StopFile(p)
      PROVE  StuckInv'
  <2>1. /\ NeedsRotation(day) => Free # {}
        /\ UNCHANGED <<day, stamp, pc>> /\ files' = Rotated
        /\ path_' = NoPath /\ daily_' = 0
    BY <1>7 DEF StopFile, Untouched
  <2> QED
    BY <2>1, RotatedCounts DEF NeverStuck
<1>8. CASE SetPathThrows
  <2>1. NeedsRotation(day) /\ RenameMayThrow
    BY <1>8 DEF SetPathThrows
  <2> QED
    BY <2>1, DayHasName DEF RenameMayThrow, Roomy, Inv
<1>9. CASE UNCHANGED vars
  <2>1. UNCHANGED <<day, files, path_, daily_, ofs_, pc, stamp>>
    BY <1>9 DEF vars, stream
  <2>2. \A p \in Paths, d \in Days :
          /\ BackupsIn(files', p, d) = Backups(p, d)
          /\ Here(p, d)' = Here(p, d) /\ Here(p, d) \in {0, 1}
    BY <2>1 DEF Backups, BackupsIn, Here
  <2>3. NeverStuck' /\ daily_' <= day'
    BY <2>1 DEF StuckInv, NeverStuck
  <2> QED
    BY <2>1, <2>2, <2>3, CalmCounts
<1> QED
  BY <1>1, <1>2, <1>3, <1>4, <1>5, <1>6, <1>7, <1>8, <1>9 DEF Next

(* While the file system refuses nothing, a logger that has a path never loses  *)
(* its stream for want of a name: MAX_RETRY + 2 names are enough for a logger    *)
(* whose lines come from at most (MAX_RETRY + 1) / 2 threads at a time, however  *)
(* late they bring them, and whatever paths and modes the program asks for.      *)
THEOREM NeverStuckCorrect ==
  ASSUME MayFail = FALSE, IsFiniteSet(Threads),
         2 * Cardinality(Threads) + 1 <= MaxRetry + 2
  PROVE  Spec => []NeverStuck
<1>1. Roomy
  BY DEF Roomy
<1>2. Init => StuckInv
  BY <1>1, CountInit
<1>3. Inv /\ StuckInv /\ [Next]_vars => StuckInv'
  BY <1>1, CountStep
<1>4. StuckInv => NeverStuck
  BY DEF StuckInv
<1> QED
  BY <1>2, <1>3, <1>4, Invariant, PTL DEF Spec
=============================================================================
