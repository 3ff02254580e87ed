------------------------------- MODULE LogFile -------------------------------
(***************************************************************************)
(* The file of one xxx::log::logger_t (src/logger.cxx, lines 50-265):      *)
(* threads append lines to it, set_path() opens, changes or stops it, and  *)
(* a daily file is set aside under the day it was written on.              *)
(*                                                                         *)
(* All of it but two reads runs under file_mutex_, so that the part of a   *)
(* call under the mutex is one step. The two reads come before: log_()     *)
(* takes its time stamp, and then looks whether there is a path at all.    *)
(*                                                                         *)
(* The file system belongs to the environment: an open or a rename fails   *)
(* or not, and the file stream keeps lines in a buffer that reaches the    *)
(* disk at any time. No other program or logger touches these files.       *)
(***************************************************************************)
EXTENDS Naturals, FiniteSets

CONSTANTS Threads,      \* the threads that log
          Paths,        \* the paths the program logs to
          NoPath,       \* the empty path: no log file
          Modes,        \* the values of daily that the program asks for
          MaxRetry,     \* MAX_RETRY: the last suffix tried for a backup
          MayFail,      \* can an open, a rename or a write fail?
          Resumes,      \* is a file that is there already taken up again?
          MaxDay,       \* bound: the days of the run
          MaxLines,     \* bound: no line is begun beyond so many
          MaxRestarts   \* bound: how often the program is started again

ASSUME LogFileAssumption == /\ NoPath \notin Paths
                            /\ Modes \subseteq BOOLEAN
                            /\ MayFail \in BOOLEAN /\ Resumes \in BOOLEAN
                            /\ {MaxRetry, MaxDay, MaxLines, MaxRestarts} \subseteq Nat
                            /\ MaxDay # 0

VARIABLES day,      \* the local date
          files,    \* the files that exist, by name, and their lines
          path_,
          daily_,   \* the date of daily_, or 0 for nullopt
          ofs_,     \* the stream: "closed", "open", or "bad" after an error
          buffer,   \* lines in the buffer of the stream
          pc,       \* where each thread is: "idle", "stamped" or "locking"
          stamp,    \* the time stamp lt of the line a thread logs
          written,  \* how many lines went into the stream: they are 1 .. written
          lost,     \* history: lines lost with a buffer that did not reach the disk
          restarts

stream == <<path_, daily_, ofs_, buffer>>
vars   == <<day, files, stream, pc, stamp, written, lost, restarts>>

Days  == 1 .. MaxDay
Lines == [id : Nat, stamp : Days]

\* A backup has a date, and n = 0 for none or n = k + 1 for the suffix ".k".
Live(p)         == [path |-> p, day |-> 0, n |-> 0]
Backup(p, d, n) == [path |-> p, day |-> d, n |-> n]
Names == [path : Paths, day : 0 .. MaxDay, n : 0 .. MaxRetry + 1]

TypeOK == /\ day \in Days
          /\ DOMAIN files \in SUBSET Names
          /\ \A f \in DOMAIN files : files[f] \in SUBSET Lines
          /\ path_ \in Paths \cup {NoPath}
          /\ daily_ \in 0 .. MaxDay
          /\ ofs_ \in {"closed", "open", "bad"}
          /\ buffer \in SUBSET Lines /\ lost \in SUBSET Lines
          /\ pc \in [Threads -> {"idle", "stamped", "locking"}]
          /\ stamp \in [Threads -> Days]
          /\ written \in Nat /\ restarts \in Nat

Init == /\ day = 1 /\ files = [f \in {} |-> {}]
        /\ path_ = NoPath /\ daily_ = 0 /\ ofs_ = "closed" /\ buffer = {}
        /\ pc = [t \in Threads |-> "idle"] /\ stamp = [t \in Threads |-> 1]
        /\ written = 0 /\ lost = {} /\ restarts = 0
-----------------------------------------------------------------------------
(* The file system and the stream. *)

Rename(fs, from, to) ==
  [f \in (DOMAIN fs \ {from}) \cup {to} |-> IF f = to THEN fs[from] ELSE fs[f]]

\* Mutant: the file is opened without std::ios::app.
TruncateFile(fs, p) ==
  [f \in DOMAIN fs \cup {Live(p)} |-> IF f # Live(p) THEN fs[f] ELSE {}]

\* std::ios::app: an existing file keeps its lines.
OpenFile(fs, p) ==
  [f \in DOMAIN fs \cup {Live(p)} |-> IF f \in DOMAIN fs THEN fs[f] ELSE {}]

\* Closing the stream brings its buffer to the disk.
Closed == [f \in DOMAIN files |-> IF path_ # NoPath /\ f = Live(path_)
                                  THEN files[f] \cup buffer ELSE files[f]]

\* Mutant: only a later date makes a rotation.
NeedsRotationForward(lt) ==
  /\ daily_ # 0 /\ daily_ < lt
  /\ path_ # NoPath /\ Live(path_) \in DOMAIN files

NeedsRotation(lt) ==
  /\ daily_ # 0 /\ daily_ # lt
  /\ path_ # NoPath /\ Live(path_) \in DOMAIN files

\* Mutants: the limit is tested one suffix too early, or too late.
TriedLess == 0 .. MaxRetry
TriedMore == 0 .. MaxRetry + 2

\* get_previous_path_(): the suffixes tried, in this order, and those still free.
Tried == 0 .. MaxRetry + 1

\* Mutant: the search takes the last name without looking for it.
FreeUnlooked ==
  {n \in Tried : Backup(path_, daily_, n) \notin DOMAIN files} \cup {MaxRetry + 1}

Free  == {n \in Tried : Backup(path_, daily_, n) \notin DOMAIN files}
PreviousPath == Backup(path_, daily_, CHOOSE n \in Free : \A m \in Free : n <= m)

SetAside == Rename(Closed, Live(path_), PreviousPath)

\* It throws when no name is free, or when the file system refuses.
RenameMayThrow == Free = {} \/ MayFail
-----------------------------------------------------------------------------
Tick == /\ day < MaxDay
        /\ day' = day + 1
        /\ UNCHANGED <<files, stream, pc, stamp, written, lost, restarts>>

\* The stream writes its buffer to the disk when it likes.
Flush == /\ ofs_ = "open" /\ buffer # {}
         /\ files' = Closed
         /\ buffer' = {}
         /\ UNCHANGED <<day, path_, daily_, ofs_, pc, stamp, written, lost, restarts>>

\* The disk is full: what was buffered may be gone, and the stream stays bad until
\* it is reopened, even if there is room again.
StreamFails == /\ MayFail
               /\ ofs_ = "open"
               /\ ofs_' = "bad"
               /\ \/ UNCHANGED <<buffer, lost>>
                  \/ buffer' = {} /\ lost' = lost \cup buffer
               /\ UNCHANGED <<day, files, path_, daily_, pc, stamp, written, restarts>>

\* log_() takes the time before it takes any lock.
Stamp(t) == /\ pc[t] = "idle"
            /\ written < MaxLines
            /\ pc' = [pc EXCEPT ![t] = "stamped"]
            /\ stamp' = [stamp EXCEPT ![t] = day]
            /\ UNCHANGED <<day, files, stream, written, lost, restarts>>

\* if (! path_.empty()), read without the mutex.
CheckPath(t) ==
  /\ pc[t] = "stamped"
  /\ pc' = [pc EXCEPT ![t] = IF path_ = NoPath THEN "idle" ELSE "locking"]
  /\ UNCHANGED <<day, files, stream, stamp, written, lost, restarts>>

Finish(t) == /\ pc[t] = "locking"
             /\ pc' = [pc EXCEPT ![t] = "idle"]
             /\ UNCHANGED <<day, stamp, restarts>>

Line(t) == [id |-> written + 1, stamp |-> stamp[t]]

\* No rotation: the date is stored, and the line goes into the stream.
Write(t) ==
  /\ Finish(t)
  /\ ~NeedsRotation(stamp[t])
  /\ ofs_ = "open"
  /\ daily_' = stamp[t]
  /\ buffer' = buffer \cup {Line(t)}
  /\ written' = written + 1
  /\ UNCHANGED <<files, path_, ofs_, lost>>

\* The stream is closed or bad: the line is dropped without a word.
Drop(t) ==
  /\ Finish(t)
  /\ ~NeedsRotation(stamp[t])
  /\ ofs_ # "open"
  /\ daily_' = stamp[t]
  /\ UNCHANGED <<files, path_, ofs_, buffer, written, lost>>

Rotate(t) ==
  /\ Finish(t)
  /\ NeedsRotation(stamp[t]) /\ Free # {}
  /\ files' = OpenFile(SetAside, path_)
  /\ daily_' = stamp[t]
  /\ ofs_' = "open"
  /\ buffer' = {Line(t)}
  /\ written' = written + 1
  /\ UNCHANGED <<path_, lost>>

\* The exception of the rename is ignored: the stream is closed, the line is
\* dropped, and the next line tries again.
RotateFailsToRename(t) ==
  /\ Finish(t)
  /\ NeedsRotation(stamp[t]) /\ RenameMayThrow
  /\ files' = Closed
  /\ ofs_' = "closed" /\ buffer' = {}
  /\ UNCHANGED <<path_, daily_, written, lost>>

\* So is the exception of the open, but the logger has no file any more.
RotateFailsToOpen(t) ==
  /\ MayFail
  /\ Finish(t)
  /\ NeedsRotation(stamp[t]) /\ Free # {}
  /\ files' = SetAside
  /\ path_' = NoPath /\ daily_' = 0 /\ ofs_' = "closed" /\ buffer' = {}
  /\ UNCHANGED <<written, lost>>
-----------------------------------------------------------------------------
(* set_path(p, daily), under the mutex from its first line to its last. *)

\* The files after the part of set_path() that precedes the open.
Rotated == IF NeedsRotation(day) THEN SetAside ELSE Closed

Untouched == UNCHANGED <<day, pc, stamp, written, lost, restarts>>

SetPath(p, daily) ==
  /\ NeedsRotation(day) => Free # {}
  /\ Resumes \/ p = path_ \/ Live(p) \notin DOMAIN files
  /\ files' = OpenFile(Rotated, p)
  /\ path_' = p
  /\ daily_' = IF daily THEN day ELSE 0
  /\ ofs_' = "open" /\ buffer' = {}
  /\ Untouched

\* set_path(""), or an open that fails and throws: no log file from now on.
StopFile(p) ==
  /\ p = NoPath \/ MayFail
  /\ NeedsRotation(day) => Free # {}
  /\ files' = Rotated
  /\ path_' = NoPath /\ daily_' = 0 /\ ofs_' = "closed" /\ buffer' = {}
  /\ Untouched

\* The rename throws out of set_path(): only the stream was closed.
SetPathThrows ==
  /\ NeedsRotation(day) /\ RenameMayThrow
  /\ files' = Closed
  /\ ofs_' = "closed" /\ buffer' = {}
  /\ UNCHANGED <<path_, daily_>>
  /\ Untouched

\* The program ends, or crashes with its buffer, and is started again.
Restart ==
  /\ restarts < MaxRestarts
  /\ restarts' = restarts + 1
  /\ \/ files' = Closed /\ UNCHANGED lost
     \/ lost' = lost \cup buffer /\ UNCHANGED files
  /\ path_' = NoPath /\ daily_' = 0 /\ ofs_' = "closed" /\ buffer' = {}
  /\ pc' = [t \in Threads |-> "idle"]
  /\ UNCHANGED <<day, stamp, written>>
-----------------------------------------------------------------------------
LogStep(t) == \/ Stamp(t) \/ CheckPath(t)
              \/ Write(t) \/ Drop(t)
              \/ Rotate(t) \/ RotateFailsToRename(t) \/ RotateFailsToOpen(t)

Next == \/ Tick \/ Flush \/ StreamFails \/ Restart
        \/ \E t \in Threads : LogStep(t)
        \/ \E p \in Paths, daily \in Modes : SetPath(p, daily)
        \/ \E p \in Paths \cup {NoPath} : StopFile(p)
        \/ SetPathThrows

Spec == Init /\ [][Next]_vars
-----------------------------------------------------------------------------
Ids(lines) == {l.id : l \in lines}

(* Every line that went into the stream is in exactly one place: one file,  *)
(* the buffer, or among the lines that went down with a buffer. A rotation, *)
(* a change of path or a restart neither overwrites nor copies a line.      *)
Conserved ==
  /\ \A f, g \in DOMAIN files : f # g => Ids(files[f]) \cap Ids(files[g]) = {}
  /\ \A f \in DOMAIN files : Ids(files[f]) \cap Ids(buffer \cup lost) = {}
  /\ Ids(buffer) \cap Ids(lost) = {}
  /\ (UNION {Ids(files[f]) : f \in DOMAIN files}) \cup Ids(buffer \cup lost)
       = 1 .. written

(* What the logger promises: a line that has reached the disk stays there,  *)
(* through rotations, changes of path, failures and crashes, and whatever   *)
(* is in the buffer comes to the disk, or goes down, as a whole.            *)
Contract == INSTANCE LogContract
              WITH stored <- UNION {Ids(files[f]) : f \in DOMAIN files},
                   lost   <- Ids(lost)

ContractSpec == Contract!Spec

(* A file that was set aside is never written, replaced or removed again:   *)
(* no later rotation takes its name, and no line goes to it.                *)
BackupsAreFinal ==
  [][\A f \in DOMAIN files :
       f.day # 0 => f \in DOMAIN files' /\ files'[f] = files[f]]_vars

(* A file that was set aside under a date holds lines of that date and of   *)
(* no other, although log_() stamps its line before it takes the mutex and  *)
(* lines of yesterday still arrive when today's file is open.               *)
BackupIsOfItsDay ==
  \A f \in DOMAIN files : f.day # 0 => \A l \in files[f] : l.stamp = f.day

(* A logger that has a path has a stream that takes its lines. It is about  *)
(* the names of the backups: a line of yesterday that comes after midnight  *)
(* sets a file aside, and the next line sets another one aside, so that one *)
(* day may need 2 * Cardinality(Threads) + 1 names. Without a free one each *)
(* line and each set_path() fails from then on.                             *)
NeverStuck == path_ # NoPath => ofs_ = "open"

(* A program that only ever asks for a single file gets a single file.      *)
SingleFileIsKept ==
  Modes = {FALSE} => \A f \in DOMAIN files : f.day = 0
=============================================================================
