---------------------------- MODULE DatabaseProofs ----------------------------
(* Theorems about Database, for any bounds: the machine of SQLite first, and  *)
(* then the program.                                                          *)
EXTENDS Database, TLAPS

\* What every call of the API keeps of a machine. Runs are numbered upwards; what
\* is committed is there; a run that has rows left is not committed yet.
MachineOK(n) ==
  /\ n \in Machines
  /\ n.stored \subseteq n.data
  /\ n.data \subseteq 1 .. n.run
  /\ n.vm = "row" => n.run \notin n.stored /\ (n.writes \/ n.run \notin n.data)

\* The runs that write between one machine and a later one.
Written(n, o) == IF n.writes THEN (n.run + 1) .. o.run ELSE {}

\* No call makes changes but by new runs of a writing statement, and none takes
\* back what is committed.
Follows(n, o) ==
  /\ MachineOK(o)
  /\ o.run >= n.run /\ o.writes = n.writes
  /\ n.stored \subseteq o.stored
  /\ o.data \subseteq n.data \cup Written(n, o)

\* In a transaction nothing is committed, and what goes well is kept.
Kept(n, o, rc) ==
  ~n.auto => /\ o.stored = n.stored
             /\ rc # "error" =>
                  /\ ~o.auto
                  /\ n.data \cup Written(n, o) \subseteq o.data

Codes == {"row", "done", "error"}

\* What a call that steps the statement may result in.
Sound(n, r) == /\ r.rc \in Codes
               /\ Follows(n, r.m) /\ Kept(n, r.m, r.rc)
               /\ r.rc = "error" => r.m.vm # "row"
-----------------------------------------------------------------------------
\* The fields that one machine has as another.
SameData(n, o) == o.data = n.data /\ o.stored = n.stored /\ o.auto = n.auto
SameRun(n, o)  == o.run = n.run /\ o.writes = n.writes

LEMMA RolledBackFields ==
  ASSUME NEW n \in Machines
  PROVE  LET o == RolledBack(n) IN
         /\ o \in Machines /\ SameRun(n, o) /\ o.vm = n.vm /\ o.row = n.row
         /\ o.data = n.stored /\ o.stored = n.stored /\ o.auto = TRUE
BY DEF Machines, RolledBack, SameRun

LEMMA CommittedFields ==
  ASSUME NEW n \in Machines
  PROVE  LET o == Committed(n) IN
         /\ o \in Machines /\ SameRun(n, o) /\ o.vm = n.vm /\ o.row = n.row
         /\ o.data = n.data /\ o.stored = n.data /\ o.auto = TRUE
BY DEF Machines, Committed, SameRun

LEMMA VmFields ==
  ASSUME NEW n \in Machines, NEW v \in {"ready", "row", "done", "failed"}
  PROVE  LET o == [n EXCEPT !.vm = v] IN
         /\ o \in Machines /\ SameRun(n, o) /\ SameData(n, o)
         /\ o.vm = v /\ o.row = n.row
BY DEF Machines, SameRun, SameData

LEMMA BegunOK ==
  ASSUME NEW n, MachineOK(n)
  PROVE  LET b == Begun(n) IN
         /\ Follows(n, b) /\ b.auto = n.auto /\ b.stored = n.stored
         /\ b.vm = "row"
         /\ b.run = IF n.vm = "row" THEN n.run ELSE n.run + 1
         /\ b.row = IF n.vm = "row" THEN n.row ELSE 0
         /\ n.data \cup Written(n, b) \subseteq b.data
<1>1. CASE n.vm = "row"
  BY <1>1 DEF MachineOK, Machines, Begun, Follows, Written
<1>2. CASE n.vm # "row"
  <2> DEFINE b == Begun(n)
  <2>1. /\ n.run \in Nat /\ n.data \in SUBSET Nat /\ n.stored \in SUBSET Nat
        /\ n.writes \in BOOLEAN /\ 0 \in 0 .. MaxRows
    BY SqliteAssumption DEF MachineOK, Machines
  <2>2. b = [n EXCEPT !.vm = "row", !.row = 0, !.run = @ + 1,
                      !.data = IF n.writes THEN @ \cup {n.run + 1} ELSE @]
    BY <1>2 DEF Begun
  <2>3. /\ b.vm = "row" /\ b.row = 0 /\ b.run = n.run + 1
        /\ b.data = (IF n.writes THEN n.data \cup {n.run + 1} ELSE n.data)
        /\ b.writes = n.writes /\ b.stored = n.stored /\ b.auto = n.auto
    BY <2>2 DEF MachineOK, Machines
  <2>4. b \in Machines
    <3>1. \A d \in SUBSET Nat :
            [n EXCEPT !.vm = "row", !.row = 0, !.run = @ + 1, !.data = d] \in Machines
      <4> TAKE d \in SUBSET Nat
      <4>1. n \in Machines /\ n.run + 1 \in Nat
        BY <2>1 DEF MachineOK
      <4>2. [n EXCEPT !.vm = "row"] \in Machines
        BY <4>1 DEF Machines
      <4>3. \A o \in Machines : [o EXCEPT !.row = 0] \in Machines
        BY <2>1 DEF Machines
      <4>4. \A o \in Machines : \A k \in Nat : [o EXCEPT !.run = k] \in Machines
        BY DEF Machines
      <4>5. \A o \in Machines : [o EXCEPT !.data = d] \in Machines
        BY DEF Machines
      <4> QED
        BY <4>1, <4>2, <4>3, <4>4, <4>5
    <3>2. (IF n.writes THEN n.data \cup {n.run + 1} ELSE n.data) \in SUBSET Nat
      BY <2>1
    <3> QED
      BY <2>2, <3>1, <3>2
  <2>5. (n.run + 1) .. b.run = {n.run + 1}
    BY <2>1, <2>3
  <2>6. /\ n.data \subseteq 1 .. n.run /\ n.stored \subseteq n.data
    BY DEF MachineOK
  <2>7. /\ b.stored \subseteq b.data /\ b.data \subseteq 1 .. b.run
        /\ b.run \notin b.stored
    BY <2>1, <2>3, <2>6
  <2> QED
    BY <1>2, <2>1, <2>3, <2>4, <2>5, <2>7 DEF MachineOK, Follows, Written
<1> QED
  BY <1>1, <1>2

LEMMA HaltedOK ==
  ASSUME NEW b, MachineOK(b), b.vm = "row", NEW r \in Halted(b)
  PROVE  /\ Sound(b, r) /\ r.rc # "row"
         /\ SameRun(b, r.m) /\ r.m.row = b.row
         /\ r.m.vm # "row" /\ r.m.data \subseteq b.data
<1>1. b \in Machines /\ b.stored \subseteq b.data
  BY DEF MachineOK
<1>2. CASE b.auto /\ r = Result([Committed(b) EXCEPT !.vm = "done"], "done")
  <2> DEFINE c == Committed(b)
             o == [c EXCEPT !.vm = "done"]
  <2>c. /\ c \in Machines /\ SameRun(b, c) /\ c.row = b.row
        /\ c.data = b.data /\ c.stored = b.data
    BY <1>1, CommittedFields
  <2> HIDE DEF c
  <2>1. /\ o \in Machines /\ SameRun(b, o) /\ o.vm = "done" /\ o.row = b.row
        /\ o.data = b.data /\ o.stored = b.data
    BY <2>c, VmFields DEF SameRun, SameData
  <2>2. r.m = o /\ r.rc = "done"
    BY <1>2 DEF Result, c
  <2> QED
    BY <1>1, <1>2, <2>1, <2>2 DEF MachineOK, Machines, Sound, Follows, Kept, Written, Codes, SameRun
<1>3. CASE b.auto /\ r = Result([RolledBack(b) EXCEPT !.vm = "failed"], "error")
  <2> DEFINE c == RolledBack(b)
             o == [c EXCEPT !.vm = "failed"]
  <2>c. /\ c \in Machines /\ SameRun(b, c) /\ c.row = b.row
        /\ c.data = b.stored /\ c.stored = b.stored
    BY <1>1, RolledBackFields
  <2> HIDE DEF c
  <2>1. /\ o \in Machines /\ SameRun(b, o) /\ o.vm = "failed" /\ o.row = b.row
        /\ o.data = b.stored /\ o.stored = b.stored
    BY <2>c, VmFields DEF SameRun, SameData
  <2>2. r.m = o /\ r.rc = "error"
    BY <1>3 DEF Result, c
  <2> QED
    BY <1>1, <1>3, <2>1, <2>2 DEF MachineOK, Machines, Sound, Follows, Kept, Written, Codes, SameRun
<1>4. CASE ~b.auto /\ r = Result([b EXCEPT !.vm = "done"], "done")
  <2> DEFINE o == [b EXCEPT !.vm = "done"]
  <2>1. /\ o \in Machines /\ SameRun(b, o) /\ SameData(b, o)
        /\ o.vm = "done" /\ o.row = b.row
    BY <1>1, VmFields
  <2>2. r.m = o /\ r.rc = "done"
    BY <1>4 DEF Result
  <2> QED
    BY <1>1, <1>4, <2>1, <2>2
       DEF MachineOK, Machines, Sound, Follows, Kept, Written, Codes, SameRun, SameData
<1> QED
  BY <1>2, <1>3, <1>4 DEF Halted

LEMMA FailedOK ==
  ASSUME NEW b, MachineOK(b), b.vm = "row", NEW r \in Failed(b)
  PROVE  Sound(b, r) /\ r.rc = "error" /\ SameRun(b, r.m) /\ r.m.vm # "row"
<1> DEFINE undone == [b EXCEPT !.data = @ \ {b.run}]
           left == IF b.auto THEN {RolledBack(b), Committed(b)}
                   ELSE {RolledBack(b), undone, b}
<1>1. b \in Machines /\ b.stored \subseteq b.data
  BY DEF MachineOK
<1>2. PICK n \in left : r = Result([n EXCEPT !.vm = "failed"], "error")
  BY DEF Failed
<1>3. r.m = [n EXCEPT !.vm = "failed"] /\ r.rc = "error"
  BY <1>2 DEF Result
<1>4. /\ undone \in Machines /\ SameRun(b, undone) /\ undone.data = b.data \ {b.run}
      /\ undone.stored = b.stored
  BY <1>1 DEF Machines, SameRun
<1>5. /\ n \in Machines /\ SameRun(b, n) /\ n.data \subseteq b.data
      /\ b.stored \subseteq n.stored /\ n.stored \subseteq n.data
      /\ ~b.auto => n.stored = b.stored
  <2>1. CASE n = RolledBack(b)
    BY <1>1, <2>1, RolledBackFields
  <2>2. CASE n = Committed(b) /\ b.auto
    BY <1>1, <2>2, CommittedFields
  <2>3. CASE n = b
    BY <1>1, <2>3 DEF SameRun
  <2>4. CASE n = undone
    <3>1. CASE b.writes
      BY <1>1, <1>4, <2>4, <3>1 DEF MachineOK
    <3>2. CASE ~b.writes
      BY <1>1, <1>4, <2>4, <3>2 DEF MachineOK
    <3> QED
      BY <3>1, <3>2
  <2> QED
    BY <2>1, <2>2, <2>3, <2>4
<1>6. r.m \in Machines /\ SameRun(n, r.m) /\ SameData(n, r.m) /\ r.m.vm = "failed"
  BY <1>3, <1>5, VmFields
<1> QED
  BY <1>1, <1>3, <1>5, <1>6
     DEF MachineOK, Machines, Sound, Follows, Kept, Written, Codes, SameRun, SameData

\* A call that goes on after one that went well.
LEMMA SoundThen ==
  ASSUME NEW n, NEW s, NEW r, MachineOK(n),
         Sound(n, s), s.rc # "error", Sound(s.m, r)
  PROVE  Sound(n, r)
<1>1. /\ n.run \in Nat /\ s.m.run \in Nat /\ r.m.run \in Nat
      /\ n.run <= s.m.run /\ s.m.run <= r.m.run
  BY DEF MachineOK, Machines, Sound, Follows
<1>2. Written(n, r.m) = Written(n, s.m) \cup Written(s.m, r.m)
  BY <1>1 DEF Written, Sound, Follows
<1> QED
  BY <1>1, <1>2 DEF Sound, Follows, Kept

LEMMA StepOK ==
  ASSUME NEW n, MachineOK(n), NEW r \in StepOf(n)
  PROVE  LET row == IF n.vm = "row" THEN n.row ELSE 0 IN
         /\ Sound(n, r)
         /\ r.m.run = IF n.vm = "row" THEN n.run ELSE n.run + 1
         /\ r.rc = "row"  => r.m.vm = "row" /\ r.m.row = row + 1
         /\ r.rc = "done" => r.m.row = row
<1> DEFINE b == Begun(n)
<1>1. /\ Follows(n, b) /\ b.auto = n.auto /\ b.stored = n.stored
      /\ b.vm = "row"
      /\ b.run = IF n.vm = "row" THEN n.run ELSE n.run + 1
      /\ b.row = IF n.vm = "row" THEN n.row ELSE 0
      /\ n.data \cup Written(n, b) \subseteq b.data
  BY BegunOK
<1>2. r \in Halted(b) \cup Failed(b)
              \cup {Result([b EXCEPT !.row = k], "row") : k \in {b.row + 1} \cap 0 .. MaxRows}
  BY DEF StepOf
<1> HIDE DEF b
<1>3. Sound(n, Result(b, "row"))
  BY <1>1 DEF Sound, Kept, Codes, Result
<1>4. MachineOK(b)
  BY <1>1 DEF Follows
<1>5. Result(b, "row").m = b /\ Result(b, "row").rc # "error"
  BY DEF Result
<1>6. CASE r \in Halted(b)
  BY <1>1, <1>3, <1>4, <1>5, <1>6, HaltedOK, SoundThen DEF SameRun
<1>7. CASE r \in Failed(b)
  BY <1>1, <1>3, <1>4, <1>5, <1>7, FailedOK, SoundThen DEF SameRun
<1>8. CASE \E k \in {b.row + 1} \cap 0 .. MaxRows : r = Result([b EXCEPT !.row = k], "row")
  <2>1. PICK k \in 0 .. MaxRows : /\ k = b.row + 1
                                  /\ r = Result([b EXCEPT !.row = k], "row")
    BY <1>8
  <2>2. r.m = [b EXCEPT !.row = k] /\ r.rc = "row"
    BY <2>1 DEF Result
  <2>3. /\ r.m \in Machines /\ SameRun(b, r.m) /\ SameData(b, r.m)
        /\ r.m.vm = "row" /\ r.m.row = k
    BY <1>1, <1>4, <2>2 DEF MachineOK, Machines, SameRun, SameData
  <2>4. Sound(b, r)
    BY <1>1, <1>4, <2>2, <2>3
       DEF MachineOK, Machines, Sound, Follows, Kept, Written, Codes, SameRun, SameData
  <2> QED
    BY <1>1, <1>3, <1>5, <2>1, <2>2, <2>3, <2>4, SoundThen DEF SameRun
<1> QED
  BY <1>2, <1>6, <1>7, <1>8

LEMMA ResetOK ==
  ASSUME NEW n, MachineOK(n), NEW r \in ResetOf(n)
  PROVE  /\ Sound(n, r) /\ r.rc # "row"
         /\ SameRun(n, r.m) /\ r.m.vm = "ready" /\ r.m.data \subseteq n.data
         /\ n.vm # "row" => SameData(n, r.m)
<1> DEFINE ends == CASE n.vm = "row"    -> Halted(n)
                     [] n.vm = "failed" -> {Result(n, "error")}
                     [] OTHER           -> {Result(n, "done")}
<1>1. PICK q \in ends : r = Result([q.m EXCEPT !.vm = "ready"], q.rc)
  BY DEF ResetOf
<1>2. r.m = [q.m EXCEPT !.vm = "ready"] /\ r.rc = q.rc
  BY <1>1 DEF Result
<1>r. ASSUME q.m \in Machines
      PROVE  /\ r.m \in Machines /\ SameRun(q.m, r.m) /\ SameData(q.m, r.m)
             /\ r.m.vm = "ready"
  BY ONLY <1>2, <1>r DEF Machines, SameRun, SameData
<1>3. CASE n.vm = "row"
  <2>1. q \in Halted(n)
    BY <1>1, <1>3
  <2>2. /\ Sound(n, q) /\ q.rc # "row" /\ SameRun(n, q.m) /\ q.m \in Machines
        /\ q.m.data \subseteq n.data
    BY <1>3, <2>1, HaltedOK DEF Sound, Follows, MachineOK
  <2>3. /\ r.m \in Machines /\ SameRun(q.m, r.m) /\ SameData(q.m, r.m)
        /\ r.m.vm = "ready"
    BY <1>r, <2>2
  <2> QED
    BY <1>2, <1>3, <2>2, <2>3
       DEF MachineOK, Sound, Follows, Kept, Written, SameRun, SameData
<1>4. CASE n.vm # "row"
  <2>1. q.m = n /\ q.rc \in {"error", "done"}
    BY <1>1, <1>4 DEF Result
  <2>2. /\ r.m \in Machines /\ SameRun(n, r.m) /\ SameData(n, r.m)
        /\ r.m.vm = "ready"
    BY <1>r, <2>1 DEF MachineOK
  <2> QED
    BY <1>2, <2>1, <2>2
       DEF MachineOK, Machines, Sound, Follows, Kept, Written, Codes, SameRun, SameData
<1> QED
  BY <1>3, <1>4

LEMMA PreparedOK ==
  ASSUME NEW n, MachineOK(n), NEW writes \in BOOLEAN, NEW o \in Prepared(n, writes)
  PROVE  /\ MachineOK(o) /\ o.vm = "ready" /\ o.row = 0
         /\ o.run = n.run /\ o.writes = writes
         /\ o.data \subseteq n.data /\ n.stored \subseteq o.stored
         /\ ~n.auto \/ n.vm # "row" => SameData(n, o)
<1>1. PICK r \in ResetOf(n) : o = [r.m EXCEPT !.writes = writes, !.row = 0]
  BY DEF Prepared
<1>2. /\ Sound(n, r) /\ SameRun(n, r.m) /\ r.m.vm = "ready"
      /\ r.m.data \subseteq n.data /\ MachineOK(r.m)
      /\ n.vm # "row" => SameData(n, r.m)
  BY ResetOK DEF Sound, Follows
<1>3. /\ o.vm = "ready" /\ o.row = 0 /\ o.run = r.m.run /\ o.writes = writes
      /\ SameData(r.m, o)
  BY <1>1, <1>2 DEF MachineOK, Machines, SameData
<1>4. o \in Machines
  <2>1. r.m \in Machines /\ 0 \in 0 .. MaxRows
    BY <1>2, SqliteAssumption DEF MachineOK
  <2>2. [r.m EXCEPT !.writes = writes] \in Machines
    BY <2>1 DEF Machines
  <2>3. \A p \in Machines : [p EXCEPT !.row = 0] \in Machines
    BY <2>1 DEF Machines
  <2> QED
    BY <1>1, <2>2, <2>3
<1>5. MachineOK(o)
  BY <1>2, <1>3, <1>4 DEF MachineOK, SameData
<1>6. ~n.auto => SameData(n, o)
  <2>1. CASE n.vm # "row"
    BY <1>2, <1>3, <2>1 DEF SameData
  <2>2. CASE n.vm = "row" /\ ~n.auto
    <3>1. ResetOf(n) = {Result([q.m EXCEPT !.vm = "ready"], q.rc) : q \in Halted(n)}
      BY <2>2 DEF ResetOf
    <3>2. PICK q \in Halted(n) : r = Result([q.m EXCEPT !.vm = "ready"], q.rc)
      BY <3>1
    <3>3. q = Result([n EXCEPT !.vm = "done"], "done")
      BY <2>2, <3>2 DEF Halted
    <3>4. r.m = [[n EXCEPT !.vm = "done"] EXCEPT !.vm = "ready"]
      BY <3>2, <3>3 DEF Result
    <3> QED
      BY <1>3, <3>4 DEF MachineOK, Machines, SameData
  <2> QED
    BY <2>1, <2>2
<1> QED
  BY <1>2, <1>3, <1>5, <1>6 DEF Sound, Follows, SameRun, SameData

LEMMA RefusedOK ==
  ASSUME NEW n, MachineOK(n), n.vm # "row"
  PROVE  Sound(n, Result(n, "error"))
BY DEF MachineOK, Machines, Sound, Follows, Kept, Codes, Result

LEMMA OnceOK ==
  ASSUME NEW n, MachineOK(n), NEW r \in Once(n)
  PROVE  /\ Sound(n, r) /\ r.m.run \in {n.run, n.run + 1}
         /\ r.rc = "row"  => r.m.vm = "row" /\ r.m.row = 1
         /\ r.rc = "done" => r.m.row = 0
<1>1. PICK q \in ResetOf(n) :
        r \in IF q.rc = "error" THEN {q} ELSE StepOf(q.m) \cup Refused(q.m)
  BY DEF Once
<1>2. /\ Sound(n, q) /\ q.rc # "row" /\ q.m.run = n.run /\ q.m.vm = "ready"
      /\ MachineOK(q.m)
  BY ResetOK DEF Sound, Follows, SameRun
<1>3. CASE q.rc = "error"
  BY <1>1, <1>2, <1>3
<1>4. CASE q.rc # "error" /\ r \in StepOf(q.m)
  <2>1. /\ Sound(q.m, r) /\ r.m.run = n.run + 1
        /\ r.rc = "row" => r.m.vm = "row" /\ r.m.row = 0 + 1
        /\ r.rc = "done" => r.m.row = 0
    BY <1>2, <1>4, StepOK
  <2> QED
    BY <1>2, <1>4, <2>1, SoundThen
<1>5. CASE q.rc # "error" /\ r \in Refused(q.m)
  <2>1. r = Result(q.m, "error")
    BY <1>5 DEF Refused
  <2>2. Sound(q.m, r) /\ r.m = q.m /\ r.rc = "error"
    BY <1>2, <2>1, RefusedOK DEF Result
  <2> QED
    BY <1>2, <1>5, <2>2, SoundThen
<1> QED
  BY <1>1, <1>3, <1>4, <1>5

LEMMA SelectOneOK ==
  ASSUME NEW n, MachineOK(n), NEW r \in SelectOneOf(n)
  PROVE  Sound(n, r)
<1>1. PICK q \in Twice(n) : r \in IF q.rc = "done" THEN StepOf(q.m) ELSE {q}
  BY DEF SelectOneOf
<1>2. Sound(n, q)
  <2>1. PICK p \in Once(n) : q \in IF p.rc = "error" THEN {p} ELSE Once(p.m)
    BY DEF Twice
  <2>2. Sound(n, p) /\ MachineOK(p.m)
    BY OnceOK DEF Sound, Follows
  <2>3. CASE p.rc = "error"
    BY <2>1, <2>2, <2>3
  <2>4. CASE p.rc # "error"
    BY <2>1, <2>2, <2>4, OnceOK, SoundThen
  <2> QED
    BY <2>3, <2>4
<1>3. CASE q.rc = "done"
  <2>1. Sound(q.m, r)
    BY <1>1, <1>2, <1>3, StepOK DEF Sound, Follows
  <2> QED
    BY <1>2, <1>3, <2>1, SoundThen
<1>4. CASE q.rc # "done"
  BY <1>1, <1>2, <1>4
<1> QED
  BY <1>3, <1>4

\* BEGIN, COMMIT and ROLLBACK.
LEMMA CommandOK ==
  ASSUME NEW n, MachineOK(n), NEW r \in BeginOf(n) \cup CommitOf(n) \cup RollbackOf(n)
  PROVE  /\ MachineOK(r.m) /\ SameRun(n, r.m)
         /\ r.m.vm = n.vm /\ r.m.row = n.row
         /\ r.m.data \subseteq n.data /\ n.stored \subseteq r.m.stored
<1> n \in Machines /\ n.stored \subseteq n.data
  BY DEF MachineOK
<1>1. CASE r = Result(n, "error")
  BY <1>1 DEF Result, SameRun
<1>2. CASE r = Result([n EXCEPT !.auto = FALSE], "done")
  BY <1>2 DEF Result, MachineOK, Machines, SameRun
<1>3. CASE r \in {Result(RolledBack(n), "error"), Result(RolledBack(n), "done")}
  <2>1. r.m = RolledBack(n)
    BY <1>3 DEF Result
  <2> QED
    BY <2>1, RolledBackFields DEF MachineOK, SameRun
<1>4. CASE r = Result(Committed(n), "done") /\ ~(n.writes /\ n.vm = "row")
  BY <1>4, CommittedFields DEF Result, MachineOK, SameRun
<1> QED
  BY <1>1, <1>2, <1>3, <1>4 DEF BeginOf, CommitOf, RollbackOf, Refused

LEMMA RolledBackOK ==
  ASSUME NEW n, MachineOK(n)
  PROVE  LET o == RolledBack(n) IN
         /\ MachineOK(o) /\ SameRun(n, o) /\ o.vm = n.vm /\ o.row = n.row
         /\ o.data = n.stored /\ o.stored = n.stored
BY RolledBackFields DEF MachineOK, SameRun
-----------------------------------------------------------------------------
\* What the invariants build on: the types, a machine that SQLite can be in, and
\* no row to fetch after an exception.
Base == TypeOK /\ MachineOK(m) /\ (broken => m.vm # "row")

Cursor == Base /\ EachRowOnce

LEMMA CursorInit == Init => Cursor
<1> SUFFICES ASSUME Init PROVE Cursor
  OBVIOUS
<1>1. /\ m.vm = "ready" /\ m.row = 0 /\ m.data = {} /\ m.stored = {} /\ m.run = 0
      /\ 0 \in 0 .. MaxRows
  BY SqliteAssumption DEF Init, Opened
<1>2. m \in Machines
  BY <1>1 DEF Init, Opened, Machines
<1>3. TypeOK
  BY <1>1, <1>2 DEF Init, TypeOK
<1>4. MachineOK(m)
  BY <1>1, <1>2 DEF MachineOK
<1>5. EachRowOnce
  BY <1>1 DEF Init, EachRowOnce
<1> QED
  BY <1>1, <1>3, <1>4, <1>5 DEF Cursor, Base

Flags == /\ open \in BOOLEAN /\ committed_ \in BOOLEAN /\ alive \in BOOLEAN
         /\ careful \in BOOLEAN /\ broken \in BOOLEAN /\ gaveUp \in BOOLEAN

\* A call of the statement leaves a machine that SQLite can be in, and types.
LEMMA LeavesBase ==
  ASSUME TypeOK, NEW n, NEW rc, MachineOK(n), rc = "error" => n.vm # "row",
         Leaves(n, rc)
  PROVE  /\ m' = n /\ MachineOK(m)' /\ (broken => m.vm # "row")'
         /\ (m \in Machines /\ Flags)'
BY DEF Leaves, MachineOK, TypeOK, Flags

\* History of runs stays history of runs.
LEMMA RanType ==
  ASSUME TypeOK, NEW n, MachineOK(n), Ran(n)
  PROVE  inside' \in SUBSET Nat
<1>1. m.run \in Nat /\ n.run \in Nat
  BY DEF TypeOK, MachineOK, Machines
<1>2. (m.run + 1) .. n.run \in SUBSET Nat
  BY <1>1
<1> QED
  BY <1>2 DEF Ran, TypeOK

LEMMA CursorNext == Cursor /\ [Next]_vars => Cursor'
<1> SUFFICES ASSUME Cursor, [Next]_vars PROVE Cursor'
  OBVIOUS
<1> USE DEF Cursor, Base
<1>m. MachineOK(m) /\ m \in Machines /\ TypeOK /\ 0 \in 0 .. MaxRows
  BY SqliteAssumption DEF MachineOK
<1>1. CASE Execute
  <2>1. PICK r \in Once(m) :
          /\ Leaves(r.m, r.rc) /\ Ran(r.m)
          /\ fetch_' = IF r.rc = "error" THEN fetch_ ELSE r.rc = "row"
          /\ got' = 0
          /\ asked' = asked \cup ({r.m.run} \ {m.run})
    BY <1>1 DEF Execute, ExecuteOf, IsRow
  <2>2. /\ Sound(m, r) /\ MachineOK(r.m)
        /\ r.rc = "row"  => r.m.vm = "row" /\ r.m.row = 1
        /\ r.rc = "done" => r.m.row = 0
    BY <1>m, OnceOK DEF Sound, Follows
  <2>3. /\ m' = r.m /\ MachineOK(m)' /\ (broken => m.vm # "row")'
        /\ (m \in Machines /\ Flags)'
    BY <1>m, <2>1, <2>2, LeavesBase DEF Sound
  <2>4. TypeOK'
    <3>1. asked' \in SUBSET Nat
      BY <1>m, <2>1, <2>2 DEF TypeOK, MachineOK, Machines
    <3> QED
      BY <1>m, <2>1, <2>2, <2>3, <3>1, RanType DEF TypeOK, Flags
  <2>5. EachRowOnce'
    <3>1. (broken' <=> r.rc = "error") /\ r.rc \in {"row", "done", "error"}
      BY <2>1, <2>2 DEF Leaves, Sound, Codes
    <3>2. CASE r.rc = "row"
      <4>1. fetch_' = TRUE /\ got' = 0
        BY <2>1, <3>2
      <4>2. m'.row = 1 /\ m'.vm = "row"
        BY <2>2, <2>3, <3>2
      <4> QED
        BY <4>1, <4>2 DEF EachRowOnce
    <3>3. CASE r.rc = "done"
      <4>1. fetch_' = FALSE /\ got' = 0
        BY <2>1, <3>3
      <4>2. m'.row = 0
        BY <2>2, <2>3, <3>3
      <4> QED
        BY <4>1, <4>2 DEF EachRowOnce
    <3>4. CASE r.rc = "error"
      BY <3>1, <3>4 DEF EachRowOnce
    <3> QED
      BY <3>1, <3>2, <3>3, <3>4
  <2> QED
    BY <2>3, <2>4, <2>5
<1>2. CASE FetchWaiting
  <2>1. fetch_ /\ ~fetch_' /\ got' = IF got < MaxRows THEN got + 1 ELSE got
    BY <1>2 DEF FetchWaiting, NeedsStep
  <2>2. UNCHANGED <<m, broken, asked, inside>> /\ Flags'
    BY <1>2, <1>m DEF FetchWaiting, transaction, TypeOK, Flags
  <2>3. fetch_' \in BOOLEAN
    BY <1>2 DEF FetchWaiting
  <2>4. m.row \in 0 .. MaxRows /\ got \in 0 .. MaxRows
    BY <1>m DEF Machines, TypeOK
  <2>5. ~broken => m.row = got + 1
    BY <1>m, <2>1 DEF EachRowOnce
  <2>6. got' \in 0 .. MaxRows
    BY <2>1, <2>4, SqliteAssumption
  <2>7. EachRowOnce'
    <3>1. ~broken => got' = m.row
      BY <2>1, <2>4, <2>5, SqliteAssumption
    <3> QED
      BY <2>1, <2>2, <2>4, <3>1 DEF EachRowOnce
  <2> QED
    BY <1>m, <2>2, <2>3, <2>6, <2>7 DEF TypeOK, Flags
<1>3. CASE FetchNext
  <2>1. PICK r \in StepOf(m) :
          LET before == IF r.m.run = m.run THEN got ELSE 0 IN
          /\ Leaves(r.m, r.rc) /\ Ran(r.m)
          /\ got' = IF r.rc = "row" THEN before + 1 ELSE before
          /\ asked' = IF m.vm = "ready" THEN asked \cup {r.m.run} ELSE asked
    BY <1>3 DEF FetchNext, IsRow
  <2>2. ~fetch_ /\ ~fetch_' /\ fetch_' \in BOOLEAN
    BY <1>3 DEF FetchNext, NeedsStep
  <2> DEFINE row    == IF m.vm = "row" THEN m.row ELSE 0
             before == IF r.m.run = m.run THEN got ELSE 0
  <2>3. /\ Sound(m, r) /\ MachineOK(r.m)
        /\ r.m.run = IF m.vm = "row" THEN m.run ELSE m.run + 1
        /\ r.rc = "row"  => r.m.vm = "row" /\ r.m.row = row + 1
        /\ r.rc = "done" => r.m.row = row
    BY <1>m, StepOK DEF Sound, Follows
  <2>4. before = row
    <3>1. CASE m.vm = "row"
      BY <1>m, <2>2, <2>3, <3>1 DEF EachRowOnce, TypeOK
    <3>2. CASE m.vm # "row"
      BY <1>m, <2>3, <3>2 DEF Machines
    <3> QED
      BY <3>1, <3>2
  <2>5. /\ m' = r.m /\ MachineOK(m)' /\ (broken => m.vm # "row")'
        /\ (m \in Machines /\ Flags)'
    BY <1>m, <2>1, <2>3, LeavesBase DEF Sound
  <2>6. got' = IF r.rc = "row" THEN row + 1 ELSE row
    BY <2>1, <2>4
  <2>7. row \in 0 .. MaxRows /\ r.m.row \in 0 .. MaxRows
    BY <1>m, <2>3 DEF MachineOK, Machines
  <2> HIDE DEF row, before
  <2>8. TypeOK'
    <3>1. got' \in 0 .. MaxRows
      BY <2>3, <2>6, <2>7
    <3>2. asked' \in SUBSET Nat
      BY <1>m, <2>1, <2>3 DEF TypeOK, MachineOK, Machines
    <3> QED
      BY <1>m, <2>1, <2>2, <2>3, <2>5, <3>1, <3>2, RanType DEF TypeOK, Flags
  <2>9. EachRowOnce'
    <3>1. r.rc = "error" <=> broken'
      BY <2>1 DEF Leaves
    <3>2. r.rc \in {"row", "done", "error"}
      BY <2>3 DEF Sound, Codes
    <3> QED
      BY <2>2, <2>3, <2>5, <2>6, <2>7, <3>1, <3>2 DEF EachRowOnce
  <2> QED
    BY <2>5, <2>8, <2>9
<1>4. ASSUME NEW writes \in BOOLEAN, Prepare(writes) PROVE Cursor'
  <2>1. /\ MachineOK(m') /\ m'.vm = "ready" /\ m'.row = 0
    BY <1>4, <1>m, PreparedOK DEF Prepare
  <2>2. TypeOK'
    BY <1>4, <1>m, <2>1 DEF Prepare, TypeOK, MachineOK, transaction
  <2>3. EachRowOnce'
    BY <1>4, <2>1 DEF Prepare, EachRowOnce
  <2> QED
    BY <2>1, <2>2, <2>3
<1>5. ASSUME NEW writes \in BOOLEAN, SelectOne(writes) PROVE Cursor'
  <2>a. PICK n \in Prepared(m, writes) : \E r \in SelectOneOf(n) :
          /\ \E done \in Prepared(r.m, FALSE) : Leaves(done, r.rc)
          /\ Ran(r.m)
          /\ asked' = asked \cup ({m.run + 2} \cap 0 .. r.m.run)
    BY <1>5 DEF SelectOne
  <2>b. PICK r \in SelectOneOf(n) :
          /\ \E done \in Prepared(r.m, FALSE) : Leaves(done, r.rc)
          /\ Ran(r.m)
          /\ asked' = asked \cup ({m.run + 2} \cap 0 .. r.m.run)
    BY <2>a
  <2>c. PICK done \in Prepared(r.m, FALSE) : Leaves(done, r.rc)
    BY <2>b
  <2>1. /\ Leaves(done, r.rc) /\ Ran(r.m)
        /\ asked' = asked \cup ({m.run + 2} \cap 0 .. r.m.run)
        /\ fetch_' = FALSE /\ got' = 0
    BY <1>5, <2>b, <2>c DEF SelectOne
  <2>2. MachineOK(n)
    BY <1>m, PreparedOK
  <2>3. MachineOK(r.m)
    BY <2>2, SelectOneOK DEF Sound, Follows
  <2>4. MachineOK(done) /\ done.vm = "ready" /\ done.row = 0
    BY <2>3, PreparedOK
  <2>5. /\ m' = done /\ MachineOK(m)' /\ (broken => m.vm # "row")'
        /\ (m \in Machines /\ Flags)'
    BY <1>m, <2>1, <2>4, LeavesBase
  <2>6. asked' \in SUBSET Nat
    <3>1. m.run \in Nat /\ asked \in SUBSET Nat
      BY <1>m DEF TypeOK, Machines
    <3>2. ({m.run + 2} \cap 0 .. r.m.run) \subseteq {m.run + 2}
      OBVIOUS
    <3>3. asked' \subseteq asked \cup {m.run + 2}
      BY <2>1, <3>2
    <3> QED
      BY <3>1, <3>3
  <2>7. inside' \in SUBSET Nat
    BY <1>m, <2>1, <2>3, RanType
  <2>8. TypeOK'
    BY <1>m, <2>1, <2>5, <2>6, <2>7 DEF TypeOK, Flags
  <2>9. EachRowOnce'
    BY <2>1, <2>4, <2>5 DEF EachRowOnce
  <2> QED
    BY <2>5, <2>8, <2>9
<1>6. CASE Command
  <2>1. /\ MachineOK(m') /\ m'.vm = m.vm /\ m'.row = m.row
    BY <1>6, <1>m, CommandOK DEF Command
  <2> QED
    BY <1>6, <1>m, <2>1
       DEF Command, TypeOK, EachRowOnce, MachineOK, statement, transaction
<1>7. CASE Open
  <2>1. /\ MachineOK(m') /\ m'.vm = m.vm /\ m'.row = m.row
    BY <1>7, <1>m, CommandOK DEF Open
  <2> QED
    BY <1>7, <1>m, <2>1 DEF Open, TypeOK, EachRowOnce, MachineOK, statement
<1>8. CASE Close
  <2>1. PICK r \in Ended(m) : /\ alive' = (r.rc = "done")
                              /\ m' = IF alive' THEN r.m ELSE RolledBack(r.m)
    BY <1>8 DEF Close
  <2>2. MachineOK(r.m) /\ r.m.vm = m.vm /\ r.m.row = m.row
    BY <1>m, <2>1, CommandOK DEF Ended
  <2>3. /\ MachineOK(m') /\ m'.vm = m.vm /\ m'.row = m.row
    BY <2>1, <2>2, RolledBackOK
  <2> QED
    BY <1>8, <1>m, <2>1, <2>3 DEF Close, TypeOK, EachRowOnce, MachineOK, statement
<1>9. CASE Crash
  <2>1. /\ MachineOK(m') /\ m'.vm = m.vm /\ m'.row = m.row
    BY <1>9, <1>m, RolledBackOK DEF Crash
  <2> QED
    BY <1>9, <1>m, <2>1
       DEF Crash, TypeOK, EachRowOnce, MachineOK, statement, transaction
<1>10. ASSUME NEW committed \in BOOLEAN, SetCommitted(committed) PROVE Cursor'
  BY <1>10, <1>m DEF SetCommitted, TypeOK, EachRowOnce, MachineOK, statement
<1>11. CASE UNCHANGED vars
  BY <1>11, <1>m DEF vars, TypeOK, EachRowOnce, MachineOK, statement, transaction
<1> QED
  BY <1>1, <1>2, <1>3, <1>4, <1>5, <1>6, <1>7, <1>8, <1>9, <1>10, <1>11 DEF Next

LEMMA CursorInvariant == Spec => []Cursor
  BY CursorInit, CursorNext, PTL DEF Spec

(* The variables of the program, the statement and the connection keep their *)
(* types, whatever fails: no row number leaves its range.                    *)
THEOREM TypeCorrect == Spec => []TypeOK
  BY CursorInvariant, PTL DEF Cursor, Base

(* A row that execute() stepped to is the next one fetch() returns, and each *)
(* row of a run is returned once, for any number of rows, runs and failures. *)
THEOREM EachRowOnceCorrect == Spec => []EachRowOnce
  BY CursorInvariant, PTL DEF Cursor
-----------------------------------------------------------------------------
\* What a call of the statement leaves in the connection.
LEMMA FollowsData ==
  ASSUME NEW n, NEW o, MachineOK(n), Follows(n, o)
  PROVE  /\ ~n.writes => o.data \subseteq n.data
         /\ o.run = n.run => o.data \subseteq n.data
         /\ o.run = n.run + 1 => o.data \subseteq n.data \cup {o.run}
BY DEF MachineOK, Machines, Follows, Written

LEMMA UnaskedNext ==
  ASSUME Cursor, NothingUnasked, [Next]_vars
  PROVE  NothingUnasked'
<1> SUFFICES ASSUME careful' PROVE m'.data \subseteq asked'
  BY DEF NothingUnasked
<1>c. careful
  BY DEF Next, vars, Execute, Prepare, SelectOne, FetchWaiting, FetchNext, Leaves,
         Command, Open, Close, Crash, SetCommitted
<1>m. /\ MachineOK(m) /\ m.data \subseteq asked /\ m.stored \subseteq m.data
      /\ m.run \in Nat
  BY <1>c DEF Cursor, Base, NothingUnasked, MachineOK, Machines
<1>1. CASE Execute
  <2>1. PICK r \in Once(m) : m' = r.m /\ asked' = asked \cup ({r.m.run} \ {m.run})
    BY <1>1 DEF Execute, ExecuteOf, Leaves
  <2>2. Follows(m, r.m) /\ r.m.run \in {m.run, m.run + 1}
    BY <1>m, OnceOK DEF Sound
  <2> QED
    BY <1>m, <2>1, <2>2, FollowsData
<1>2. CASE FetchWaiting
  BY <1>2, <1>m DEF FetchWaiting
<1>3. CASE FetchNext
  <2>1. PICK r \in StepOf(m) :
          m' = r.m /\ asked' = IF m.vm = "ready" THEN asked \cup {r.m.run} ELSE asked
    BY <1>3 DEF FetchNext, Leaves
  <2>2. /\ Follows(m, r.m)
        /\ r.m.run = IF m.vm = "row" THEN m.run ELSE m.run + 1
    BY <1>m, StepOK DEF Sound
  <2>3. ~m.writes \/ m.vm \in {"ready", "row"}
    BY <1>3, <1>c DEF FetchNext
  <2> QED
    BY <1>m, <2>1, <2>2, <2>3, FollowsData
<1>4. ASSUME NEW writes \in BOOLEAN, Prepare(writes)
      PROVE  m'.data \subseteq asked'
  BY <1>4, <1>m, PreparedOK DEF Prepare
<1>5. ASSUME NEW writes \in BOOLEAN, SelectOne(writes)
      PROVE  m'.data \subseteq asked'
  <2>1. PICK n \in Prepared(m, writes) : \E r \in SelectOneOf(n) :
          /\ \E done \in Prepared(r.m, FALSE) : m' = done
          /\ asked \subseteq asked'
    BY <1>5 DEF SelectOne, Leaves
  <2>2. PICK r \in SelectOneOf(n) : /\ \E done \in Prepared(r.m, FALSE) : m' = done
                                    /\ asked \subseteq asked'
    BY <2>1
  <2>3. ~n.writes /\ MachineOK(n) /\ n.data \subseteq m.data
    BY <1>5, <1>c, <1>m, PreparedOK DEF SelectOne
  <2>4. MachineOK(r.m) /\ r.m.data \subseteq n.data
    BY <2>3, SelectOneOK, FollowsData DEF Sound, Follows
  <2>5. m'.data \subseteq r.m.data
    BY <2>2, <2>4, PreparedOK
  <2> QED
    BY <1>m, <2>2, <2>3, <2>4, <2>5
<1>6. CASE Command
  <2>1. m'.data \subseteq m.data /\ asked' = asked
    BY <1>6, <1>m, CommandOK DEF Command, statement
  <2> QED
    BY <1>m, <2>1
<1>7. CASE Open
  <2>1. m'.data \subseteq m.data /\ asked' = asked
    BY <1>7, <1>m, CommandOK DEF Open, statement
  <2> QED
    BY <1>m, <2>1
<1>8. CASE Close
  <2>1. PICK r \in Ended(m) : m' = IF alive' THEN r.m ELSE RolledBack(r.m)
    BY <1>8 DEF Close
  <2>2. /\ MachineOK(r.m) /\ r.m.data \subseteq m.data /\ r.m.stored \subseteq r.m.data
    BY <1>m, <2>1, CommandOK DEF Ended, MachineOK
  <2>3. m'.data \subseteq m.data
    BY <2>1, <2>2, RolledBackOK
  <2> QED
    BY <1>8, <1>m, <2>3 DEF Close, statement
<1>9. CASE Crash
  BY <1>9, <1>m, RolledBackOK DEF Crash, statement
<1>10. ASSUME NEW committed \in BOOLEAN, SetCommitted(committed)
       PROVE  m'.data \subseteq asked'
  BY <1>10, <1>m DEF SetCommitted, statement
<1>11. CASE UNCHANGED vars
  BY <1>11, <1>m DEF vars, statement
<1> QED
  BY <1>1, <1>2, <1>3, <1>4, <1>5, <1>6, <1>7, <1>8, <1>9, <1>10, <1>11 DEF Next

(* A program that fetches with care and keeps select_one() to queries never  *)
(* runs a write more often than it asked for.                                *)
THEOREM NothingUnaskedCorrect == Spec => []NothingUnasked
<1>1. Init => NothingUnasked
  BY DEF Init, Opened, NothingUnasked
<1>2. Cursor /\ NothingUnasked /\ [Next]_vars => NothingUnasked'
  BY UnaskedNext
<1> QED
  BY <1>1, <1>2, CursorInvariant, PTL DEF Spec
-----------------------------------------------------------------------------
\* While the scope is open nothing of it is stored; until something has thrown it
\* is a transaction of SQLite that holds all the writes, and after that commit()
\* is not called any more. Once it is closed, the writes are stored, or they were
\* lost when the program ended, or they are gone.
InScope ==
  /\ inside \cap m.stored = {}
  /\ alive /\ gaveUp  => ~committed_
  /\ alive /\ ~gaveUp => ~m.auto /\ inside \subseteq m.data

OutOfScope ==
  /\ committed_  => \/ inside \subseteq m.stored
                    \/ ~alive /\ inside \cap m.stored = {}
  /\ ~committed_ => inside \cap m.data = {}

Scope == careful => /\ inside \subseteq 1 .. m.run
                    /\ open => InScope
                    /\ ~open => OutOfScope

LEMMA ScopeImplies == MachineOK(m) /\ Scope => AllOrNothing
BY DEF MachineOK, Scope, InScope, OutOfScope, AllOrNothing

\* A call of the statement, in a transaction that no call has given up.
LEMMA ScopeRuns ==
  ASSUME MachineOK(m), careful, Scope, alive, TypeOK,
         open => ~gaveUp /\ ~committed_,
         NEW o, NEW rc, Sound(m, Result(o, rc)),
         inside' = IF open /\ m.writes THEN inside \cup (m.run + 1) .. o.run ELSE inside,
         m' \in Machines, m'.run = o.run,
         m'.data \subseteq o.data, m'.stored = o.stored,
         rc # "error" => m'.data = o.data /\ m'.auto = o.auto,
         gaveUp' = (gaveUp \/ (open /\ rc = "error")),
         UNCHANGED <<open, committed_, alive, careful>>
  PROVE  Scope'
<1>1. /\ Follows(m, o) /\ Kept(m, o, rc) /\ m.run \in Nat /\ o.run \in Nat
      /\ m.run <= o.run /\ m.stored \subseteq o.stored
      /\ o.data \subseteq m.data \cup Written(m, o)
  BY DEF Sound, Result, Follows, MachineOK, Machines
<1>2. inside \subseteq 1 .. m.run /\ m.stored \subseteq m.data /\ m.data \subseteq 1 .. m.run
  BY DEF Scope, MachineOK
<1>3. inside' \subseteq 1 .. m'.run
  <2>1. 1 .. m.run \subseteq 1 .. o.run /\ (m.run + 1) .. o.run \subseteq 1 .. o.run
    BY <1>1
  <2>2. inside' \subseteq inside \cup (m.run + 1) .. o.run
    OBVIOUS
  <2> QED
    BY <1>2, <2>1, <2>2
<1>4. CASE open
  <2>1. /\ inside \cap m.stored = {} /\ ~m.auto /\ inside \subseteq m.data
        /\ ~gaveUp /\ ~committed_
    BY <1>4 DEF Scope, InScope
  <2>2. inside' = inside \cup Written(m, o)
    BY <1>4 DEF Written
  <2>3. Written(m, o) \cap 1 .. m.run = {}
    BY <1>1 DEF Written
  <2>4. o.stored = m.stored
    BY <1>1, <2>1 DEF Kept
  <2>5. inside' \cap m'.stored = {}
    BY <1>2, <2>1, <2>2, <2>3, <2>4
  <2>6. rc # "error" => ~m'.auto /\ inside' \subseteq m'.data
    BY <1>1, <2>1, <2>2 DEF Kept
  <2>7. ~committed_' /\ open' /\ (gaveUp' \/ rc # "error")
    BY <1>4, <2>1
  <2> QED
    BY <1>3, <2>5, <2>6, <2>7 DEF Scope, InScope
<1>5. CASE ~open
  <2>1. OutOfScope /\ inside' = inside /\ ~open'
    BY <1>5 DEF Scope
  <2>2. committed_ => inside \subseteq m.stored
    BY <2>1 DEF OutOfScope
  <2>3. ~committed_ => inside \cap o.data = {}
    <3>1. Written(m, o) \cap 1 .. m.run = {}
      BY <1>1 DEF Written
    <3> QED
      BY <1>1, <1>2, <2>1, <3>1 DEF OutOfScope
  <2>4. OutOfScope'
    BY <1>1, <2>1, <2>2, <2>3 DEF OutOfScope
  <2> QED
    BY <1>3, <2>1, <2>4 DEF Scope
<1> QED
  BY <1>4, <1>5

LEMMA ScopeNext ==
  ASSUME Cursor, Scope, [Next]_vars
  PROVE  Scope'
<1>c. careful' = careful
  BY DEF Next, vars, Execute, Prepare, SelectOne, FetchWaiting, FetchNext, Leaves,
         Command, Open, Close, Crash, SetCommitted
<1> SUFFICES ASSUME careful PROVE Scope'
  BY <1>c DEF Scope
<1>m. /\ MachineOK(m) /\ TypeOK /\ m.run \in Nat
      /\ m.stored \subseteq m.data /\ inside \subseteq 1 .. m.run
  BY DEF Cursor, Base, MachineOK, Machines, Scope
<1>d. MachineOK(m)'
  BY CursorNext DEF Cursor, Base
<1>1. CASE Execute
  <2>1. PICK r \in Once(m) : Leaves(r.m, r.rc) /\ Ran(r.m)
    BY <1>1 DEF Execute, ExecuteOf
  <2>2. Sound(m, r) /\ r.m.writes = m.writes
    BY <1>m, OnceOK DEF Sound, Follows
  <2>3. Sound(m, Result(r.m, r.rc))
    BY <2>2 DEF Sound, Result
  <2> QED
    BY <1>1, <1>m, <1>d, <2>1, <2>2, <2>3, ScopeRuns
       DEF Execute, MayRun, Leaves, Ran, MachineOK
<1>2. CASE FetchWaiting
  BY <1>2 DEF FetchWaiting, transaction, Scope, InScope, OutOfScope
<1>3. CASE FetchNext
  <2>1. PICK r \in StepOf(m) : Leaves(r.m, r.rc) /\ Ran(r.m)
    BY <1>3 DEF FetchNext
  <2>2. Sound(m, r) /\ r.m.writes = m.writes
    BY <1>m, StepOK DEF Sound, Follows
  <2>3. Sound(m, Result(r.m, r.rc))
    BY <2>2 DEF Sound, Result
  <2> QED
    BY <1>3, <1>m, <1>d, <2>1, <2>2, <2>3, ScopeRuns
       DEF FetchNext, MayRun, Leaves, Ran, MachineOK
<1>4. ASSUME NEW writes \in BOOLEAN, Prepare(writes) PROVE Scope'
  <2>1. /\ m'.run = m.run /\ m'.data \subseteq m.data /\ m.stored \subseteq m'.stored
        /\ ~m.auto => SameData(m, m')
    BY <1>4, <1>m, PreparedOK DEF Prepare
  <2>2. /\ UNCHANGED <<open, committed_, inside, gaveUp, alive, careful>>
        /\ alive /\ (open => ~gaveUp)
    BY <1>4 DEF Prepare, MayRun, transaction
  <2> QED
    BY <2>1, <2>2 DEF Scope, InScope, OutOfScope, SameData
<1>5. ASSUME NEW writes \in BOOLEAN, SelectOne(writes) PROVE Scope'
  <2>1. PICK n \in Prepared(m, writes) : \E r \in SelectOneOf(n) :
          /\ \E done \in Prepared(r.m, FALSE) : Leaves(done, r.rc)
          /\ Ran(r.m)
    BY <1>5 DEF SelectOne
  <2>2. PICK r \in SelectOneOf(n) : /\ \E done \in Prepared(r.m, FALSE) : Leaves(done, r.rc)
                                    /\ Ran(r.m)
    BY <2>1
  <2>3. PICK done \in Prepared(r.m, FALSE) : Leaves(done, r.rc)
    BY <2>2
  <2>4. /\ MachineOK(n) /\ ~n.writes /\ n.run = m.run
        /\ n.data \subseteq m.data /\ m.stored \subseteq n.stored
        /\ ~m.auto => SameData(m, n)
    BY <1>5, <1>m, PreparedOK DEF SelectOne
  <2>5. Sound(n, r)
    BY <2>4, SelectOneOK
  <2>6. /\ MachineOK(r.m) /\ ~r.m.writes /\ m.run <= r.m.run
        /\ r.m.data \subseteq n.data /\ n.stored \subseteq r.m.stored
        /\ ~n.auto => /\ r.m.stored = n.stored
                      /\ r.rc # "error" => ~r.m.auto /\ n.data \subseteq r.m.data
    BY <2>4, <2>5 DEF Sound, Follows, Kept, Written
  <2>7. /\ m' = done /\ done.run = r.m.run
        /\ done.data \subseteq r.m.data /\ r.m.stored \subseteq done.stored
        /\ ~r.m.auto \/ r.m.vm # "row" => SameData(r.m, done)
    BY <2>3, <2>6, PreparedOK DEF Leaves
  <2>8. r.rc = "error" => r.m.vm # "row"
    BY <2>5 DEF Sound
  <2>9. /\ UNCHANGED <<open, committed_, alive, careful, inside>>
        /\ gaveUp' = (gaveUp \/ (open /\ r.rc = "error"))
        /\ alive /\ (open => ~gaveUp /\ ~committed_)
    BY <1>5, <2>2, <2>3, <2>6 DEF SelectOne, MayRun, Leaves, Ran
  <2>10. inside' \subseteq 1 .. m'.run
    BY <1>m, <2>6, <2>7, <2>9 DEF MachineOK, Machines
  <2>11. CASE open
    <3>1. /\ inside \cap m.stored = {} /\ ~m.auto /\ inside \subseteq m.data
      BY <2>9, <2>11 DEF Scope, InScope
    <3>2. m'.stored = m.stored
      BY <2>4, <2>6, <2>7, <2>8, <3>1 DEF SameData
    <3>3. r.rc # "error" => ~m'.auto /\ m.data \subseteq m'.data
      BY <2>4, <2>6, <2>7, <3>1 DEF SameData
    <3> QED
      BY <2>9, <2>10, <2>11, <3>1, <3>2, <3>3 DEF Scope, InScope
  <2>12. CASE ~open
    <3>1. m'.data \subseteq m.data /\ m.stored \subseteq m'.stored
      BY <2>4, <2>6, <2>7
    <3> QED
      BY <2>9, <2>10, <2>12, <3>1 DEF Scope, OutOfScope
  <2> QED
    BY <2>11, <2>12
<1>6. CASE Command
  <2>1. m'.run = m.run /\ m'.data \subseteq m.data /\ m.stored \subseteq m'.stored
    BY <1>6, <1>m, CommandOK DEF Command, SameRun
  <2>2. ~open /\ alive /\ UNCHANGED <<open, committed_, inside, alive, careful>>
    BY <1>6 DEF Command, transaction
  <2> QED
    BY <2>1, <2>2 DEF Scope, OutOfScope
<1>7. CASE Open
  <2>1. PICK r \in BeginOf(m) : m' = r.m /\ open' = (r.rc = "done")
    BY <1>7 DEF Open
  <2>2. /\ ~committed_' /\ ~gaveUp' /\ inside' = {}
    BY <1>7 DEF Open
  <2>3. open' => ~m'.auto
    <3>1. r = Result([m EXCEPT !.auto = FALSE], "done") \/ r = Result(m, "error")
      BY <2>1 DEF BeginOf, Refused
    <3>2. CASE r = Result([m EXCEPT !.auto = FALSE], "done")
      BY <1>m, <2>1, <3>2 DEF Result, MachineOK, Machines
    <3>3. CASE r = Result(m, "error")
      BY <2>1, <3>3 DEF Result
    <3> QED
      BY <3>1, <3>2, <3>3
  <2> QED
    BY <2>2, <2>3 DEF Scope, InScope, OutOfScope
<1>8. CASE Close
  <2>1. PICK r \in Ended(m) : /\ alive' <=> r.rc = "done"
                              /\ m' = IF alive' THEN r.m ELSE RolledBack(r.m)
    BY <1>8 DEF Close
  <2>2. ~open' /\ open /\ alive /\ UNCHANGED <<committed_, inside, gaveUp, careful>>
    BY <1>8 DEF Close
  <2>3. InScope
    BY <2>2 DEF Scope
  <2>4. MachineOK(r.m) /\ SameRun(m, r.m)
    BY <1>m, <2>1, CommandOK DEF Ended
  <2>5. m'.run = m.run
    BY <2>1, <2>4, RolledBackOK DEF SameRun
  <2>6. CASE committed_
    <3>1. ~gaveUp /\ ~m.auto /\ inside \subseteq m.data
      BY <2>2, <2>3, <2>6 DEF InScope
    <3>2. \/ r = Result(m, "error") \/ r = Result(RolledBack(m), "error")
          \/ r = Result(Committed(m), "done")
      BY <2>1, <2>6 DEF Ended, CommitOf, Refused
    <3>3. CASE r = Result(Committed(m), "done")
      <4>1. m' = Committed(m)
        BY <2>1, <3>3 DEF Result
      <4>2. m'.stored = m.data
        BY <1>m, <4>1, CommittedFields DEF MachineOK
      <4> QED
        BY <1>m, <2>2, <2>5, <2>6, <3>1, <4>2 DEF Scope, OutOfScope
    <3>4. CASE r = Result(m, "error") \/ r = Result(RolledBack(m), "error")
      <4>1. ~alive' /\ m' = RolledBack(r.m) /\ r.m \in {m, RolledBack(m)}
        <5>1. r.rc = "error" /\ r.m \in {m, RolledBack(m)}
          BY <3>4 DEF Result
        <5> QED
          BY <2>1, <5>1
      <4>2. m'.stored = m.stored
        BY <1>m, <4>1, RolledBackOK
      <4> QED
        BY <1>m, <2>2, <2>3, <2>5, <2>6, <4>1, <4>2 DEF Scope, InScope, OutOfScope
    <3> QED
      BY <3>2, <3>3, <3>4
  <2>7. CASE ~committed_
    <3>1. \/ r = Result(m, "error") \/ r = Result(RolledBack(m), "done")
      BY <2>1, <2>7 DEF Ended, RollbackOf, Refused
    <3>2. m' = RolledBack(m)
      <4>1. CASE r = Result(m, "error")
        BY <2>1, <4>1 DEF Result
      <4>2. CASE r = Result(RolledBack(m), "done")
        BY <2>1, <4>2 DEF Result
      <4> QED
        BY <3>1, <4>1, <4>2
    <3>3. m'.data = m.stored
      BY <1>m, <3>2, RolledBackOK
    <3> QED
      BY <1>m, <2>2, <2>3, <2>5, <2>7, <3>3 DEF Scope, InScope, OutOfScope
  <2> QED
    BY <2>6, <2>7
<1>9. CASE Crash
  <2>1. m'.run = m.run /\ m'.data = m.stored /\ m'.stored = m.stored
    BY <1>9, <1>m, RolledBackOK DEF Crash, SameRun
  <2>2. ~alive' /\ UNCHANGED <<open, committed_, inside, careful>>
    BY <1>9 DEF Crash, transaction
  <2> QED
    BY <1>m, <2>1, <2>2 DEF Scope, InScope, OutOfScope
<1>10. ASSUME NEW committed \in BOOLEAN, SetCommitted(committed) PROVE Scope'
  BY <1>10 DEF SetCommitted, Scope, InScope, OutOfScope
<1>11. CASE UNCHANGED vars
  BY <1>11 DEF vars, transaction, Scope, InScope, OutOfScope
<1> QED
  BY <1>1, <1>2, <1>3, <1>4, <1>5, <1>6, <1>7, <1>8, <1>9, <1>10, <1>11 DEF Next

(* Whatever fails, and wherever the program crashes, the writes in the scope *)
(* of a careful transaction_t are stored together or not at all.             *)
THEOREM AllOrNothingCorrect == Spec => []AllOrNothing
<1>1. Init => Scope
  BY DEF Init, Opened, Scope, OutOfScope
<1>2. Cursor /\ Scope /\ [Next]_vars => Scope'
  BY ScopeNext
<1>3. Cursor /\ Scope => AllOrNothing
  BY ScopeImplies DEF Cursor, Base
<1> QED
  BY <1>1, <1>2, <1>3, CursorInvariant, PTL DEF Spec
=============================================================================
