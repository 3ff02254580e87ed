-------------------------------- MODULE Sqlite --------------------------------
(***************************************************************************)
(* What xxx/db.hxx uses of SQLite (src/sqlite3.c): one connection with one *)
(* prepared statement, and the transaction commands. There are no          *)
(* variables: a machine is a record, and every call of the API gives the   *)
(* set of its possible results, each with the machine it leaves and        *)
(* whether it is a row, done (or OK), or an error.                         *)
(*                                                                         *)
(* The data is the set of the runs of writing statements it holds. A write *)
(* makes its changes in its first step, before it returns a row (INSERT    *)
(* ... RETURNING). Which step fails, how, and how many rows there are, is  *)
(* left open. Nothing else uses the statement or the connection.           *)
(***************************************************************************)
EXTENDS Naturals

CONSTANT MaxRows   \* bound: a run returns no more rows

ASSUME SqliteAssumption == MaxRows \in Nat

\* vm: ready, stopped at a row, done or failed; row: the rows returned by the run;
\* run: the number of the current run, or of the last one; writes: does the
\* statement write?; data: what the connection sees; stored: what is committed;
\* auto: autocommit mode, so that no transaction is open.
Machines ==
  [vm : {"ready", "row", "done", "failed"}, row : 0 .. MaxRows, run : Nat,
   writes : BOOLEAN, data : SUBSET Nat, stored : SUBSET Nat, auto : BOOLEAN]

Result(m, rc) == [m |-> m, rc |-> rc]

Opened == [vm |-> "ready", row |-> 0, run |-> 0, writes |-> FALSE,
           data |-> {}, stored |-> {}, auto |-> TRUE]

\* sqlite3RollbackAll(), after which the connection is in autocommit mode.
RolledBack(m) == [m EXCEPT !.data = m.stored, !.auto = TRUE]

Committed(m) == [m EXCEPT !.stored = m.data, !.auto = TRUE]

\* A statement that is not running starts from its beginning, whatever became of
\* its last run: sqlite3_step() resets it by itself.
Begun(m) ==
  IF m.vm = "row" THEN m
  ELSE [m EXCEPT !.vm = "row", !.row = 0, !.run = @ + 1,
                 !.data = IF m.writes THEN @ \cup {m.run + 1} ELSE @]

\* The run ends well. Outside of a transaction it commits, which may fail.
Halted(m) ==
  IF m.auto THEN {Result([Committed(m) EXCEPT !.vm = "done"], "done"),
                  Result([RolledBack(m) EXCEPT !.vm = "failed"], "error")}
  ELSE {Result([m EXCEPT !.vm = "done"], "done")}

\* The run fails. Some errors roll the whole transaction back, and leave it; most
\* undo the run only; and one with OR FAIL keeps what it did so far.
Failed(m) ==
  LET left == IF m.auto THEN {RolledBack(m), Committed(m)}
              ELSE {RolledBack(m), [m EXCEPT !.data = @ \ {m.run}], m}
  IN {Result([n EXCEPT !.vm = "failed"], "error") : n \in left}

\* sqlite3_step()
StepOf(m) ==
  LET b == Begun(m) IN
  Halted(b) \cup Failed(b)
    \cup {Result([b EXCEPT !.row = n], "row") : n \in {b.row + 1} \cap 0 .. MaxRows}

\* sqlite3_reset() reports the error of the last step again, and ends a run that
\* has rows left, well or not.
ResetOf(m) ==
  {Result([r.m EXCEPT !.vm = "ready"], r.rc) :
     r \in CASE m.vm = "row"    -> Halted(m)
             [] m.vm = "failed" -> {Result(m, "error")}
             [] OTHER           -> {Result(m, "done")}}

\* sqlite3_finalize(), and sqlite3_prepare_v3() of another statement. The runs go
\* on being numbered.
Prepared(m, writes) ==
  {[r.m EXCEPT !.writes = writes, !.row = 0] : r \in ResetOf(m)}

Refused(m) == {Result(m, "error")}

\* BEGIN: another connection may hold the lock that IMMEDIATE takes.
BeginOf(m) ==
  IF m.auto THEN {Result([m EXCEPT !.auto = FALSE], "done")} \cup Refused(m)
  ELSE Refused(m)

\* COMMIT: refused while a writing statement has rows left, and when the lock is
\* taken; a failure to write rolls everything back.
CommitOf(m) ==
  IF m.auto \/ (m.writes /\ m.vm = "row") THEN Refused(m)
  ELSE {Result(Committed(m), "done"), Result(RolledBack(m), "error")} \cup Refused(m)

RollbackOf(m) ==
  IF m.auto THEN Refused(m) ELSE {Result(RolledBack(m), "done")}
=============================================================================
