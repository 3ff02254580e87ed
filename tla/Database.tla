------------------------------- MODULE Database -------------------------------
(***************************************************************************)
(* xxx::db::sl3 (xxx/db.hxx) over SQLite: a statement_t that is executed   *)
(* and fetched, select_one(), begin(), commit() and rollback(), and the    *)
(* scope of a transaction_t, whose destructor commits or rolls back.       *)
(*                                                                         *)
(* A program is any sequence of calls, with an exception wherever SQLite   *)
(* reports an error, and may crash. A careful program, which some          *)
(* properties are about,                                                   *)
(*   - ends a transaction without commit() once a call inside has thrown,  *)
(*     calls commit() last, and no begin(), commit() or rollback() of the  *)
(*     database while the transaction_t lives;                             *)
(*   - does not fetch after an exception, nor from a write that is over;   *)
(*   - uses select_one() for queries only.                                 *)
(* One statement lives at a time: a new one replaces the one before.       *)
(***************************************************************************)
EXTENDS Sqlite

CONSTANT MaxRuns   \* bound: no call begins beyond so many runs

ASSUME DatabaseAssumption == MaxRuns \in Nat

VARIABLES m,           \* the connection and the statement, a machine of SQLite
          fetch_,      \* statement_t: a row waits to be fetched
          open,        \* is there a transaction_t?
          committed_,  \* its flag; kept when it is gone
          alive,       \* neither crashed nor terminated by a throwing destructor
          careful,     \* is the program careful? Never changes
          broken,      \* history: the last call of the statement has thrown
          gaveUp,      \* history: a call in the transaction_t has thrown
          got,         \* history: the rows fetched of the current run
          asked,       \* history: the runs the program asked for
          inside       \* history: the writes in the transaction_t, or in the last

statement   == <<fetch_, broken, got, asked>>
transaction == <<open, committed_, inside>>
vars == <<m, statement, transaction, gaveUp, alive, careful>>

TypeOK == /\ m \in Machines
          /\ fetch_ \in BOOLEAN /\ open \in BOOLEAN /\ committed_ \in BOOLEAN
          /\ alive \in BOOLEAN /\ careful \in BOOLEAN
          /\ broken \in BOOLEAN /\ gaveUp \in BOOLEAN
          /\ got \in 0 .. MaxRows
          /\ asked \in SUBSET Nat /\ inside \in SUBSET Nat

Init == /\ m = Opened /\ alive = TRUE /\ careful \in BOOLEAN
        /\ fetch_ = FALSE /\ broken = FALSE /\ got = 0 /\ asked = {}
        /\ open = FALSE /\ committed_ = FALSE /\ gaveUp = FALSE /\ inside = {}
-----------------------------------------------------------------------------
\* reset(), bind() and step_row(), each of which may throw.
Once(n) == UNION {IF r.rc = "error" THEN {r} ELSE StepOf(r.m) \cup Refused(r.m) :
                    r \in ResetOf(n)}

\* The statement is executed without its arguments first, and then with them.
Twice(n) == UNION {IF r.rc = "error" THEN {r} ELSE Once(r.m) : r \in Once(n)}

ExecuteOf(n) == Once(n)

\* select_one(): and if there is no row, fetch() steps a third time.
SelectOneOf(n) == UNION {IF r.rc = "done" THEN StepOf(r.m) ELSE {r} : r \in Twice(n)}

\* Mutant: whatever is no error counts as a row.
AnyRow(rc) == rc # "error"

IsRow(rc) == rc = "row"

\* Mutant: fetch() steps even if a row waits.
Always == TRUE

NeedsStep == ~fetch_
-----------------------------------------------------------------------------
\* May the program run something now?
MayRun == /\ alive /\ m.run < MaxRuns
          /\ careful /\ open => ~gaveUp /\ ~committed_

\* The runs that became of a call, which leaves n.
Ran(n) == inside' = IF open /\ n.writes THEN inside \cup (m.run + 1) .. n.run
                    ELSE inside

\* The call leaves machine n, with an exception if rc is an error.
Leaves(n, rc) == /\ m' = n
                 /\ broken' = (rc = "error")
                 /\ gaveUp' = (gaveUp \/ (open /\ rc = "error"))
                 /\ UNCHANGED <<open, committed_, alive, careful>>

\* A statement_t is prepared; the destructor of the one before takes no notice of
\* an error.
Prepare(writes) ==
  /\ MayRun
  /\ m' \in Prepared(m, writes)
  /\ fetch_' = FALSE /\ broken' = FALSE /\ got' = 0
  /\ UNCHANGED <<asked, transaction, gaveUp, alive, careful>>

\* An exception leaves fetch_ as it was.
Execute ==
  /\ MayRun
  /\ \E r \in ExecuteOf(m) :
       /\ Leaves(r.m, r.rc) /\ Ran(r.m)
       /\ fetch_' = IF r.rc = "error" THEN fetch_ ELSE IsRow(r.rc)
       /\ got' = 0
       /\ asked' = asked \cup ({r.m.run} \ {m.run})

\* fetch(): the row that waits, or else the next one; at the end there is none.
FetchWaiting ==
  /\ alive /\ ~NeedsStep
  /\ careful => ~broken
  /\ fetch_' = FALSE
  /\ got' = IF got < MaxRows THEN got + 1 ELSE got
  /\ UNCHANGED <<m, broken, asked, transaction, gaveUp, alive, careful>>

\* Once the statement is over, a fetch() runs it again.
FetchNext ==
  /\ MayRun /\ NeedsStep
  /\ careful => ~broken /\ (m.writes => m.vm \in {"ready", "row"})
  /\ \E r \in StepOf(m) :
       LET before == IF r.m.run = m.run THEN got ELSE 0 IN
       /\ Leaves(r.m, r.rc) /\ Ran(r.m)
       /\ got' = IF IsRow(r.rc) THEN before + 1 ELSE before
       /\ asked' = IF m.vm = "ready" THEN asked \cup {r.m.run} ELSE asked
  /\ fetch_' = FALSE

\* select_one(): the caller asks for one run, the second one, which has the
\* arguments. The statement ends with the call.
SelectOne(writes) ==
  /\ MayRun /\ (careful => ~writes)
  /\ \E n \in Prepared(m, writes) : \E r \in SelectOneOf(n) :
       /\ \E done \in Prepared(r.m, FALSE) : Leaves(done, r.rc)
       /\ Ran(r.m)
       /\ asked' = asked \cup ({m.run + 2} \cap 0 .. r.m.run)
  /\ fetch_' = FALSE /\ got' = 0
-----------------------------------------------------------------------------
\* begin(), commit() and rollback() of the database.
Command ==
  /\ alive /\ (careful => ~open)
  /\ \E r \in BeginOf(m) \cup CommitOf(m) \cup RollbackOf(m) :
       /\ m' = r.m
       /\ gaveUp' = (gaveUp \/ (open /\ r.rc = "error"))
  /\ UNCHANGED <<statement, transaction, alive, careful>>

\* The constructor of transaction_t; if it throws there is none.
Open ==
  /\ alive /\ ~open
  /\ \E r \in BeginOf(m) :
       /\ m' = r.m
       /\ open' = (r.rc = "done")
  /\ committed_' = FALSE /\ gaveUp' = FALSE /\ inside' = {}
  /\ UNCHANGED <<statement, alive, careful>>

\* transaction_t::commit(), which only sets the flag.
SetCommitted(committed) ==
  /\ alive /\ open /\ (careful => ~gaveUp)
  /\ committed_' = committed
  /\ UNCHANGED <<m, statement, open, inside, gaveUp, alive, careful>>

\* Mutant: the destructor commits whatever commit() was told.
AlwaysCommitted(n) == CommitOf(n)

Ended(n) == IF committed_ THEN CommitOf(n) ELSE RollbackOf(n)

\* The destructor. It must not throw: if its command fails the program is
\* terminated, and what was not committed is lost with it.
Close ==
  /\ alive /\ open
  /\ \E r \in Ended(m) :
       /\ alive' = (r.rc = "done")
       /\ m' = IF alive' THEN r.m ELSE RolledBack(r.m)
  /\ open' = FALSE
  /\ UNCHANGED <<statement, committed_, inside, gaveUp, careful>>

\* The program crashes: what is committed stays.
Crash ==
  /\ alive /\ alive' = FALSE
  /\ m' = RolledBack(m)
  /\ UNCHANGED <<statement, transaction, gaveUp, careful>>
-----------------------------------------------------------------------------
Next == \/ Execute \/ FetchWaiting \/ FetchNext
        \/ \E writes \in BOOLEAN : Prepare(writes) \/ SelectOne(writes)
        \/ Command \/ Open \/ Close \/ Crash
        \/ \E committed \in BOOLEAN : SetCommitted(committed)

Spec == Init /\ [][Next]_vars
-----------------------------------------------------------------------------
(* As long as no call of the statement has thrown, fetch() returns every row *)
(* of a run exactly once and in order, whether execute() or fetch() stepped  *)
(* to it: fetch_ is true if and only if SQLite stands at a row that nobody   *)
(* has fetched.                                                              *)
EachRowOnce ==
  ~broken => /\ m.row = got + (IF fetch_ THEN 1 ELSE 0)
             /\ fetch_ => m.vm = "row"

(* A careful program never finds a change in its data that it did not ask    *)
(* for: one execute() runs its statement once or not at all, whatever fails  *)
(* in it. An execute() that is called again asks for another run.            *)
NothingUnasked == careful => m.data \subseteq asked

(* What a careful program writes in the scope of a transaction_t is stored   *)
(* as a whole after a commit(), unless the program was terminated by the     *)
(* failure to commit, and not at all otherwise; until the scope ends nothing *)
(* of it is stored. No failing write, failing commit or crash leaves a part. *)
AllOrNothing ==
  careful => \/ ~open /\ committed_ /\ inside \subseteq m.stored
             \/ /\ inside \cap m.stored = {}
                /\ open \/ ~committed_ \/ ~alive
=============================================================================
