# Verification of xutil

TLA+ models of the concurrent and stateful parts of the `xutil` C++ library, the
configurations that check them with TLC, and theorems about them that TLAPS proves
for every value of the constants. Paths below are relative to the repository.

## The system

The library is a set of small components that a program links; none starts a thread
or talks to another process. Whatever concurrency there is comes from the threads of
the program that share an object of the library.

| component | state | operations | what makes it hard | what makes it correct |
|---|---|---|---|---|
| event queue, `xxx/queue.hxx` | deque, `finished_`, one mutex, one condition variable | `enqueue`, `dequeue`, `terminate`, `empty`, `terminated` | waits, one notification for each event, spurious wake-ups, copies that throw, an unlocked read | FIFO, each event once, nobody left waiting, an answer of `terminated()` that fits |
| logger registry, `src/logger.cxx:267` | map from tags to loggers, one mutex, a once flag | `add_logger`, `remove_logger`, `logger` | lazy initialisation that may throw, two locks in two orders, references that outlive the lock | references stay good, one default logger, no deadlock |
| log file, `src/logger.cxx:50` | path, date of the file, stream, files on the disk | `log_`, `set_path`, rotation | lines stamped before the lock, midnight, failing renames and opens, buffers, crashes and restarts | no line overwritten or copied, backups of one day, a logger that goes on |
| redux store, `xxx/redux.hxx` | state, listeners, readers-writer mutex | `dispatch`, `state`, `fullcopied_state`, `add_`/`remove_`/`clear_listener(s)` | two locks in one call, listeners under the shared lock, handles that are indices | listeners end with the current state, never go back, a handle names one listener |
| signals, `src/sig.cxx` | `interrupted_s`, the process's handlers and mask | `wait_for_signals`, `disable_signal_handlers` | a signal between two steps; an interrupted wait that starts over | a signal is reported, a wait ends |
| database, `xxx/db.hxx` | a SQLite statement and the flag `fetch_`; a transaction's `committed_` | `execute`, `fetch`, `select_one`, transactions | sequences of calls, a step that fails halfway | each row once, a statement runs as often as it was asked to |
| configuration, `src/config.cxx`, `xxx/config.hxx` | a map from keys to values | load, `get`, `get_as`, `get_options` | second values, conversions at the end of the text | an option wins over the file, nothing is left out, conversions as documented |
| files, scope guard, exceptions, initialisation | none | pure functions and wrappers | | |
| SQLite (`src/sqlite3.c`, `src/shell.c`) | third-party | | | |

How they interact. The registry owns the loggers, and each logger owns its file: a
call of `logger()` returns a reference, and lines go to the file long after the lock
of the registry is gone. `log_()` and the others use `ignore_exceptions()` and
`validate_argument()` of `xxx/exceptions.hxx`. The queue, the store, the database and
the configuration are used by the program alone; `samples/main.cpp` and
`test/ut.cxx` show how. The registry and the file of a logger share no lock
while a line is logged, which is why they are two models and not one: `add_logger()`
sees from the file no more than whether its constructor throws (`AddThrows`).

## The modules

`X.tla` is a component, `XContract.tla` what it promises to its callers,
`XProofs.tla` its theorems, `MCX.tla` with `MCX*.cfg` its instances for TLC.

### Queue, QueueContract, QueueProofs

One action for each way through a method. `Begin` enters it, `Lock` takes the mutex
(also the one that `wait()` takes back), and an action such as `Enqueue` is the
critical section up to the release. This is the granularity of the code, as whatever
is shared is touched with the mutex, but for `terminated()`.

- `waiting` is the wait set of the condition variable. `Wait` releases the mutex and
  blocks in one step, as `condition_variable::wait` promises; `SpuriousWakeup` is its
  other promise. `NotifyOne` removes any one thread.
- `EnqueueThrows` and `DequeueThrows` are the copies that the comments in the code
  say may throw. `dequeue()` copies before it pops, so that the event stays.
- `terminated()` reads a plain `bool` without the mutex. `Answers(t)` is what the
  read may give: the old or the new value, until thread `t` has itself locked the
  mutex after `finished_` rose (`synced`). A compiler that tears or invents the read
  of one `bool` is not modelled.
- `accepted`, `delivered` and `told` are history. `QueueContract` has those and a
  flag, and no lock; `Queue` implements it with `closed <- finished_`.

### Loggers, LoggersContract, LoggersProofs

`add_logger()` locks the mutex and then runs `call_once()`; the other two run
`call_once()` first. The function of `call_once()` locks the same mutex. `once` has
the three states of a once flag; an exception sets it back to `"new"` (`Abandon`),
and the map may be there by then without its default logger, which is what the two
`if`s of the code are for. `Initialise` and the bodies of the calls are one step
each, under the mutex.

- `EarlyAdd` says whether a program may call `add_logger()` before any `logger()`.
  When it does, it waits for ever: the thread owns the mutex that its own
  initialisation locks. Locking an owned `std::mutex` is undefined; with glibc it
  blocks, which is what the model does. Where a library throws instead, that call
  fails and the next one finds the once flag free again.
- A logger is a number. Its use after `remove_logger()` is left to the caller, as in
  the code; `StableReferences` says that nothing else ends a reference.
- `LoggersContract` is a registry that was there from the start. `Loggers`
  implements it with the default logger added to an empty map.

### LogFile, LogContract, LogFileProofs

One logger and the files under its paths. Everything under `file_mutex_` is one
step; before it come `Stamp`, the time of the line, and `CheckPath`, the read of
`path_` without the mutex. What follows the mutex is split by its ways out: `Write`,
`Drop` (the stream is closed or bad), `Rotate`, and the two failures of a rotation,
whose exception `ignore_exceptions()` swallows. `SetPath`, `StopFile` and
`SetPathThrows` are the ways through `set_path()`.

- A file name is a path, a date and a suffix, not a string: `Live(p)` is the file
  that is written, `Backup(p, d, n)` one that was set aside. `PreviousPath` is the
  search of `get_previous_path_()`: the name without a suffix, and then the suffixes
  `.0` to `.(MAX_RETRY)`, 12 names in all, of which a run has `MaxRetry + 2`.
- `Flush`, `StreamFails`, `Tick`, the failures of `open` and `rename`, and `Restart`,
  which is a clean end or a crash, belong to the environment. After a failed write
  the stream stays bad, since only `set_path()` and a rotation clear it.
- `Resumes` is whether the program opens a file that is already there.
- `LogContract` is a log without threads, files, dates and paths: lines are taken,
  and what is pending is stored or lost as a whole. `LogFile` implements it with
  `stored` as the lines of all its files, wherever they were moved.

### Store, StoreProofs

States and listeners are numbers. The part of `dispatch()` under the exclusive lock
is the step `Reduce` or `ReduceThrows`; it needs that nobody reads (`Exclusive`).
Under the shared lock each call of a listener is a step, so that other readers come
in between. A handle is an index into `listeners_`, as in the code; an entry 0 is
the placeholder that `remove_listener()` leaves.

- The reducer gets the state itself and not a copy, so that `ReduceThrows` may leave
  a changed state behind, of which no listener is told.
- `own`, `gone`, `seen`, `missed` and `stale` are history. `missed` holds the
  listeners that an exception kept from a state: `Converges` is about all the others.
  `stale` rises when somebody uses a handle from before a `clear_listeners()`, since
  the indices start again there and the handle may name a listener of somebody else:
  `RegisteredStay` is what holds until then.

### Sqlite, Database, DatabaseProofs

`Sqlite` is the machine below the library: a record for a connection with its one
statement, and for each call of the API the set of its possible results. A run of a
writing statement is a number, and the data is the set of the runs it holds, so that
a write that happens twice, or is undone, can be seen. A write makes its changes in
its first step. A step may fail at any point: most errors undo the run, some roll the
whole transaction back and leave it (a full disk), and `OR FAIL` keeps what was done.

`Database` is `xxx/db.hxx` over it, `fetch_` and `committed_` included. `Execute` is
`reset()`, the binding and the first step; `FetchWaiting` and `FetchNext` are the
two ways of `fetch()`; `SelectOne` executes without and then with the arguments, and
fetches; `Close` is the destructor of `transaction_t`, which ends the program when
its command fails. One statement and one `transaction_t` live at a time, and a
program is any sequence of calls. `careful` marks the programs that two of the
properties are about, and the module lists what they refrain from.

### Signals, SignalsProofs

`posix` is the variant of `wait_for_signals()` that was compiled. On POSIX systems
`sigtimedwait()` takes a signal that comes while it waits (`Take`); at other times
the handler takes it (`HandleAtOnce`). Elsewhere a wait is a sleep, `Read` and
`Clear` of the flag are two steps, and `Deliver` and `Handle` are the beginning and
the end of a handler in a thread of its own; in between its signal has the default
action. One thread waits. `Interrupt` is `EINTR`, after which the wait starts over
with the whole timeout.

### Config, FoldLemmas, ConfigProofs

A program takes its arguments (`GetOptions`), makes a configuration of them and of a
file (`Construct`, `LoadLine`, `ReadFails`), and has it with the swap at the end of
the constructor (`Swap`). A constructor that throws yields no object, so that the
properties ask for nothing before `"ready"`. Arguments and lines are given by what the regular
expressions of the code find in them: an error, nothing to keep, or a key and a text.
The four sorts of keys are those that the expressions tell apart. `GetAsInt` is
`get_as<int>()` as the set of the values it may return, empty when it throws, and is
compared with `Denotes`, which says what number a text stands for.

`InOrder(values, items, k, n)` says of a list of values that it holds those of the
first `n` items with the key `k`, in their order: by counting, and not by repeating
how the code collects them. `OptionsComplete` is stated with it. `OptionsFirst` is
about an option against the file and leaves open which of two lines with one key
wins, since the code and its comment disagree there (see below).

## The runs

| run | instance | checks | what it shows |
|---|---|---|---|
| `queue` | 3 threads, 2 events, 2 accepted, throws | `TypeOK`, `Fifo`, `WaitersAreLive`, `RefusedSeesTerminated`, `ContractSpec` | order and exactly-once delivery, whatever throws; a refused thread reads `terminated()` as true; the contract |
| `queue_live` | 3 threads, 1 event, 2 accepted, no throws, fair | `NoLostWakeup`, `WaiterIsServed`, `TerminateReleases` | one notification for each event is enough; `terminate()` frees everybody |
| `queue_throw` | the same with throws | `WaiterIsServed`, violated | the first finding |
| `loggers` | 2 threads, 2 tags and the default, 3 loggers, throws, fair | `TypeOK`, `StableReferences`, `MapIsReady`, `NoCircularWait`, `ContractSpec`, `CallsReturn` | the registry, when `add_logger()` comes after the first `logger()` |
| `loggers_first_add` | 2 threads, 1 tag, `EarlyAdd` | `CallsReturn`, violated | the second finding |
| `logfile` | 2 threads, 2 paths, both modes, 2 days, 2 lines, 1 restart, failures | `TypeOK`, `Conserved`, `ContractSpec`, `BackupsAreFinal` | no line that went into the stream lost but with a buffer, whatever fails; the contract; what was set aside stays as it is |
| `logfile_daily` | 2 threads, 1 daily path, 3 days, 5 lines, 5 names for a day | `BackupIsOfItsDay`, `NeverStuck` | late lines of yesterday, and how many names a day needs |
| `logfile_single` | 2 threads, 1 single-file path, 2 days | `SingleFileIsKept`, violated | the third finding |
| `store` | 2 threads, 3 listeners, 2 states, throws, readers, clear, fair | `TypeOK`, `RegisteredStay`, `Converges`, `NeverBackwards`, `ToldOnReturn`, `SameLatestState`, `DispatchReturns` | overlapping dispatches, handles, exceptions; the listeners of a dispatch know one state, the latest, while it calls them; when it returns each knows its state or a later one; after all of them every listener is up to date |
| `database` | 4 runs of up to 2 rows, every failure, crashes | `TypeOK`, `EachRowOnce`, `NothingUnasked`, `AllOrNothing` | cursors, failures and transactions |
| `signals` | 2 signals, 2 ticks, 4 arrivals, 2 interruptions, both variants, fair | `TypeOK`, `OneAnswerEach`, `NoneMissed`, `WaitEnds` | signals before, in and after a wait; `NoneMissed` is about the variant that reads the flag |
| `config` | up to 2 arguments, up to 3 lines, texts of up to 3 characters | `TypeOK`, `OptionsFirst`, `WholeFile`, `OptionsComplete`, `Conversions` | what a program finds in its configuration |

Bounds and why they are enough.

- Queue. A lost wake-up needs two waiting threads and one that produces, or two
  events in the buffer and a waiter between them; three threads and two events give
  all of these, and the theorems below need no bound. `MaxAccepted` stops `Begin`,
  not what happens later. `TerminateReleases` and `WaiterIsServed` need no second
  event value, as nothing in the code looks at one.
- Loggers. A circle of waiting is of two threads: the one that initialises and the
  one that owns the mutex. Two tags, so that one is removed while the other stays,
  and three loggers, so that a tag is used again after a removal. The theorems about
  the invariants hold for any number of each.
- LogFile. Two lines and a restart are enough for a backup, a line in the buffer and
  a crash in between; two paths for a change of path. `MaxRetry = 0` leaves two
  names, so that the search also ends without one. In `logfile_daily` the five names
  are exactly what two threads need around a midnight: each late line sets a file
  aside under today, the next line of today sets one aside under yesterday. The code
  has 12, enough for five threads caught by one midnight.
- Store. Two dispatches and a reader cover the gap between the two locks; three
  listeners let one be removed with others before and after it, and a handle be used
  again after a clear. The bounds stop the beginning of a dispatch and of
  `add_listener()` only.
- Database. `select_one()` takes up to three runs, and the fourth is a write before,
  in or after it; two rows are a first and a last one. A failure and a crash may come
  with each step. `MaxRuns` stops the beginning of a call, never the end of one.
- Signals. Four arrivals are two of each kind, so that one comes while the handler of
  the other runs and another between the read and the clearing of the flag.
- Config. Two values for a key from the options and two from the file, with an error
  between, before and behind them. A text of three characters has a blank, a sign or
  a digit before and behind another one; with `MaxInt = 19` two digits are too many
  for an `int` or not. Longer texts repeat these. A text of blanks comes from an option
only, as those before the value of a line go.

Deadlock is checked in every run but `loggers_first_add`, where the program does stop
(that it does is the finding), and `database`, `signals` and `config`, where a program
ends, crashes, is ended by a signal, or has its configuration. `set_path("")`,
`logger()`, `terminated()` and the like are possible in every state the bounds allow,
so that a bound alone never looks like a deadlock.

Symmetry is used in runs with no liveness property, on threads, events and paths that
the modules only compare with one another.

### Fairness

- Queue: weak fairness of each thread's steps inside a method, as a scheduler runs
  threads that can run, and strong fairness of `Lock`, as a mutex that becomes free
  again and again is in the end taken by one who asks. Nobody has to call, to
  terminate, or to wake up spuriously. The standard does not promise that a
  `std::mutex` is fair; the platforms' are in practice, and the liveness properties
  hold under that assumption only.
- Loggers and Store: strong fairness of the steps of a thread inside a call, for the
  same reason. It does not assume that a lock becomes free: `DispatchReturns` asks
  that again and again there is a moment without a reader outside of the listeners,
  since `std::shared_mutex` may let readers that overlap keep a writer out.
- Signals: weak fairness of what the waiting thread and the clock do by themselves.
  No signal has to come, and nobody has to call. A wait ends if its interruptions
  do, which `MaxInterrupts` stands for: one that is interrupted for ever lasts for
  ever, as each interruption starts the timeout again.

## What is proved

TLAPS checks the following for any values of the constants that satisfy the
assumptions named in the modules: finitely many threads of which `NoThread` is none
(`QueueAssumption`; `LoggersAssumption`, with the default tag), an empty path that is
no path and a first day (`LogFileAssumption`), keys of a file that are no numbers and
not empty, and arguments and lines of the shapes that the regular expressions give
(`ConfigAssumption`), and bounds that are numbers (`StoreAssumption`,
`SqliteAssumption`, `DatabaseAssumption`, `SignalsAssumption`).

| theorem | property | along which argument |
|---|---|---|
| `QueueProofs!TypeCorrect` | `TypeOK` | inductive as it stands |
| `QueueProofs!FifoCorrect` | `Fifo` | inductive with the types; `ShiftHead` moves the head of the buffer to the end of what was delivered, `PrefixOfConcat` is `terminate()` |
| `QueueProofs!ImplementsContract` | `ContractSpec` | each action is a step of the contract or a stutter; that `dequeue()` delivers the event the contract asks for is `Fifo` |
| `QueueProofs!WaitersCorrect` | `WaitersAreLive` | together with who may own the mutex |
| `QueueProofs!RefusedSeesTerminatedCorrect` | `RefusedSeesTerminated` | needs `ToldInv`: a thread inside its critical section has seen what `finished_` is, and a thread that was told is synchronised with a `finished_` that never falls |
| `QueueProofs!NoLostWakeupCorrect` | `NoLostWakeup` | under `MayThrow = FALSE`; counts the awake consumers as `enqueue()` wakes one and `dequeue()` leaves with one event |
| `LoggersProofs!TypeCorrect` | `TypeOK` | with `CallsValid`: the default tag is never added or removed |
| `LoggersProofs!StableReferencesCorrect` | `StableReferences` | `RegistryInv`: with `OnceInv`, as only the one thread that initialises puts a default logger in place |
| `LoggersProofs!MapIsReadyCorrect` | `MapIsReady` | `OnceInv`: one thread in the initialisation, and a body only after it is done |
| `LoggersProofs!NoCircularWaitCorrect` | `NoCircularWait` | under `EarlyAdd = FALSE`; `LockInv`: whoever owns the mutex between steps is in `add_logger()`, which comes after the initialisation |
| `LoggersProofs!ImplementsContract` | `ContractSpec` | `MadeInv`: no logger is made before the default one, so that the step that makes it maps to a stutter |
| `LogFileProofs!TypeCorrect` | `TypeOK` | with `OpenInv` |
| `LogFileProofs!ConservedCorrect` | `Conserved` | `OpenInv`: a logger with a path has its file on the disk, and a closed stream has an empty buffer; `PreviousPathIsFree`: the search for a name finds no file that is there, from `Smallest`, the least element of a set of numbers; then closing, renaming, opening and writing each keep every line in one place (`CloseSound`, `RenameSound`, `OpenSound`, `AddSound`, `LoseSound`) |
| `LogFileProofs!BackupIsOfItsDayCorrect` | `BackupIsOfItsDay` | under `Modes = {TRUE}` and `Resumes = FALSE`; `DayInv`: the lines of the file that is written, and of the buffer, are all of the day `daily_` |
| `LogFileProofs!ImplementsContract` | `ContractSpec` | closing a stream stores what is pending (`CloseStores`), renaming and opening move no line off the disk (`RenameStores`, `OpenStores`), and what is pending is the buffer, by `Conserved` (`PendingIsBuffer`) |
| `LogFileProofs!BackupsAreFinalCorrect` | `BackupsAreFinal` | only a live file is ever written or renamed, and it is renamed to a name that was free |
| `LogFileProofs!NeverStuckCorrect` | `NeverStuck` | under `MayFail = FALSE` and `2 * Cardinality(Threads) + 1 <= MaxRetry + 2`; `StuckInv` counts for each path and date, see below |
| `StoreProofs!TypeCorrect` | `TypeOK` | with `Base`: a listener in the list is where its handle says, and a thread outside of its calls begins at the first |
| `StoreProofs!RegisteredStayCorrect` | `RegisteredStay` | `HandleInv`: a listener that nobody took away is in the list, at its handle |
| `StoreProofs!NeverBackwardsCorrect` | `NeverBackwards` | `SeenInv`: nobody knows a state that has not come yet |
| `StoreProofs!SameLatestStateCorrect` | `SameLatestState` | `ToldInv`: a dispatch at its listeners is a reader, so that neither the state nor the list changes, and each listener it has called knows the state |
| `StoreProofs!ToldOnReturnCorrect` | `ToldOnReturn` | `ToldInv` again, and that the state never falls behind what a dispatch has made |
| `StoreProofs!ConvergesCorrect` | `Converges` | `ReachInv`: each listener in the list knows the current state, or was missed, or a dispatch that is under way has still to come to it |
| `DatabaseProofs!TypeCorrect` | `TypeOK` | with `MachineOK`: runs are numbered upwards, and what is committed is there |
| `DatabaseProofs!EachRowOnceCorrect` | `EachRowOnce` | `Cursor`; what each call of SQLite keeps of its machine comes first (`Follows`, `Kept`, `Sound`) |
| `DatabaseProofs!NothingUnaskedCorrect` | `NothingUnasked` | a call brings no changes but of its new runs (`Follows`) |
| `DatabaseProofs!AllOrNothingCorrect` | `AllOrNothing` | `Scope`: while the scope is open nothing of it is stored, and as long as nothing has thrown it is a transaction of SQLite with all of the writes in it |
| `SignalsProofs!TypeCorrect` | `TypeOK` | with `PosixInv`: on POSIX systems no handler runs beside the wait |
| `SignalsProofs!OneAnswerEachCorrect` | `OneAnswerEach` | `AnswerInv` counts a signal where it is: in a handler, in the flag or its copy, or in an answer |
| `SignalsProofs!NoneMissedCorrect` | `NoneMissed` | `DueInv`: what is due is in the flag until it is read, and then in the copy |
| `ConfigProofs!ConfigTypeOK` | `TypeOK` | what `get_options()` collects is a map from keys to sequences of texts, whatever it folds over |
| `ConfigProofs!ConfigOptionsComplete` | `OptionsComplete` | `ParsedIsFold` and `ParsedSteps` turn the fold of `get_options()` into one argument after the other; `InOrderStep` then adds one item to a list that is in order |
| `ConfigProofs!ConfigOptionsFirst` | `OptionsFirst` | `Progress`: while the file is read, each key has the values of its options and then those of the lines read so far, none of which is wrong; `Made`: the swap hands all of it on; `FirstInOrder`: the first of a list that is in order is the value of the least item with the key |
| `ConfigProofs!ConfigWholeFile` | `WholeFile` | `Progress` and `Made`, at the end of the file: a key that an argument or a line has, has a value |
| `ConfigProofs!ConfigConversions` | `Conversions` | `TextConverts`, for any text: where the blanks, the sign and the digits end is unique (`LeadingIs`), so that a text has one reading (`OneReading`), and what `>>` takes of it is compared with what it denotes |

How many names a day needs. While a date is today's, its file is set aside only for a
line of an earlier date, and each thread has at most one such line: backups of today
and threads with an earlier line are together no more than the threads. When the day
is over, its file is set aside once more, and once again for each thread that still
had a line of it. `StuckInv` states both counts, and that the number of backups, the
lines still to come and a file of that date, if the logger has it open, are together
at most `2 * Cardinality(Threads) + 1`. It is inductive for any modes and paths, also
for a program that takes up old files. The code tries 12 names, which is enough for
five threads; the run `logfile_daily` has two threads and exactly the five names that
the theorem asks for.

`FoldLemmas` has the induction that the proofs about `Config` and the search for the
smallest free name need: over a set of numbers, from the least element of its
complement, as the induction rules of the library take a predicate. From it comes
that the function by which the community modules define `FoldLeft` exists
(`FoldExists`), and that a fold is the last of a sequence of steps (`FoldPrefixes`).

The assumptions `MayThrow = FALSE`, `EarlyAdd = FALSE` and `Modes = {TRUE}` are
needed: without the first two the runs `queue_throw` and `loggers_first_add` show
what happens, and a single file takes lines of more than one day. `Resumes = FALSE`
is needed too, as a file of an earlier day is not rotated when it is opened again.

For `NeverStuck`, `MayFail = FALSE` is needed as a failed rename leaves the stream
closed, and the number of names as the run fails with one name less (its mutant).

Only model-checked: the liveness properties `WaiterIsServed`, `TerminateReleases`,
`CallsReturn`, `DispatchReturns` and `WaitEnds`, as TLAPS has no backend for fairness
here. Every other property of a passing run has its theorem. The counterexamples of
the three findings are runs and cannot be theorems.

## Findings

1. `dequeue()` whose copy throws (`xxx/queue.hxx:54`) has used up the one
   notification of its event: another thread stays blocked beside it until the next
   `enqueue()` or `terminate()`. Run `queue_throw`.
2. `add_logger()` before the first `logger()` or `remove_logger()`, or at the same
   time, waits for ever (`src/logger.cxx:275`). Run `loggers_first_add`.
3. A logger with a single file turns into a daily one with its first line, since
   `log_()` stores the date whatever the mode (`src/logger.cxx:138`). Run
   `logfile_single`.

Met while modelling, without a run of their own:

- A file of an earlier day that is opened again is not rotated, because its date is
  not known any more (`src/logger.cxx:256`), so that `logfile_daily` has
  `Resumes = FALSE`.
- After `clear_listeners()` the indices start again, and a handle from before removes
  a listener of somebody else (`xxx/redux.hxx:139`): the premise `~stale`.
- A comment at the line that stores a value says "It overrides previous value if the
  key already has existed" (`src/config.cxx:94`), and `xxx/config.hxx:27` that it
  "allows only one value for a key". The value is appended, and `get_as()` reads the
  first, so that of two lines the earlier one wins; the test at `test/ut.cxx:307`
  expects both values. No property states which of the two wins.
- `get_as<int>()` returns 0 for a lone sign, the nearest `int` for a number that is
  none, and an unset value for a text of blanks, where the documentation
  (`xxx/config.hxx:47-49`) says that it throws. `Conversions` names these three and
  shows that there is no other.
- An option may begin with a digit (`xxx/config.hxx:106`), and plain arguments have
  the key `""`, but the constructor of the configuration rejects both. A line whose
  value has a carriage return is a syntax error, so that files with CRLF are refused.
- `select_one()` steps its statement in `execute(sql)`, again in `execute(args)`, and
  a third time if there is no row (`xxx/db.hxx:346`); `fetch()` after the last row
  runs the statement again (`xxx/db.hxx:210`). A writing statement writes each time.
- When SQLite rolls a transaction back by itself, or the commit fails, the destructor
  of `transaction_t` throws, which ends the program (`xxx/db.hxx:466`).
- The constructors of `db_t` read the error message from a handle they have closed
  (`xxx/db.hxx:286`).
- On POSIX systems a signal between two waits is never reported (`src/sig.cxx:60`);
  elsewhere a second signal before the handler is installed again ends the program.

## Not modelled

- Lifetimes: a queue, a store or a logger that is destroyed while threads use it.
- In `LogFile`: two loggers or programs on one path, `exists()` that fails, a string
  `path_` read while it is assigned, clocks that go back.
- In `Store`: listeners, reducers and functors that call back into the store, which
  lock what their thread holds.
- The console, syslog, formatting and dumping of a log line; `level_` and `console_`.
- Actions of the store (immutable values), the scope guard, the exception helpers,
  the initialisation of locales, the version number; the third-party SQLite.
- Whole-file reading, which is a pure function of bytes cut at the first NUL and which
  nothing else in the library uses.
- In `Database`: opening, closing and moving a database, the conversions of columns
  and arguments, several statements at once, threads that share a connection.
- In `Signals`: timeouts that make an invalid `timespec`, more than one waiting thread.
- In `Config`: `get_as()` for booleans and strings, which compares or copies a text,
  and the constructors from a file alone or from options alone, which fill the member
  in place and have no `Swap`.
- Cases that the properties except, each named with its hazard in `PROJECT.json`: the
  use of a logger after its removal, handles from before a clear, lines that a bad
  stream throws away, a statement that `select_one()`, `fetch()` or a retry runs
  again, `fetch()` after an exception, writes behind SQLite's own rollback, readers
  that overlap for ever, and interruptions without end.

SQLite and its shell (`src/sqlite3.c`, `src/shell.c` and their headers) are 99% of the
lines of the repository. They are third-party, and no part of the library's logic
is in them, so that the map covers little of the repository as a whole.

## Plan

Done: every component with state of its own, most shared first, with the theorems
above. What is left, in this order:

1. `SharedLogFile`: two loggers of `LogFile` on one path, in one process or two, where
   the search for a free name and the rename are two steps.
2. `Store` with a listener or a reducer that calls back into its store, over a mutex
   that is not recursive.
