------------------------------- MODULE Loggers -------------------------------
(***************************************************************************)
(* The process-wide registry of loggers (src/logger.cxx, lines 267-317):   *)
(* a map from tags to loggers, guarded by one mutex, and built on first    *)
(* use through a once_flag together with its default logger "".            *)
(*                                                                         *)
(* logger() and remove_logger() go through call_once() and then lock the   *)
(* mutex; add_logger() locks the mutex and then goes through call_once().  *)
(* The function that call_once() runs locks the same mutex.                *)
(***************************************************************************)
EXTENDS Naturals, FiniteSets

CONSTANTS Threads,       \* the threads of the program
          Tags,          \* the tags a program registers its own loggers under
          Default,       \* the tag of the default logger: the empty string
          NoThread,      \* the owner of a free mutex
          MayThrow,      \* can an allocation, or opening a log file, throw?
          EarlyAdd,      \* may add_logger() come before the first logger()?
          MaxLoggers     \* bound: no add_logger() starts beyond so many

ASSUME LoggersAssumption == /\ NoThread \notin Threads
                            /\ Default \notin Tags
                            /\ {MayThrow, EarlyAdd} \subseteq BOOLEAN
                            /\ MaxLoggers \in Nat

VARIABLES once,       \* logger_once_s: "new", "running" or "done"
          mutex_,     \* the owner of loggers_mutex_s, or NoThread
          created,    \* does loggers_s point to a map?
          loggers_s,  \* the logger under each tag, 0 where there is none
          made,       \* how many loggers were ever built: they are 1 .. made
          removed,    \* history: the loggers that remove_logger() destroyed
          pc, call,   \* where each thread is, and the call it is inside of
          ref         \* the last reference that logger() gave to each thread

map  == <<created, loggers_s, made, removed>>
vars == <<once, mutex_, map, pc, call, ref>>

Keys    == Tags \cup {Default}
Methods == {"add", "remove", "logger"}
Calls   == [method : Methods, tag : Keys]
Refs    == [tag : Keys, logger : Nat]

TypeOK == /\ once \in {"new", "running", "done"}
          /\ mutex_ \in Threads \cup {NoThread}
          /\ created \in BOOLEAN
          /\ loggers_s \in [Keys -> Nat]
          /\ made \in Nat
          /\ removed \in SUBSET Nat
          /\ pc \in [Threads -> {"idle", "lock", "once", "init", "body"}]
          /\ call \in [Threads -> Calls]
          /\ ref \in [Threads -> Refs]

Init == /\ once = "new" /\ mutex_ = NoThread
        /\ created = FALSE /\ loggers_s = [k \in Keys |-> 0]
        /\ made = 0 /\ removed = {}
        /\ pc = [t \in Threads |-> "idle"]
        /\ call = [t \in Threads |-> [method |-> "logger", tag |-> Default]]
        /\ ref = [t \in Threads |-> [tag |-> Default, logger |-> 0]]
-----------------------------------------------------------------------------
Goto(t, label) == pc' = [pc EXCEPT ![t] = label]

\* validate_argument(! tag.empty()) of add_logger() and remove_logger().
Valid(method, k) == method = "logger" \/ k # Default

\* Mutant: every call locks first.
LockFirst(method) == "lock"

FirstStep(method) == IF method = "add" THEN "lock" ELSE "once"

\* A call whose argument is not valid throws here and changes nothing.
Begin(t, method, k) ==
  /\ pc[t] = "idle"
  /\ Valid(method, k)
  /\ method = "add" => (EarlyAdd \/ once = "done") /\ made < MaxLoggers
  /\ call' = [call EXCEPT ![t] = [method |-> method, tag |-> k]]
  /\ Goto(t, FirstStep(method))
  /\ UNCHANGED <<once, mutex_, map, ref>>

\* add_logger() takes the mutex and keeps it until it returns.
Lock(t) == /\ pc[t] = "lock" /\ mutex_ = NoThread
           /\ mutex_' = t
           /\ Goto(t, "once")
           /\ UNCHANGED <<once, map, call, ref>>

\* call_once(): the first thread runs the function, others wait for it.
OnceIsDone(t) == /\ pc[t] = "once" /\ once = "done"
                 /\ Goto(t, "body")
                 /\ UNCHANGED <<once, mutex_, map, call, ref>>

RunOnce(t) == /\ pc[t] = "once" /\ once = "new"
              /\ once' = "running"
              /\ Goto(t, "init")
              /\ UNCHANGED <<mutex_, map, call, ref>>

\* The function of call_once(), under the mutex: what is there already, from a
\* run that threw halfway, is not built again. Where the thread owns the mutex
\* itself it waits for ever, as std::mutex does in the builds with glibc.
Initialise(t) ==
  /\ pc[t] = "init" /\ mutex_ = NoThread
  /\ created' = TRUE
  /\ IF loggers_s[Default] = 0
     THEN /\ loggers_s' = [loggers_s EXCEPT ![Default] = made + 1]
          /\ made' = made + 1
     ELSE UNCHANGED <<loggers_s, made>>
  /\ once' = "done"
  /\ Goto(t, "body")
  /\ UNCHANGED <<mutex_, removed, call, ref>>

\* Mutant: a run that throws uses the flag up.
Consume == once' = "done"

Abandon == once' = "new"

\* An exception leaves call_once() to be tried again by the next caller.
InitialiseThrows(t) ==
  /\ MayThrow
  /\ pc[t] = "init" /\ mutex_ = NoThread
  /\ created' \in {created, TRUE}
  /\ Abandon
  /\ Goto(t, "idle")
  /\ UNCHANGED <<mutex_, loggers_s, made, removed, call, ref>>
-----------------------------------------------------------------------------
\* The rest of the call, with the mutex: add_logger() has held it all along, the
\* other two take it and release it within this step.
Body(t, method) == /\ pc[t] = "body" /\ call[t].method = method
                   /\ mutex_ = IF method = "add" THEN t ELSE NoThread

\* Mutant: the way out forgets the mutex.
ReturnLocked(t) == Goto(t, "idle") /\ UNCHANGED mutex_

Return(t) == Goto(t, "idle") /\ mutex_' = NoThread

Tag(t) == call[t].tag

\* Mutant: add_logger() does not look whether the tag is taken.
AnyTag(t) == TRUE

Vacant(t) == loggers_s[Tag(t)] = 0

\* Mutant: the tag can never be used again.
EraseTag(k) == loggers_s' = [j \in Keys \ {k} |-> loggers_s[j]]

Erase(k) == loggers_s' = [loggers_s EXCEPT ![k] = 0]

Add(t) ==
  /\ Body(t, "add") /\ Vacant(t)
  /\ made' = made + 1
  /\ loggers_s' = [loggers_s EXCEPT ![Tag(t)] = made + 1]
  /\ Return(t)
  /\ UNCHANGED <<once, created, removed, call, ref>>

\* The constructor of the logger cannot open its file, or memory is short.
AddThrows(t) ==
  /\ MayThrow
  /\ Body(t, "add") /\ Vacant(t)
  /\ Return(t)
  /\ UNCHANGED <<once, map, call, ref>>

Remove(t) ==
  /\ Body(t, "remove") /\ loggers_s[Tag(t)] # 0
  /\ removed' = removed \cup {loggers_s[Tag(t)]}
  /\ Erase(Tag(t))
  /\ Return(t)
  /\ UNCHANGED <<once, created, made, call, ref>>

Logger(t) ==
  /\ Body(t, "logger") /\ loggers_s[Tag(t)] # 0
  /\ ref' = [ref EXCEPT ![t] = [tag |-> Tag(t), logger |-> loggers_s[Tag(t)]]]
  /\ Return(t)
  /\ UNCHANGED <<once, map, call>>

\* The second validate_argument() of each: the tag is taken, or not there.
Refuse(t) ==
  /\ \/ Body(t, "add") /\ loggers_s[Tag(t)] # 0
     \/ Body(t, "remove") /\ loggers_s[Tag(t)] = 0
     \/ Body(t, "logger") /\ loggers_s[Tag(t)] = 0
  /\ Return(t)
  /\ UNCHANGED <<once, map, call, ref>>
-----------------------------------------------------------------------------
\* The steps a thread takes by itself once it is inside a call.
Step(t) == \/ Lock(t) \/ OnceIsDone(t) \/ RunOnce(t)
           \/ Initialise(t) \/ InitialiseThrows(t)
           \/ Add(t) \/ AddThrows(t) \/ Remove(t) \/ Logger(t) \/ Refuse(t)

Next == \E t \in Threads : \/ \E m \in Methods, k \in Keys : Begin(t, m, k)
                           \/ Step(t)

Spec == Init /\ [][Next]_vars

\* A thread that can go on again and again goes on in the end: it gets the
\* mutex, and its turn at call_once(). Nobody has to call.
Fairness == \A t \in Threads : SF_vars(Step(t))

FairSpec == Spec /\ Fairness
-----------------------------------------------------------------------------
(* A reference stays the reference to the logger under its tag until that   *)
(* logger is removed by that tag; add_logger() never replaces a logger, and *)
(* the default logger is one and the same for the whole process.            *)
StableReferences ==
  \A t \in Threads : LET r == ref[t] IN
    r.logger # 0 => \/ loggers_s[r.tag] = r.logger
                    \/ r.tag # Default /\ r.logger \in removed

(* Nobody looks into the map before it is there with its default logger,    *)
(* even if building it has failed before.                                   *)
MapIsReady == \A t \in Threads :
                pc[t] = "body" => created /\ loggers_s[Default] # 0

(* The thread that builds the registry never waits for a mutex whose owner  *)
(* waits for the registry to be built, nor for one it owns itself.          *)
NoCircularWait == \A t \in Threads :
                    pc[t] = "init" => mutex_ = NoThread \/ pc[mutex_] = "body"

\* The registry as it looks from outside: it seems to be born initialised.
Contract == INSTANCE LoggersContract WITH
  registry <- [k \in Keys |-> IF k = Default /\ loggers_s[k] = 0
                              THEN 1 ELSE loggers_s[k]],
  made <- IF made = 0 THEN 1 ELSE made

(* Building the registry on first use cannot be told from having it from    *)
(* the start, and every call takes effect in one step.                      *)
ContractSpec == Contract!Spec

(* Every call into the registry returns or throws.                          *)
CallsReturn == \A t \in Threads : pc[t] # "idle" ~> pc[t] = "idle"
=============================================================================
