---------------------------- MODULE LoggersProofs ----------------------------
(***************************************************************************)
(* Theorems about the registry of loggers, for any threads and any tags,   *)
(* proved with TLAPS. NoCircularWait alone needs that no add_logger()      *)
(* comes before the registry is built.                                     *)
(***************************************************************************)
EXTENDS Loggers, TLAPS

\* One-line parts of the actions, expanded everywhere.
USE DEF Goto, Return, Body, Tag, Vacant, Erase, Abandon, FirstStep, map

LEMMA TypeInit == Init => TypeOK
<1>1. /\ [method |-> "logger", tag |-> Default] \in Calls
      /\ [tag |-> Default, logger |-> 0] \in Refs
  BY DEF Calls, Refs, Methods, Keys
<1>2. ASSUME Init
      PROVE  /\ call \in [Threads -> Calls] /\ ref \in [Threads -> Refs]
  BY <1>1, <1>2, Zenon DEF Init
<1>3. ASSUME Init
      PROVE  /\ loggers_s \in [Keys -> Nat]
             /\ pc \in [Threads -> {"idle", "lock", "once", "init", "body"}]
  BY <1>3 DEF Init
<1>4. ASSUME Init PROVE created \in BOOLEAN
  BY <1>4, Zenon DEF Init
<1>5. ASSUME Init
      PROVE  /\ once \in {"new", "running", "done"}
             /\ mutex_ \in Threads \cup {NoThread}
             /\ made \in Nat /\ removed \in SUBSET Nat
  BY <1>5 DEF Init
<1>6. QED BY <1>2, <1>3, <1>4, <1>5, Zenon DEF TypeOK

LEMMA TypeStep == TypeOK /\ [Next]_vars => TypeOK'
<1> SUFFICES ASSUME TypeOK, [Next]_vars PROVE TypeOK'
  OBVIOUS
<1> USE LoggersAssumption DEF TypeOK
<1>1. ASSUME NEW t \in Threads, NEW m \in Methods, NEW k \in Keys, Begin(t, m, k)
      PROVE  TypeOK'
  <2>1. [method |-> m, tag |-> k] \in Calls
    BY DEF Calls
  <2>2. QED BY <1>1, <2>1 DEF Begin
<1>2. ASSUME NEW t \in Threads,
             \/ Lock(t) \/ OnceIsDone(t) \/ RunOnce(t)
             \/ InitialiseThrows(t) \/ AddThrows(t) \/ Refuse(t)
      PROVE  TypeOK'
  BY <1>2 DEF Lock, OnceIsDone, RunOnce, InitialiseThrows, AddThrows,
              Refuse
<1>3. ASSUME NEW t \in Threads, Initialise(t) PROVE TypeOK'
  BY <1>3 DEF Initialise, Keys
<1>4. ASSUME NEW t \in Threads, Add(t) \/ Remove(t) PROVE TypeOK'
  <2>1. Tag(t) \in Keys /\ loggers_s[Tag(t)] \in Nat
    BY DEF Calls
  <2>2. CASE Add(t)
    BY <2>1, <2>2 DEF Add
  <2>3. CASE Remove(t)
    BY <2>1, <2>3 DEF Remove
  <2>4. QED BY <1>4, <2>2, <2>3
<1>5. ASSUME NEW t \in Threads, Logger(t) PROVE TypeOK'
  <2>1. [tag |-> Tag(t), logger |-> loggers_s[Tag(t)]] \in Refs
    BY DEF Calls, Refs
  <2>2. QED BY <1>5, <2>1 DEF Logger
<1>6. CASE UNCHANGED vars
  BY <1>6 DEF vars
<1>7. QED BY <1>1, <1>2, <1>3, <1>4, <1>5, <1>6 DEF Next, Step

(* Every variable keeps its type in every behaviour of the registry.        *)
THEOREM TypeCorrect == Spec => []TypeOK
BY TypeInit, TypeStep, PTL DEF Spec
-----------------------------------------------------------------------------
\* What add_logger() and remove_logger() validate keeps the default logger safe.
CallsValid == \A t \in Threads : call[t].method # "logger" => call[t].tag # Default

\* call_once(): one thread at a time runs the function, none is past it before it
\* is done, and once done the map and its default logger are there.
OnceInv == /\ \A t \in Threads : pc[t] = "init" => once = "running"
           /\ \A t, u \in Threads : pc[t] = "init" /\ pc[u] = "init" => t = u
           /\ \A t \in Threads : pc[t] = "body" => once = "done"
           /\ once = "done" => created = TRUE /\ loggers_s[Default] # 0

RegistryInv == CallsValid /\ OnceInv /\ StableReferences

LEMMA RegistryInit == Init => RegistryInv
BY DEF Init, RegistryInv, CallsValid, OnceInv, StableReferences

LEMMA RegistryStep == TypeOK /\ RegistryInv /\ [Next]_vars => RegistryInv'
<1> SUFFICES ASSUME TypeOK, RegistryInv, [Next]_vars PROVE RegistryInv'
  OBVIOUS
<1> USE LoggersAssumption DEF TypeOK, RegistryInv
<1>1. CallsValid'
  <2>1. ASSUME NEW t \in Threads, NEW m \in Methods, NEW k \in Keys, Begin(t, m, k)
        PROVE  CallsValid'
    BY <2>1 DEF Begin, Valid, CallsValid, Calls
  <2>2. ASSUME UNCHANGED call PROVE CallsValid'
    BY <2>2 DEF CallsValid
  <2>3. QED
    BY <2>1, <2>2
       DEF Next, Step, Lock, OnceIsDone, RunOnce, Initialise, InitialiseThrows,
           Add, AddThrows, Remove, Logger, Refuse, vars
<1>2. OnceInv'
  <2>1. ASSUME NEW t \in Threads, NEW label \in {"lock", "once", "body"},
               Goto(t, label), label = "body" => once = "done",
               UNCHANGED <<once, created, loggers_s>>
        PROVE  OnceInv'
    BY <2>1 DEF OnceInv
  <2>2. ASSUME NEW t \in Threads, RunOnce(t) PROVE OnceInv'
    BY <2>2 DEF RunOnce, OnceInv
  <2>3. ASSUME NEW t \in Threads,
               Initialise(t) \/ InitialiseThrows(t)
        PROVE  OnceInv'
    <3>1. CASE Initialise(t)
      <4>1. loggers_s'[Default] # 0
        BY <3>1 DEF Initialise, Keys
      <4>2. \A u \in Threads : pc'[u] # "init"
        BY <3>1 DEF Initialise, OnceInv
      <4>3. QED BY <3>1, <4>1, <4>2 DEF Initialise, OnceInv
    <3>2. CASE InitialiseThrows(t)
      <4>1. \A u \in Threads : pc'[u] # "init" /\ pc'[u] # "body"
        BY <3>2 DEF InitialiseThrows, OnceInv
      <4>2. QED BY <3>2, <4>1 DEF InitialiseThrows, OnceInv
    <3>3. QED BY <2>3, <3>1, <3>2
  <2>4. ASSUME NEW t \in Threads, AddThrows(t) \/ Logger(t) \/ Refuse(t)
        PROVE  OnceInv'
    BY <2>4 DEF AddThrows, Logger, Refuse, OnceInv
  <2>5. ASSUME NEW t \in Threads, Add(t) \/ Remove(t) PROVE OnceInv'
    <3>1. Tag(t) # Default
      BY <2>5 DEF Add, Remove, CallsValid
    <3>2. QED BY <2>5, <3>1 DEF Add, Remove, OnceInv, Keys
  <2>6. CASE UNCHANGED vars
    BY <2>6 DEF vars, OnceInv
  <2>7. ASSUME NEW t \in Threads,
               \/ \E m \in Methods, k \in Keys : Begin(t, m, k)
               \/ Lock(t) \/ OnceIsDone(t)
        PROVE  OnceInv'
    BY <2>1, <2>7 DEF Begin, Lock, OnceIsDone
  <2>8. QED
    BY <2>2, <2>3, <2>4, <2>5, <2>6, <2>7 DEF Next, Step
<1>3. StableReferences'
  <2>1. ASSUME NEW t \in Threads, Initialise(t) PROVE StableReferences'
    BY <2>1 DEF Initialise, StableReferences, Refs, Keys
  <2>2. ASSUME NEW t \in Threads, Add(t) PROVE StableReferences'
    BY <2>2 DEF Add, StableReferences, Refs
  <2>3. ASSUME NEW t \in Threads, Remove(t) PROVE StableReferences'
    <3>1. Tag(t) # Default /\ Tag(t) \in Keys
      BY <2>3 DEF Remove, CallsValid, Calls
    <3>2. QED BY <2>3, <3>1 DEF Remove, StableReferences, Refs
  <2>4. ASSUME NEW t \in Threads, Logger(t) PROVE StableReferences'
    BY <2>4 DEF Logger, StableReferences, Refs
  <2>5. ASSUME UNCHANGED <<loggers_s, removed, ref>> PROVE StableReferences'
    BY <2>5 DEF StableReferences
  <2>6. QED
    BY <2>1, <2>2, <2>3, <2>4, <2>5
       DEF Next, Step, Begin, Lock, OnceIsDone, RunOnce, InitialiseThrows,
           AddThrows, Refuse, vars
<1>4. QED BY <1>1, <1>2, <1>3

(* A reference that logger() gave out names the same logger until that      *)
(* logger is removed by its own tag; the default one is never removed.      *)
THEOREM StableReferencesCorrect == Spec => []StableReferences
<1>1. RegistryInv => StableReferences
  BY DEF RegistryInv
<1>2. QED
  BY <1>1, TypeCorrect, RegistryInit, RegistryStep, PTL DEF Spec

(* No call works on a map that is not there, whatever threw while building  *)
(* it, and whatever a second lock of the mutex does.                        *)
THEOREM MapIsReadyCorrect == Spec => []MapIsReady
<1>1. RegistryInv => MapIsReady
  BY DEF RegistryInv, OnceInv, MapIsReady
<1>2. QED
  BY <1>1, TypeCorrect, RegistryInit, RegistryStep, PTL DEF Spec
-----------------------------------------------------------------------------
\* Only add_logger() is ever seen with the mutex, and it comes when all is built.
LockInv == /\ \A t \in Threads : pc[t] = "lock" => call[t].method = "add"
           /\ mutex_ # NoThread => /\ call[mutex_].method = "add"
                                   /\ pc[mutex_] # "idle"
           /\ \A t \in Threads :
                pc[t] # "idle" /\ call[t].method = "add" => once = "done"

LEMMA LockInit == Init => LockInv
BY DEF Init, LockInv

LEMMA LockStep ==
  ASSUME EarlyAdd = FALSE, TypeOK, RegistryInv, LockInv, [Next]_vars
  PROVE  LockInv'
<1> USE LoggersAssumption DEF TypeOK, RegistryInv, OnceInv, LockInv
<1>1. ASSUME NEW t \in Threads, NEW m \in Methods, NEW k \in Keys, Begin(t, m, k)
      PROVE  LockInv'
  BY <1>1 DEF Begin, Calls
<1>2. ASSUME NEW t \in Threads, Lock(t) PROVE LockInv'
  <2>1. call[t].method = "add"
    BY <1>2 DEF Lock
  <2>2. QED BY <1>2, <2>1 DEF Lock
<1>3. ASSUME NEW t \in Threads, OnceIsDone(t) \/ RunOnce(t) PROVE LockInv'
  BY <1>3 DEF OnceIsDone, RunOnce
<1>4. ASSUME NEW t \in Threads,
             Initialise(t) \/ InitialiseThrows(t)
      PROVE  LockInv'
  BY <1>4 DEF Initialise, InitialiseThrows
<1>5. ASSUME NEW t \in Threads,
             Add(t) \/ AddThrows(t) \/ Remove(t) \/ Logger(t) \/ Refuse(t)
      PROVE  LockInv'
  BY <1>5 DEF Add, AddThrows, Remove, Logger, Refuse
<1>6. CASE UNCHANGED vars
  BY <1>6 DEF vars
<1>7. QED BY <1>1, <1>2, <1>3, <1>4, <1>5, <1>6 DEF Next, Step

(* Once some logger() has built the registry, no two calls wait for one     *)
(* another: the thread that builds it finds the mutex free, whatever the    *)
(* order in which add_logger() and the others lock.                         *)
THEOREM NoCircularWaitCorrect ==
  ASSUME EarlyAdd = FALSE
  PROVE  Spec => []NoCircularWait
<1>1. RegistryInv /\ LockInv /\ TypeOK => NoCircularWait
  BY DEF RegistryInv, OnceInv, LockInv, NoCircularWait, TypeOK
<1>2. TypeOK /\ RegistryInv /\ LockInv /\ [Next]_vars => LockInv'
  BY LockStep
<1>3. QED
  BY <1>1, <1>2, TypeCorrect, RegistryInit, RegistryStep, LockInit, PTL DEF Spec
-----------------------------------------------------------------------------
\* The first logger that is built is the default one.
MadeInv == made = 0 <=> loggers_s[Default] = 0

\* What the contract sees of the registry and of the number of loggers.
registryBar == [k \in Keys |-> IF k = Default /\ loggers_s[k] = 0
                               THEN 1 ELSE loggers_s[k]]
madeBar == IF made = 0 THEN 1 ELSE made

LEMMA MadeInit == Init => MadeInv
BY DEF Init, MadeInv, Keys

LEMMA MadeStep ==
  ASSUME TypeOK, RegistryInv, MadeInv, [Next]_vars
  PROVE  MadeInv'
<1> USE DEF TypeOK, MadeInv
<1>1. ASSUME NEW t \in Threads, Initialise(t) PROVE MadeInv'
  BY <1>1 DEF Initialise, Keys
<1>2. ASSUME NEW t \in Threads, Add(t) PROVE MadeInv'
  <2>1. Tag(t) # Default /\ Default \in Keys
    BY <1>2 DEF Add, RegistryInv, CallsValid, Keys
  <2>2. loggers_s[Default] # 0
    BY <1>2 DEF Add, RegistryInv, OnceInv
  <2> QED
    BY <1>2, <2>1, <2>2 DEF Add
<1>3. ASSUME NEW t \in Threads, Remove(t) PROVE MadeInv'
  <2>1. Tag(t) # Default /\ Default \in Keys
    BY <1>3 DEF Remove, RegistryInv, CallsValid, Keys
  <2> QED
    BY <1>3, <2>1 DEF Remove
<1>4. ASSUME UNCHANGED <<made, loggers_s>> PROVE MadeInv'
  BY <1>4
<1> QED
  BY <1>1, <1>2, <1>3, <1>4
     DEF Next, Step, Begin, Lock, OnceIsDone, RunOnce, InitialiseThrows, AddThrows,
         Logger, Refuse, vars

LEMMA ContractInit == Init => Contract!Init
<1> SUFFICES ASSUME Init PROVE Contract!Init
  OBVIOUS
<1>1. registryBar = [k \in Keys |-> IF k = Default THEN 1 ELSE 0]
  BY DEF Init, registryBar
<1>2. madeBar = 1
  BY DEF Init, madeBar
<1> QED
  BY <1>1, <1>2 DEF Init, Contract!Init, Contract!Keys, Keys, registryBar, madeBar

LEMMA ContractStep ==
  ASSUME TypeOK, RegistryInv, MadeInv, [Next]_vars
  PROVE  [Contract!Next]_(Contract!vars)
<1> USE DEF TypeOK
<1>k. Default \in Keys /\ Contract!Keys = Keys
  BY DEF Keys, Contract!Keys
<1>1. ASSUME NEW t \in Threads, Initialise(t)
      PROVE  UNCHANGED Contract!vars
  <2>1. CASE loggers_s[Default] = 0
    <3>1. made = 0 /\ made' = 1 /\ loggers_s' = [loggers_s EXCEPT ![Default] = 1]
      BY <1>1, <2>1 DEF Initialise, MadeInv
    <3>2. madeBar' = madeBar
      BY <3>1 DEF madeBar
    <3>3. registryBar' = registryBar
      BY <1>k, <2>1, <3>1 DEF registryBar
    <3> QED
      BY <1>1, <3>2, <3>3 DEF Initialise, Contract!vars, registryBar, madeBar
  <2>2. CASE loggers_s[Default] # 0
    BY <1>1, <2>2 DEF Initialise, Contract!vars
  <2> QED
    BY <2>1, <2>2
<1>2. ASSUME NEW t \in Threads, Add(t) PROVE Contract!Next
  <2>1. Tag(t) \in Keys /\ Tag(t) # Default /\ loggers_s[Default] # 0
    BY <1>2 DEF Add, RegistryInv, CallsValid, OnceInv, Calls
  <2>2. /\ registryBar = loggers_s /\ madeBar = made
        /\ registryBar' = loggers_s' /\ madeBar' = made'
    <3>1. loggers_s' \in [Keys -> Nat] /\ loggers_s'[Default] # 0
      BY <1>2, <1>k, <2>1 DEF Add
    <3>2. registryBar = loggers_s /\ registryBar' = loggers_s'
      BY <1>k, <2>1, <3>1 DEF registryBar
    <3>3. made # 0 /\ made' # 0
      BY <1>2, <2>1 DEF Add, MadeInv
    <3> QED
      BY <3>2, <3>3 DEF madeBar
  <2>k. PICK k \in Keys : k = Tag(t)
    BY <2>1
  <2>3. Contract!Add(k)
    <3>1. /\ loggers_s[Tag(t)] = 0 /\ made' = made + 1
          /\ loggers_s' = [loggers_s EXCEPT ![Tag(t)] = made + 1]
          /\ UNCHANGED <<removed, ref>>
      BY <1>2 DEF Add
    <3>2. /\ registryBar[Tag(t)] = 0 /\ madeBar' = madeBar + 1
          /\ registryBar' = [registryBar EXCEPT ![Tag(t)] = madeBar + 1]
      BY <2>2, <3>1
    <3> QED
      BY <2>k, <3>1, <3>2 DEF Contract!Add, registryBar, madeBar
  <2> QED
    BY <1>k, <2>3 DEF Contract!Next
<1>3. ASSUME NEW t \in Threads, Remove(t) PROVE Contract!Next
  <2>1. Tag(t) \in Keys /\ Tag(t) # Default /\ loggers_s[Default] # 0
    BY <1>3 DEF Remove, RegistryInv, CallsValid, OnceInv, Calls
  <2>2. /\ registryBar = loggers_s /\ registryBar' = loggers_s'
    BY <1>3, <1>k, <2>1 DEF Remove, registryBar
  <2>k. PICK k \in Keys : k = Tag(t)
    BY <2>1
  <2>3. Contract!Remove(k)
    BY <1>3, <2>1, <2>2, <2>k DEF Remove, Contract!Remove, registryBar, madeBar
  <2> QED
    BY <1>k, <2>3 DEF Contract!Next
<1>4. ASSUME NEW t \in Threads, Logger(t) PROVE Contract!Next
  <2>1. Tag(t) \in Keys /\ loggers_s[Default] # 0
    BY <1>4 DEF Logger, RegistryInv, OnceInv, Calls
  <2>2. registryBar = loggers_s /\ registryBar' = loggers_s'
    BY <1>4, <1>k, <2>1 DEF Logger, registryBar
  <2>k. PICK k \in Keys : k = Tag(t)
    BY <2>1
  <2>3. Contract!Get(t, k)
    BY <1>4, <2>1, <2>2, <2>k DEF Logger, Contract!Get, registryBar, madeBar
  <2> QED
    BY <1>k, <2>3 DEF Contract!Next
<1>5. ASSUME UNCHANGED <<loggers_s, made, removed, ref>>
      PROVE  UNCHANGED Contract!vars
  BY <1>5 DEF Contract!vars
<1> QED
  BY <1>1, <1>2, <1>3, <1>4, <1>5
     DEF Next, Step, Begin, Lock, OnceIsDone, RunOnce, InitialiseThrows, AddThrows,
         Refuse, vars

(* A registry that is built by whichever call comes first looks to every    *)
(* thread like one that was there from the start.                           *)
THEOREM ImplementsContract == Spec => ContractSpec
<1>1. TypeOK /\ RegistryInv /\ MadeInv /\ [Next]_vars => MadeInv'
  BY MadeStep
<1>2. TypeOK /\ RegistryInv /\ MadeInv /\ [Next]_vars => [Contract!Next]_(Contract!vars)
  BY ContractStep
<1>3. QED
  BY <1>1, <1>2, TypeCorrect, RegistryInit, RegistryStep, MadeInit, ContractInit, PTL
     DEF Spec, ContractSpec, Contract!Spec
=============================================================================
