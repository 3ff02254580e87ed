-------------------------------- MODULE Queue --------------------------------
(***************************************************************************)
(* xxx::queue<T> (xxx/queue.hxx): an unbounded FIFO shared by threads,     *)
(* guarded by one mutex, with a condition variable on which dequeue()      *)
(* waits and a flag that terminate() raises for good.                      *)
(*                                                                         *)
(* A call takes the mutex (Lock), runs its critical section (one action    *)
(* per way through it) and releases the mutex as it returns or waits.      *)
(* terminated() alone reads finished_ with no lock.                        *)
(***************************************************************************)
EXTENDS Naturals, Sequences, FiniteSets

CONSTANTS Threads,     \* the threads that use the queue
          Events,      \* the values of the template parameter T
          NoThread,    \* the owner of a free mutex
          MayThrow,    \* can copying a T, or storing it, throw?
          MaxAccepted  \* bound: no enqueue() starts beyond so many events

ASSUME QueueAssumption == /\ IsFiniteSet(Threads)
                          /\ NoThread \notin Threads
                          /\ MayThrow \in BOOLEAN
                          /\ MaxAccepted \in Nat

VARIABLES queue_, finished_,
          mutex_,     \* the thread that owns the mutex, or NoThread
          waiting,    \* the threads blocked in condition_.wait()
          call,       \* the method each thread is inside of, or "none"
          synced,     \* can the thread no longer read finished_ as false?
          told,       \* history: threads that were refused, or terminated
          accepted,   \* history: the events enqueue() returned true for
          delivered   \* history: the events dequeue() returned

history == <<accepted, delivered>>
views   == <<synced, told>>
vars    == <<queue_, finished_, mutex_, waiting, call, views, history>>

Methods == {"enqueue", "dequeue", "terminate", "empty"}

TypeOK == /\ queue_ \in Seq(Events)
          /\ finished_ \in BOOLEAN
          /\ mutex_ \in Threads \cup {NoThread}
          /\ waiting \in SUBSET Threads
          /\ call \in [Threads -> Methods \cup {"none"}]
          /\ synced \in [Threads -> BOOLEAN]
          /\ told \in SUBSET Threads
          /\ accepted \in Seq(Events)
          /\ delivered \in Seq(Events)

Init == /\ queue_ = <<>> /\ finished_ = FALSE
        /\ mutex_ = NoThread /\ waiting = {}
        /\ call = [t \in Threads |-> "none"]
        /\ synced = [t \in Threads |-> FALSE]
        /\ told = {} /\ accepted = <<>> /\ delivered = <<>>
-----------------------------------------------------------------------------
Begin(t, method) ==
  /\ call[t] = "none"
  /\ method = "enqueue" => Len(accepted) < MaxAccepted
  /\ call' = [call EXCEPT ![t] = method]
  /\ UNCHANGED <<queue_, finished_, mutex_, waiting, views, history>>

\* lock_guard / unique_lock, and the lock that wait() takes back.
Lock(t) ==
  /\ call[t] # "none" /\ t \notin waiting
  /\ mutex_ = NoThread
  /\ mutex_' = t
  /\ synced' = [synced EXCEPT ![t] = finished_]
  /\ UNCHANGED <<queue_, finished_, waiting, call, told, history>>

Inside(t, method) == mutex_ = t /\ call[t] = method

Return(t) == /\ mutex_' = NoThread
             /\ call' = [call EXCEPT ![t] = "none"]

WakeOne == \/ waiting = {} /\ UNCHANGED waiting
           \/ \E w \in waiting : waiting' = waiting \ {w}

\* Mutant: a queue that was not empty needs no notification.
NotifyIfEmpty == IF queue_ = <<>> THEN WakeOne ELSE UNCHANGED waiting

NotifyOne == WakeOne

NotifyAll == waiting' = {}

\* Mutant: the new event goes to the wrong end.
PushFront(e) == queue_' = <<e>> \o queue_

Push(e) == queue_' = Append(queue_, e)

Enqueue(t, e) ==
  /\ Inside(t, "enqueue") /\ ~finished_
  /\ Push(e)
  /\ accepted' = Append(accepted, e)
  /\ NotifyOne
  /\ Return(t)
  /\ UNCHANGED <<finished_, views, delivered>>

EnqueueRefused(t) ==
  /\ Inside(t, "enqueue") /\ finished_
  /\ told' = told \cup {t}
  /\ Return(t)
  /\ UNCHANGED <<queue_, finished_, waiting, synced, history>>

\* push_back() throws and leaves the deque as it was; nobody is notified.
EnqueueThrows(t) ==
  /\ MayThrow
  /\ Inside(t, "enqueue") /\ ~finished_
  /\ Return(t)
  /\ UNCHANGED <<queue_, finished_, waiting, views, history>>

Dequeue(t) ==
  /\ Inside(t, "dequeue") /\ ~finished_ /\ queue_ # <<>>
  /\ delivered' = Append(delivered, Head(queue_))
  /\ queue_' = Tail(queue_)
  /\ Return(t)
  /\ UNCHANGED <<finished_, waiting, views, accepted>>

\* Mutant: the mutex is released before its owner is among the waiting.
BlockOwner(t) == mutex_' = NoThread /\ waiting' = waiting \cup {mutex_'}

Block(t) == mutex_' = NoThread /\ waiting' = waiting \cup {t}

\* condition_.wait(): the mutex is released in the step that blocks.
Wait(t) ==
  /\ Inside(t, "dequeue") /\ ~finished_ /\ queue_ = <<>>
  /\ Block(t)
  /\ UNCHANGED <<queue_, finished_, call, views, history>>

SpuriousWakeup(t) ==
  /\ t \in waiting
  /\ waiting' = waiting \ {t}
  /\ UNCHANGED <<queue_, finished_, mutex_, call, views, history>>

\* Mutant: a wake-up that finds the queue empty is taken for the end.
DequeueGivesUp(t) ==
  /\ Inside(t, "dequeue") /\ queue_ = <<>>
  /\ told' = told \cup {t}
  /\ Return(t)
  /\ UNCHANGED <<queue_, finished_, waiting, synced, history>>

DequeueRefused(t) ==
  /\ Inside(t, "dequeue") /\ finished_
  /\ told' = told \cup {t}
  /\ Return(t)
  /\ UNCHANGED <<queue_, finished_, waiting, synced, history>>

\* t = queue_.front() throws: the event stays at the front.
DequeueThrows(t) ==
  /\ MayThrow
  /\ Inside(t, "dequeue") /\ ~finished_ /\ queue_ # <<>>
  /\ Return(t)
  /\ UNCHANGED <<queue_, finished_, waiting, views, history>>

Terminate(t) ==
  /\ Inside(t, "terminate")
  /\ finished_' = TRUE
  /\ queue_' = <<>>
  /\ NotifyAll
  /\ synced' = [synced EXCEPT ![t] = TRUE]
  /\ told' = told \cup {t}
  /\ Return(t)
  /\ UNCHANGED history

Empty(t) ==
  /\ Inside(t, "empty")
  /\ Return(t)
  /\ UNCHANGED <<queue_, finished_, waiting, views, history>>

\* What an unlocked read of finished_ may give: once the thread has locked the
\* mutex after finished_ rose, true; before that the read races with terminate()
\* and gives the old or the new value.
Answers(t) == {synced[t], finished_}

\* A thread that has read true does not read false afterwards.
Terminated(t) ==
  /\ call[t] = "none"
  /\ \E answer \in Answers(t) : synced' = [synced EXCEPT ![t] = @ \/ answer]
  /\ UNCHANGED <<queue_, finished_, mutex_, waiting, call, told, history>>
-----------------------------------------------------------------------------
\* The steps a thread takes by itself once it is inside a method.
Step(t) == \/ \E e \in Events : Enqueue(t, e)
           \/ EnqueueRefused(t) \/ EnqueueThrows(t)
           \/ Dequeue(t) \/ Wait(t) \/ DequeueRefused(t) \/ DequeueThrows(t)
           \/ Terminate(t) \/ Empty(t)

Next == \E t \in Threads :
          \/ \E method \in Methods : Begin(t, method)
          \/ Lock(t) \/ Step(t)
          \/ SpuriousWakeup(t) \/ Terminated(t)

Spec == Init /\ [][Next]_vars

\* A thread inside a method is not stopped for ever, and one that asks for the
\* mutex is not passed over for ever. Nobody has to call, nor to wake up early.
Fairness == \A t \in Threads : WF_vars(Step(t)) /\ SF_vars(Lock(t))

FairSpec == Spec /\ Fairness
-----------------------------------------------------------------------------
(* First in, first out, each event exactly once: what was accepted is what  *)
(* was delivered followed by what is in the buffer; terminate() drops the   *)
(* buffer for good, so that what was delivered stays a prefix.              *)
Fifo == IF finished_
        THEN /\ queue_ = <<>>
             /\ Len(delivered) <= Len(accepted)
             /\ delivered = SubSeq(accepted, 1, Len(delivered))
        ELSE accepted = delivered \o queue_

\* Threads in dequeue() that are on their way to look at the queue.
Awake == {t \in Threads : call[t] = "dequeue" /\ t \notin waiting}

(* No wake-up is lost although enqueue() notifies only one thread: while    *)
(* somebody waits, every buffered event has an awake dequeue() to take it.  *)
NoLostWakeup == waiting # {} => Len(queue_) <= Cardinality(Awake)

(* No thread waits on a terminated queue, and only dequeue() ever waits;    *)
(* a thread that waits does not hold the mutex.                             *)
WaitersAreLive == /\ finished_ => waiting = {}
                  /\ \A t \in waiting : call[t] = "dequeue" /\ mutex_ # t

(* The unlocked read of terminated() is good enough for the callers: after  *)
(* enqueue() or dequeue() has returned false to a thread, or it has called  *)
(* terminate(), terminated() can only answer true to it.                    *)
RefusedSeesTerminated == \A t \in told : Answers(t) = {TRUE}

\* Every behaviour of the queue is one that its contract allows.
Contract == INSTANCE QueueContract WITH closed <- finished_
ContractSpec == Contract!Spec

(* dequeue() waits only while the queue is empty: a thread never stays      *)
(* blocked for ever next to an event.                                       *)
WaiterIsServed ==
  \A t \in Threads : (t \in waiting /\ queue_ # <<>>)
                     ~> (t \notin waiting \/ queue_ = <<>>)

(* terminate() gets every thread out of dequeue(), waiting or not.          *)
TerminateReleases ==
  \A t \in Threads : (finished_ /\ call[t] = "dequeue") ~> (call[t] = "none")
=============================================================================
