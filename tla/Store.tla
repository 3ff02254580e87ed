-------------------------------- MODULE Store --------------------------------
(***************************************************************************)
(* xxx::redux::store (xxx/redux.hxx): a state behind a readers-writer      *)
(* mutex, a reducer that makes the next state of an action, and listeners  *)
(* that every dispatch() calls.                                            *)
(*                                                                         *)
(* dispatch() locks twice: exclusively around the reducer, then shared     *)
(* around the calls of the listeners; between the two anybody may come. A  *)
(* part under the exclusive lock is one step, which no reader overlaps;    *)
(* the calls under the shared lock are one step each. States are numbered  *)
(* in the order they come about. Neither a reducer nor a listener calls    *)
(* back into its store: they would lock a mutex that their thread holds.   *)
(***************************************************************************)
EXTENDS Naturals, Sequences, FiniteSets

CONSTANTS Threads,       \* the threads that use the store
          MayThrow,      \* can a reducer or a listener throw?
          MaxListeners,  \* bound: no listener is added beyond so many
          MaxStates      \* bound: no dispatch begins beyond so many states

ASSUME StoreAssumption == /\ MayThrow \in BOOLEAN
                          /\ MaxListeners \in Nat /\ MaxStates \in Nat

VARIABLES state_,      \* the number of the current state
          listeners_,  \* the listener at each index, 0 for the placeholder
          readers,     \* the threads that hold the mutex shared
          pc,          \* where each thread is
          next,        \* the index of the listener a dispatch calls next
          own,         \* history: the state each dispatch left behind its reducer
          added,       \* how many listeners were added: they are 1 .. added
          handle,      \* what add_listener() returned for each of them
          gone,        \* history: listeners whose owner removed them, or cleared
          stale,       \* history: a handle was used for a cleared listener
          seen,        \* history: the last state each listener knows: it was added
                       \* in it, or called with it
          missed       \* history: the listeners an exception kept from a state

registry == <<listeners_, added, handle, gone, stale>>
known    == <<seen, missed>>
vars     == <<state_, registry, readers, pc, next, own, known>>

Listeners == 1 .. MaxListeners
Labels    == {"idle", "reducing", "notifying", "calling", "reading"}

TypeOK == /\ state_ \in Nat
          /\ listeners_ \in Seq(0 .. MaxListeners)
          /\ readers \in SUBSET Threads
          /\ pc \in [Threads -> Labels]
          /\ next \in [Threads -> Nat]
          /\ own \in [Threads -> Nat]
          /\ added \in 0 .. MaxListeners
          /\ handle \in [Listeners -> Nat]
          /\ gone \in SUBSET Listeners
          /\ stale \in BOOLEAN
          /\ seen \in [Listeners -> Nat]
          /\ missed \in SUBSET Listeners

Init == /\ state_ = 0 /\ listeners_ = <<>> /\ readers = {}
        /\ pc = [t \in Threads |-> "idle"]
        /\ next = [t \in Threads |-> 1] /\ own = [t \in Threads |-> 0]
        /\ added = 0 /\ gone = {} /\ stale = FALSE /\ missed = {}
        /\ handle = [l \in Listeners |-> 0] /\ seen = [l \in Listeners |-> 0]
-----------------------------------------------------------------------------
Goto(t, label) == pc' = [pc EXCEPT ![t] = label]

\* The mutex is free for a writer.
Exclusive == readers = {}

Dispatching == {t \in Threads : pc[t] \in {"reducing", "notifying", "calling"}}

BeginDispatch(t) ==
  /\ pc[t] = "idle" /\ state_ < MaxStates
  /\ Goto(t, "reducing")
  /\ UNCHANGED <<state_, registry, readers, next, own, known>>

\* Mutant: an empty result is taken for a state.
ProducedUnchecked == {0 - 1, state_ + 1}

Produced == {state_, state_ + 1}

\* The reducer returns a new state, or none and the old one stays.
Reduce(t) ==
  /\ pc[t] = "reducing" /\ Exclusive
  /\ state_' \in Produced
  /\ own' = [own EXCEPT ![t] = state_']
  /\ Goto(t, "notifying")
  /\ UNCHANGED <<registry, readers, next, known>>

\* The listeners in the list from index i on.
From(i) == {listeners_[j] : j \in i .. Len(listeners_)} \ {0}

\* The reducer throws; it works on the state itself and may have changed it.
ReduceThrows(t) ==
  /\ MayThrow
  /\ pc[t] = "reducing" /\ Exclusive
  /\ state_' \in {state_, state_ + 1}
  /\ missed' = IF state_' = state_ THEN missed ELSE missed \cup From(1)
  /\ Goto(t, "idle")
  /\ UNCHANGED <<registry, readers, next, own, seen>>

\* Mutant: a dispatch that finds another one at the listeners leaves them to it.
NotifyUnlessNotified(t) ==
  /\ pc[t] = "notifying"
  /\ \/ /\ \E u \in Threads : pc[u] = "calling"
        /\ Goto(t, "idle") /\ own' = [own EXCEPT ![t] = 0] /\ UNCHANGED readers
     \/ /\ \A u \in Threads : pc[u] # "calling"
        /\ Goto(t, "calling") /\ readers' = readers \cup {t} /\ UNCHANGED own
  /\ UNCHANGED <<state_, registry, next, known>>

\* Mutant: the listeners are called without a lock.
NotifyUnlocked(t) ==
  /\ pc[t] = "notifying"
  /\ Goto(t, "calling")
  /\ UNCHANGED <<state_, registry, readers, next, own, known>>

\* No writer is ever seen holding the mutex, so that a reader always gets it.
Notify(t) ==
  /\ pc[t] = "notifying"
  /\ readers' = readers \cup {t}
  /\ Goto(t, "calling")
  /\ UNCHANGED <<state_, registry, next, own, known>>

\* Mutant: the listeners get the state that dispatch() kept from the reducer.
ShownOwn(t) == own[t]

Shown(t) == state_

Call(t) ==
  /\ pc[t] = "calling" /\ next[t] <= Len(listeners_)
  /\ LET l == listeners_[next[t]] IN
     /\ seen' = IF l = 0 THEN seen ELSE [seen EXCEPT ![l] = Shown(t)]
     /\ missed' = missed \ {l}
  /\ next' = [next EXCEPT ![t] = @ + 1]
  /\ UNCHANGED <<state_, registry, readers, pc, own>>

\* The call of thread t is over; what it kept is forgotten.
Leave(t) == /\ Goto(t, "idle")
            /\ next' = [next EXCEPT ![t] = 1] /\ own' = [own EXCEPT ![t] = 0]

\* Mutant: the shared lock is never released.
UnlockNot(t) == Leave(t) /\ UNCHANGED readers

Unlock(t) == Leave(t) /\ readers' = readers \ {t}

\* A listener throws: those after it are not called.
CallThrows(t) ==
  /\ MayThrow
  /\ pc[t] = "calling" /\ next[t] <= Len(listeners_) /\ listeners_[next[t]] # 0
  /\ missed' = missed \cup From(next[t])
  /\ Unlock(t)
  /\ UNCHANGED <<state_, registry, seen>>

EndDispatch(t) ==
  /\ pc[t] = "calling" /\ next[t] > Len(listeners_)
  /\ Unlock(t)
  /\ UNCHANGED <<state_, registry, known>>

\* state() and fullcopied_state(): the functor, or the copy, reads state_.
Read(t) ==
  /\ pc[t] = "idle"
  /\ readers' = readers \cup {t}
  /\ Goto(t, "reading")
  /\ UNCHANGED <<state_, registry, next, own, known>>

EndRead(t) ==
  /\ pc[t] = "reading"
  /\ Unlock(t)
  /\ UNCHANGED <<state_, registry, known>>
-----------------------------------------------------------------------------
Untouched == UNCHANGED <<state_, readers, pc, next, own>>

AddListener ==
  /\ Exclusive /\ added < MaxListeners
  /\ added' = added + 1
  /\ listeners_' = Append(listeners_, added + 1)
  /\ handle' = [handle EXCEPT ![added + 1] = Len(listeners_) + 1]
  /\ seen' = [seen EXCEPT ![added + 1] = state_]
  /\ UNCHANGED <<gone, stale, missed>>
  /\ Untouched

\* Mutant: the listener is erased, and those after it move up.
HardDelete(s, i) == SubSeq(s, 1, i - 1) \o SubSeq(s, i + 1, Len(s))

SoftDelete(s, i) == [s EXCEPT ![i] = 0]

\* Nothing calls the listeners of the set any more.
Forget(set) == /\ seen' = [l \in Listeners |-> IF l \in set THEN 0 ELSE seen[l]]
               /\ missed' = missed \ set

\* The owner of listener l removes it by the handle it was given for it. Beyond
\* the end of listeners_ the call throws and changes nothing.
RemoveListener(l) ==
  /\ Exclusive /\ l <= added /\ handle[l] # 0
  /\ handle' = [handle EXCEPT ![l] = 0]
  /\ listeners_' = IF handle[l] <= Len(listeners_)
                   THEN SoftDelete(listeners_, handle[l]) ELSE listeners_
  /\ gone' = gone \cup {l}
  /\ stale' = (stale \/ l \in gone)
  /\ Forget({l})
  /\ UNCHANGED added
  /\ Untouched

ClearListeners ==
  /\ Exclusive
  /\ listeners_' = <<>>
  /\ gone' = 1 .. added
  /\ Forget(1 .. added)
  /\ UNCHANGED <<added, handle, stale>>
  /\ Untouched
-----------------------------------------------------------------------------
\* The steps a thread takes by itself once it is inside a call.
Step(t) == \/ Reduce(t) \/ ReduceThrows(t) \/ Notify(t)
           \/ Call(t) \/ CallThrows(t) \/ EndDispatch(t) \/ EndRead(t)

Next == \/ \E t \in Threads : BeginDispatch(t) \/ Read(t) \/ Step(t)
        \/ AddListener \/ ClearListeners
        \/ \E l \in Listeners : RemoveListener(l)

Spec == Init /\ [][Next]_vars

\* A thread inside a call goes on, and one whose lock becomes free again and again
\* gets it. It does not follow that a lock becomes free: readers that overlap one
\* another for ever keep a writer out, as std::shared_mutex allows.
Fairness == \A t \in Threads : SF_vars(Step(t))

FairSpec == Spec /\ Fairness
-----------------------------------------------------------------------------
(* When no dispatch is under way, every listener knows the current state,   *)
(* whatever dispatches overlapped: none is left behind with a state that    *)
(* was current between the two locks. Only an exception leaves listeners    *)
(* behind, and only until they are called again.                            *)
Converges == Dispatching = {} =>
               \A l \in From(1) : seen[l] = state_ \/ l \in missed

(* No listener is ever called with an older state after a newer one.        *)
NeverBackwards ==
  [][\A l \in Listeners : seen[l] <= seen'[l] \/ l \in gone']_vars

(* When a dispatch() returns, every listener knows the state it made or a   *)
(* later one, although others may dispatch between its two locks, and other *)
(* threads may be at the same listeners; all but those an exception missed. *)
ToldOnReturn ==
  [][\A t \in Threads :
       pc[t] \in {"notifying", "calling"} /\ pc'[t] = "idle"
         => \A l \in From(1) : own[t] <= seen'[l] \/ l \in missed']_vars

(* "Each listener of the dispatches refers same the latest state" (redux.hxx *)
(* 112): as long as a dispatch calls its listeners, one after the other,     *)
(* those it has called know the latest state, whoever else dispatches, adds, *)
(* removes, clears or calls the same listeners meanwhile.                    *)
SameLatestState ==
  \A t \in Threads : pc[t] = "calling" =>
    \A j \in 1 .. Len(listeners_) :
      j < next[t] /\ listeners_[j] # 0 => seen[listeners_[j]] = state_

(* A listener that neither its owner removed nor clear_listeners() dropped  *)
(* is still called: removing by handle takes away the specific listener, as *)
(* long as nobody uses a handle from before a clear_listeners().            *)
RegisteredStay == ~stale => \A l \in 1 .. added : l \in gone \/ l \in From(1)

(* Every dispatch() returns, however many others there are, if again and    *)
(* again nobody reads the state outside of a listener.                      *)
DispatchReturns ==
  []<>(\A t \in Threads : pc[t] # "reading")
    => \A t \in Threads : t \in Dispatching ~> pc[t] = "idle"
=============================================================================
