------------------------------ MODULE StoreProofs ------------------------------
(* Theorems about the redux store, for any threads and any number of listeners, *)
(* states and dispatches.                                                       *)
EXTENDS Store, TLAPS

USE DEF Goto, Leave, Unlock, Exclusive, Produced, Shown, SoftDelete

LEMMA FromType ==
  ASSUME TypeOK, NEW i \in Nat, i >= 1
  PROVE  From(i) \subseteq Listeners
<1> SUFFICES ASSUME NEW l \in From(i) PROVE l \in Listeners
  OBVIOUS
<1>1. PICK j \in i .. Len(listeners_) : l = listeners_[j] /\ l # 0
  BY DEF From
<1>2. listeners_[j] \in 0 .. MaxListeners
  <2>0. listeners_ \in Seq(0 .. MaxListeners) /\ Len(listeners_) \in Nat
    BY DEF TypeOK
  <2>1. j \in 1 .. Len(listeners_)
    BY <2>0
  <2> QED
    BY <2>0, <2>1, StoreAssumption
<1> QED
  BY <1>1, <1>2, StoreAssumption DEF Listeners

LEMMA TypeInit == Init => TypeOK
<1> SUFFICES ASSUME Init PROVE TypeOK
  OBVIOUS
<1>1. listeners_ \in Seq(0 .. MaxListeners) /\ readers \in SUBSET Threads
  BY DEF Init
<1>2. /\ pc \in [Threads -> Labels] /\ next \in [Threads -> Nat]
      /\ own \in [Threads -> Nat]
  BY DEF Init, Labels
<1>3. handle \in [Listeners -> Nat] /\ seen \in [Listeners -> Nat]
  BY DEF Init
<1>4. /\ state_ \in Nat /\ added \in 0 .. MaxListeners
      /\ gone \in SUBSET Listeners /\ missed \in SUBSET Listeners
  BY StoreAssumption DEF Init
<1>5. stale \in BOOLEAN
  BY DEF Init
<1> QED
  BY <1>1, <1>2, <1>3, <1>4, <1>5 DEF TypeOK

\* A dispatch calls from the first listener on, and a listener in the list is the
\* one its handle names, at that index and no other.
NextInv == \A t \in Threads : next[t] >= 1 /\ (pc[t] # "calling" => next[t] = 1)

ListInv == \A j \in 1 .. Len(listeners_) :
             LET l == listeners_[j] IN l # 0 => l <= added /\ handle[l] = j

Base == TypeOK /\ NextInv /\ ListInv

LEMMA BaseInit == Init => Base
<1> SUFFICES ASSUME Init PROVE Base
  OBVIOUS
<1>1. NextInv
  BY DEF Init, NextInv
<1>2. ListInv
  BY DEF Init, ListInv
<1> QED
  BY <1>1, <1>2, TypeInit DEF Base

LEMMA TypeStep == TypeOK /\ NextInv /\ [Next]_vars => TypeOK'
<1> SUFFICES ASSUME TypeOK, NextInv, [Next]_vars PROVE TypeOK'
  OBVIOUS
<1> USE StoreAssumption DEF TypeOK, Labels, registry, known
<1>1. ASSUME NEW t \in Threads, BeginDispatch(t) \/ Read(t) PROVE TypeOK'
  BY <1>1 DEF BeginDispatch, Read
<1>2. ASSUME NEW t \in Threads, Reduce(t) PROVE TypeOK'
  BY <1>2 DEF Reduce
<1>3. ASSUME NEW t \in Threads, ReduceThrows(t) PROVE TypeOK'
  BY <1>3, FromType DEF ReduceThrows
<1>4. ASSUME NEW t \in Threads, Notify(t) PROVE TypeOK'
  BY <1>4 DEF Notify
<1>5. ASSUME NEW t \in Threads, Call(t) PROVE TypeOK'
  <2>1. next[t] \in 1 .. Len(listeners_)
    BY <1>5 DEF Call, NextInv
  <2>2. listeners_[next[t]] \in 0 .. MaxListeners
    BY <2>1
  <2> DEFINE l == listeners_[next[t]]
  <2>3. /\ seen' = IF l = 0 THEN seen ELSE [seen EXCEPT ![l] = state_]
        /\ missed' = missed \ {l}
        /\ next' = [next EXCEPT ![t] = @ + 1]
        /\ UNCHANGED <<state_, registry, readers, pc, own>>
    BY <1>5 DEF Call
  <2> HIDE DEF l
  <2>4. seen' \in [Listeners -> Nat] /\ missed' \in SUBSET Listeners
    BY <2>3
  <2> QED
    BY <2>3, <2>4
<1>6. ASSUME NEW t \in Threads, CallThrows(t) PROVE TypeOK'
  <2>1. From(next[t]) \subseteq Listeners
    BY FromType DEF NextInv
  <2> QED
    BY <1>6, <2>1 DEF CallThrows
<1>7. ASSUME NEW t \in Threads, EndDispatch(t) \/ EndRead(t) PROVE TypeOK'
  <2>1. CASE EndDispatch(t)
    BY <2>1 DEF EndDispatch
  <2>2. CASE EndRead(t)
    BY <2>2 DEF EndRead
  <2> QED
    BY <1>7, <2>1, <2>2
<1>8. CASE AddListener
  <2>1. added + 1 \in 0 .. MaxListeners /\ added + 1 \in Listeners
    BY <1>8 DEF AddListener, Listeners
  <2>2. listeners_' \in Seq(0 .. MaxListeners) /\ Len(listeners_) + 1 \in Nat
    BY <1>8, <2>1 DEF AddListener
  <2> QED
    BY <1>8, <2>1, <2>2 DEF AddListener, Untouched
<1>9. ASSUME NEW l \in Listeners, RemoveListener(l) PROVE TypeOK'
  <2>1. listeners_' \in Seq(0 .. MaxListeners)
    <3>1. 0 \in 0 .. MaxListeners
      OBVIOUS
    <3>2. handle[l] \in Nat /\ handle[l] # 0
      BY <1>9 DEF RemoveListener
    <3>3. CASE handle[l] <= Len(listeners_)
      <4>1. listeners_' = [listeners_ EXCEPT ![handle[l]] = 0]
        BY <1>9, <3>3 DEF RemoveListener
      <4> QED
        BY <3>1, <3>2, <3>3, <4>1
    <3>4. CASE ~(handle[l] <= Len(listeners_))
      BY <1>9, <3>4 DEF RemoveListener
    <3> QED
      BY <3>3, <3>4
  <2>2. seen' \in [Listeners -> Nat] /\ missed' \in SUBSET Listeners
    BY <1>9 DEF RemoveListener, Forget
  <2>3. stale' \in BOOLEAN
    BY <1>9 DEF RemoveListener
  <2> QED
    BY <1>9, <2>1, <2>2, <2>3 DEF RemoveListener, Untouched
<1>10. CASE ClearListeners
  <2>1. seen' \in [Listeners -> Nat] /\ missed' \in SUBSET Listeners
    BY <1>10 DEF ClearListeners, Forget
  <2>2. 1 .. added \subseteq Listeners
    BY DEF Listeners
  <2> QED
    BY <1>10, <2>1, <2>2 DEF ClearListeners, Untouched
<1>11. CASE UNCHANGED vars
  BY <1>11 DEF vars
<1> QED
  BY <1>1, <1>2, <1>3, <1>4, <1>5, <1>6, <1>7, <1>8, <1>9, <1>10, <1>11 DEF Next, Step

LEMMA NextStep == TypeOK /\ NextInv /\ [Next]_vars => NextInv'
<1> SUFFICES ASSUME TypeOK, NextInv, [Next]_vars PROVE NextInv'
  OBVIOUS
<1> USE DEF TypeOK, NextInv, Labels
<1>1. ASSUME NEW t \in Threads, BeginDispatch(t) \/ Read(t) \/ Reduce(t) \/ ReduceThrows(t)
      PROVE  NextInv'
  BY <1>1 DEF BeginDispatch, Read, Reduce, ReduceThrows
<1>2. ASSUME NEW t \in Threads, Notify(t) \/ Call(t) PROVE NextInv'
  BY <1>2 DEF Notify, Call
<1>3. ASSUME NEW t \in Threads, CallThrows(t) \/ EndDispatch(t) \/ EndRead(t)
      PROVE  NextInv'
  <2>1. next' = [next EXCEPT ![t] = 1] /\ pc' = [pc EXCEPT ![t] = "idle"]
    BY <1>3 DEF CallThrows, EndDispatch, EndRead
  <2> QED
    BY <2>1
<1>4. ASSUME UNCHANGED <<pc, next>> PROVE NextInv'
  BY <1>4
<1> QED
  BY <1>1, <1>2, <1>3, <1>4
     DEF Next, Step, AddListener, RemoveListener, ClearListeners, Untouched, vars

LEMMA ListStep == TypeOK /\ ListInv /\ [Next]_vars => ListInv'
<1> SUFFICES ASSUME TypeOK, ListInv, [Next]_vars PROVE ListInv'
  OBVIOUS
<1> USE StoreAssumption DEF TypeOK
<1>1. CASE AddListener
  <2>1. /\ added' = added + 1 /\ added + 1 \in Listeners
        /\ listeners_' = Append(listeners_, added + 1)
        /\ handle' = [handle EXCEPT ![added + 1] = Len(listeners_) + 1]
    BY <1>1 DEF AddListener, Listeners
  <2> SUFFICES ASSUME NEW j \in 1 .. Len(listeners_'), listeners_'[j] # 0
               PROVE  listeners_'[j] <= added' /\ handle'[listeners_'[j]] = j
    BY DEF ListInv
  <2>2. CASE j = Len(listeners_) + 1
    BY <2>1, <2>2
  <2>3. CASE j \in 1 .. Len(listeners_)
    <3>1. listeners_'[j] = listeners_[j] /\ listeners_[j] \in 0 .. MaxListeners
      BY <2>1, <2>3
    <3>2. listeners_[j] <= added /\ handle[listeners_[j]] = j
      BY <2>3, <3>1 DEF ListInv
    <3> DEFINE k == listeners_[j]
    <3>3. k \in Listeners /\ k # added + 1 /\ k <= added + 1
      BY <3>1, <3>2 DEF Listeners
    <3>4. handle'[k] = handle[k]
      BY <2>1, <3>3, Zenon
    <3> QED
      BY <2>1, <3>1, <3>2, <3>3, <3>4
  <2> QED
    BY <2>1, <2>2, <2>3
<1>2. ASSUME NEW l \in Listeners, RemoveListener(l) PROVE ListInv'
  <2> SUFFICES ASSUME NEW j \in 1 .. Len(listeners_'), listeners_'[j] # 0
               PROVE  listeners_'[j] <= added' /\ handle'[listeners_'[j]] = j
    BY DEF ListInv
  <2>1. /\ handle' = [handle EXCEPT ![l] = 0] /\ added' = added
        /\ handle[l] \in Nat /\ handle[l] # 0
        /\ listeners_' = IF handle[l] <= Len(listeners_)
                         THEN [listeners_ EXCEPT ![handle[l]] = 0] ELSE listeners_
    BY <1>2 DEF RemoveListener
  <2>2. j \in 1 .. Len(listeners_) /\ j # handle[l] /\ listeners_'[j] = listeners_[j]
    BY <2>1
  <2>3. listeners_[j] \in 0 .. MaxListeners
    BY <2>2
  <2>4. listeners_[j] <= added /\ handle[listeners_[j]] = j
    BY <2>2 DEF ListInv
  <2> DEFINE k == listeners_[j]
  <2>5. k \in Listeners /\ k # l
    BY <2>1, <2>2, <2>3, <2>4 DEF Listeners
  <2>6. handle'[k] = handle[k]
    BY <2>1, <2>5, Zenon
  <2> QED
    BY <2>1, <2>2, <2>4, <2>6
<1>3. CASE ClearListeners
  BY <1>3 DEF ClearListeners, ListInv
<1>4. ASSUME UNCHANGED <<listeners_, added, handle>> PROVE ListInv'
  BY <1>4 DEF ListInv
<1> QED
  BY <1>1, <1>2, <1>3, <1>4
     DEF Next, Step, BeginDispatch, Read, Reduce, ReduceThrows, Notify, Call,
         CallThrows, EndDispatch, EndRead, registry, vars

LEMMA BaseInvariant == Spec => []Base
  BY BaseInit, TypeStep, NextStep, ListStep, PTL DEF Spec, Base

(* Every variable of the store keeps its type.                              *)
THEOREM TypeCorrect == Spec => []TypeOK
  BY BaseInvariant, PTL DEF Base
-----------------------------------------------------------------------------
\* A listener that nobody took away is where its handle says.
HandleInv == ~stale => \A l \in 1 .. added :
                         l \in gone \/ /\ handle[l] \in 1 .. Len(listeners_)
                                       /\ listeners_[handle[l]] = l

LEMMA HandleStep == TypeOK /\ HandleInv /\ [Next]_vars => HandleInv'
<1> SUFFICES ASSUME TypeOK, HandleInv, [Next]_vars PROVE HandleInv'
  OBVIOUS
<1> USE StoreAssumption DEF TypeOK
<1>1. CASE AddListener
  <2>1. /\ added' = added + 1 /\ added + 1 \in Listeners /\ added \in Nat
        /\ listeners_' = Append(listeners_, added + 1)
        /\ handle' = [handle EXCEPT ![added + 1] = Len(listeners_) + 1]
        /\ UNCHANGED <<gone, stale>>
    BY <1>1 DEF AddListener, Listeners
  <2> SUFFICES ASSUME ~stale, NEW l \in 1 .. added', l \notin gone
               PROVE  /\ handle'[l] \in 1 .. Len(listeners_')
                      /\ listeners_'[handle'[l]] = l
    BY <2>1 DEF HandleInv
  <2>2. CASE l = added + 1
    BY <2>1, <2>2
  <2>3. CASE l \in 1 .. added
    <3>1. handle[l] \in 1 .. Len(listeners_) /\ listeners_[handle[l]] = l
      BY <2>3 DEF HandleInv
    <3>2. handle'[l] = handle[l]
      BY <2>1, <2>3 DEF Listeners
    <3> QED
      BY <2>1, <3>1, <3>2
  <2> QED
    BY <2>1, <2>2, <2>3
<1>2. ASSUME NEW k \in Listeners, RemoveListener(k) PROVE HandleInv'
  <2>1. /\ handle' = [handle EXCEPT ![k] = 0] /\ added' = added /\ k \in 1 .. added
        /\ handle[k] \in Nat /\ handle[k] # 0
        /\ listeners_' = IF handle[k] <= Len(listeners_)
                         THEN [listeners_ EXCEPT ![handle[k]] = 0] ELSE listeners_
        /\ gone' = gone \cup {k}
    BY <1>2 DEF RemoveListener, Listeners
  <2>s. stale' = (stale \/ k \in gone)
    BY <1>2 DEF RemoveListener
  <2> SUFFICES ASSUME ~stale, k \notin gone, NEW l \in 1 .. added, l \notin gone, l # k
               PROVE  /\ handle'[l] \in 1 .. Len(listeners_')
                      /\ listeners_'[handle'[l]] = l
    BY <2>1, <2>s DEF HandleInv
  <2>2. /\ handle[l] \in 1 .. Len(listeners_) /\ listeners_[handle[l]] = l
        /\ listeners_[handle[k]] = k
    BY <2>1 DEF HandleInv
  <2>3. handle'[l] = handle[l]
    BY <2>1 DEF Listeners
  <2> QED
    BY <2>1, <2>2, <2>3
<1>3. CASE ClearListeners
  <2>1. gone' = 1 .. added /\ added' = added
    BY <1>3 DEF ClearListeners
  <2> QED
    BY <2>1 DEF HandleInv
<1>4. ASSUME UNCHANGED registry PROVE HandleInv'
  BY <1>4 DEF HandleInv, registry
<1> QED
  BY <1>1, <1>2, <1>3, <1>4
     DEF Next, Step, BeginDispatch, Read, Reduce, ReduceThrows, Notify, Call,
         CallThrows, EndDispatch, EndRead, vars

(* remove_listener() takes away the listener its handle was given for, and   *)
(* no other is lost, unless a handle outlives a clear_listeners().           *)
THEOREM RegisteredStayCorrect == Spec => []RegisteredStay
<1>1. Init => HandleInv
  BY DEF Init, HandleInv
<1>2. TypeOK /\ HandleInv => RegisteredStay
  <2> SUFFICES ASSUME TypeOK, HandleInv, ~stale, NEW l \in 1 .. added, l \notin gone
               PROVE  l \in From(1)
    BY DEF RegisteredStay
  <2>1. handle[l] \in 1 .. Len(listeners_) /\ listeners_[handle[l]] = l
    BY DEF HandleInv
  <2>2. l # 0
    OBVIOUS
  <2> QED
    BY <2>1, <2>2 DEF From
<1> QED
  BY <1>1, <1>2, HandleStep, TypeCorrect, PTL DEF Spec
-----------------------------------------------------------------------------
\* No listener knows a state that is yet to come.
SeenInv == \A l \in Listeners : seen[l] <= state_

LEMMA SeenStep ==
  ASSUME TypeOK, NextInv, SeenInv, [Next]_vars
  PROVE  SeenInv' /\ \A l \in Listeners : seen[l] <= seen'[l] \/ l \in gone'
<1> USE StoreAssumption DEF TypeOK, SeenInv
<1>1. ASSUME NEW t \in Threads, Call(t)
      PROVE  SeenInv' /\ \A l \in Listeners : seen[l] <= seen'[l]
  <2> DEFINE k == listeners_[next[t]]
  <2>1. seen' = (IF k = 0 THEN seen ELSE [seen EXCEPT ![k] = state_]) /\ state_' = state_
    BY <1>1 DEF Call
  <2> HIDE DEF k
  <2> QED
    BY <2>1
<1>2. ASSUME NEW t \in Threads, Reduce(t) \/ ReduceThrows(t)
      PROVE  SeenInv' /\ UNCHANGED seen
  <2>1. UNCHANGED seen /\ state_' \in {state_, state_ + 1}
    BY <1>2 DEF Reduce, ReduceThrows, known
  <2> QED
    BY <2>1
<1>3. CASE AddListener
  <2>1. seen' = [seen EXCEPT ![added + 1] = state_] /\ state_' = state_
    BY <1>3 DEF AddListener, Untouched
  <2> QED
    BY <2>1
<1>4. ASSUME NEW set, Forget(set), state_' = state_, set \subseteq gone'
      PROVE  SeenInv' /\ \A l \in Listeners : seen[l] <= seen'[l] \/ l \in gone'
  BY <1>4 DEF Forget
<1>5. ASSUME NEW k \in Listeners, RemoveListener(k)
      PROVE  Forget({k}) /\ state_' = state_ /\ {k} \subseteq gone'
  BY <1>5 DEF RemoveListener, Untouched
<1>6. CASE ClearListeners
  <2>1. Forget(1 .. added) /\ state_' = state_ /\ 1 .. added \subseteq gone'
    BY <1>6 DEF ClearListeners, Untouched
  <2> QED
    BY <1>4, <2>1
<1>7. ASSUME UNCHANGED <<seen, state_>>
      PROVE  SeenInv' /\ \A l \in Listeners : seen[l] <= seen'[l]
  BY <1>7
<1>8. ASSUME NEW k \in Listeners, RemoveListener(k)
      PROVE  SeenInv' /\ \A l \in Listeners : seen[l] <= seen'[l] \/ l \in gone'
  BY <1>4, <1>5, <1>8
<1>9. ASSUME UNCHANGED seen
      PROVE  \A l \in Listeners : seen[l] <= seen'[l]
  BY <1>9
<1> QED
  BY <1>1, <1>2, <1>3, <1>6, <1>7, <1>8, <1>9
     DEF Next, Step, BeginDispatch, Read, Notify, CallThrows, EndDispatch, EndRead,
         known, vars

(* No listener is called with an older state after a newer one, however      *)
(* many dispatches overlap.                                                  *)
THEOREM NeverBackwardsCorrect == Spec => NeverBackwards
<1>1. Init => SeenInv
  BY DEF Init, SeenInv
<1>2. TypeOK /\ NextInv /\ SeenInv /\ [Next]_vars
        => SeenInv' /\ [\A l \in Listeners : seen[l] <= seen'[l] \/ l \in gone']_vars
  BY SeenStep
<1>3. Base => TypeOK /\ NextInv
  BY DEF Base
<1> QED
  BY <1>1, <1>2, <1>3, BaseInvariant, PTL DEF Spec, NeverBackwards
-----------------------------------------------------------------------------
\* A dispatch that is at the listeners holds the mutex, so that those it has called
\* go on knowing the current state, which is the one it made or a later one.
ToldInv == \A t \in Threads :
  /\ own[t] <= state_
  /\ pc[t] = "calling" =>
       /\ t \in readers
       /\ \A j \in 1 .. Len(listeners_) :
            j < next[t] /\ listeners_[j] # 0 => seen[listeners_[j]] = state_

\* Nobody is at the listeners when somebody changes the state or the list.
LEMMA NobodyCalls ==
  ASSUME ToldInv, Exclusive PROVE \A t \in Threads : pc[t] # "calling"
BY DEF ToldInv

LEMMA ToldStep == Base /\ ToldInv /\ [Next]_vars => ToldInv'
<1> SUFFICES ASSUME Base, ToldInv, [Next]_vars PROVE ToldInv'
  OBVIOUS
<1>t. TypeOK /\ NextInv
  BY DEF Base
<1>l. Len(listeners_) \in Nat
      /\ \A j \in 1 .. Len(listeners_) : listeners_[j] \in 0 .. MaxListeners
  BY <1>t, StoreAssumption DEF TypeOK
<1>n. state_ \in Nat /\ \A t \in Threads : own[t] \in Nat /\ next[t] \in Nat
  BY <1>t DEF TypeOK
<1>1. ASSUME NEW t \in Threads, BeginDispatch(t) \/ Read(t) PROVE ToldInv'
  <2>1. /\ UNCHANGED <<state_, listeners_, next, own, seen>>
        /\ readers \subseteq readers'
        /\ \A u \in Threads : pc'[u] = "calling" => pc[u] = "calling"
    BY <1>1, <1>t DEF BeginDispatch, Read, registry, known, TypeOK
  <2> QED
    BY <2>1 DEF ToldInv
<1>2. ASSUME NEW t \in Threads, Reduce(t) PROVE ToldInv'
  <2>1. /\ state_' \in {state_, state_ + 1} /\ own' = [own EXCEPT ![t] = state_']
        /\ pc' = [pc EXCEPT ![t] = "notifying"]
    BY <1>2 DEF Reduce
  <2>2. \A u \in Threads : pc'[u] # "calling"
    BY <1>2, <1>t, <2>1, NobodyCalls DEF Reduce, TypeOK
  <2>3. \A u \in Threads : own'[u] = IF u = t THEN state_' ELSE own[u]
    BY <1>t, <2>1 DEF TypeOK
  <2>4. \A u \in Threads : own'[u] <= state_'
    BY <1>n, <2>1, <2>3 DEF ToldInv
  <2> QED
    BY <2>2, <2>4 DEF ToldInv
<1>3. ASSUME NEW t \in Threads, ReduceThrows(t) PROVE ToldInv'
  <2>1. /\ state_' \in {state_, state_ + 1} /\ own' = own
        /\ pc' = [pc EXCEPT ![t] = "idle"]
    BY <1>3 DEF ReduceThrows
  <2>2. \A u \in Threads : pc'[u] # "calling"
    BY <1>3, <1>t, <2>1, NobodyCalls DEF ReduceThrows, TypeOK
  <2>3. \A u \in Threads : own'[u] <= state_'
    BY <1>n, <2>1 DEF ToldInv
  <2> QED
    BY <2>2, <2>3 DEF ToldInv
<1>4. ASSUME NEW t \in Threads, Notify(t) PROVE ToldInv'
  <2>1. /\ UNCHANGED <<state_, listeners_, next, own, seen>>
        /\ readers' = readers \cup {t} /\ next[t] = 1
        /\ pc' = [pc EXCEPT ![t] = "calling"]
    BY <1>4, <1>t DEF Notify, registry, known, NextInv
  <2>2. \A u \in Threads : u # t => pc'[u] = pc[u]
    BY <1>t, <2>1 DEF TypeOK
  <2>3. \A j \in 1 .. Len(listeners_) : ~ (j < next[t])
    BY <1>l, <2>1
  <2> QED
    BY <2>1, <2>2, <2>3 DEF ToldInv
<1>5. ASSUME NEW t \in Threads, Call(t) PROVE ToldInv'
  <2>i. PICK i \in Nat : i = next[t] /\ i \in 1 .. Len(listeners_)
    BY <1>5, <1>t DEF Call, NextInv, TypeOK
  <2>k. PICK k \in 0 .. MaxListeners : k = listeners_[i]
    BY <1>l, <2>i
  <2>1. /\ seen' = (IF k = 0 THEN seen ELSE [seen EXCEPT ![k] = state_])
        /\ next' = [next EXCEPT ![t] = i + 1]
        /\ UNCHANGED <<state_, listeners_, pc, readers, own>>
    BY <1>5, <2>i, <2>k DEF Call, registry
  <2>2. \A l \in Listeners : seen'[l] = IF l = k /\ k # 0 THEN state_ ELSE seen[l]
    BY <1>t, <2>1 DEF TypeOK
  <2>3. \A u \in Threads : next'[u] = IF u = t THEN i + 1 ELSE next[u]
    BY <1>t, <2>1 DEF TypeOK
  <2>4. ASSUME NEW u \in Threads, pc[u] = "calling",
               NEW j \in 1 .. Len(listeners_), j < next'[u], listeners_[j] # 0
        PROVE  seen'[listeners_[j]] = state_
    <3>1. PICK l \in Listeners : l = listeners_[j]
      BY <1>l, <2>4 DEF Listeners
    <3>2. CASE l = k
      BY <2>2, <2>4, <3>1, <3>2
    <3>3. CASE l # k
      <4>1. j < next[u]
        BY <1>n, <2>i, <2>k, <2>3, <2>4, <3>1, <3>3
      <4>2. seen[l] = state_
        BY <2>4, <3>1, <4>1 DEF ToldInv
      <4> QED
        BY <2>2, <3>1, <3>3, <4>2
    <3> QED
      BY <3>2, <3>3
  <2>5. \A u \in Threads : own[u] <= state_ /\ (pc[u] = "calling" => u \in readers)
    BY DEF ToldInv
  <2> QED
    BY <2>1, <2>4, <2>5 DEF ToldInv
<1>6. ASSUME NEW t \in Threads, CallThrows(t) \/ EndDispatch(t) \/ EndRead(t) PROVE ToldInv'
  <2>1. /\ UNCHANGED <<state_, listeners_, seen>>
        /\ readers' = readers \ {t} /\ pc' = [pc EXCEPT ![t] = "idle"]
        /\ next' = [next EXCEPT ![t] = 1] /\ own' = [own EXCEPT ![t] = 0]
    BY <1>6 DEF CallThrows, EndDispatch, EndRead, registry, known
  <2>2. \A u \in Threads : u # t => /\ pc'[u] = pc[u] /\ next'[u] = next[u]
                                    /\ own'[u] = own[u]
                                    /\ (u \in readers => u \in readers')
    BY <1>t, <2>1 DEF TypeOK
  <2>3. pc'[t] = "idle" /\ own'[t] = 0
    BY <1>t, <2>1 DEF TypeOK
  <2>4. own'[t] <= state_
    BY <1>n, <2>3
  <2> QED
    BY <2>1, <2>2, <2>3, <2>4 DEF ToldInv
<1>7. ASSUME Exclusive, UNCHANGED <<state_, pc, own>> PROVE ToldInv'
  <2>1. \A u \in Threads : pc'[u] # "calling"
    BY <1>7, NobodyCalls
  <2> QED
    BY <1>7, <2>1 DEF ToldInv
<1>8. CASE AddListener \/ ClearListeners
  BY <1>7, <1>8 DEF AddListener, ClearListeners, Untouched
<1>9. ASSUME NEW k \in Listeners, RemoveListener(k) PROVE ToldInv'
  BY <1>7, <1>9 DEF RemoveListener, Untouched
<1>10. CASE UNCHANGED vars
  BY <1>10 DEF vars, registry, known, ToldInv
<1> QED
  BY <1>1, <1>2, <1>3, <1>4, <1>5, <1>6, <1>8, <1>9, <1>10 DEF Next, Step

\* What a dispatch that ends leaves behind it.
LEMMA LeavesTold ==
  ASSUME Base, ToldInv, [Next]_vars,
         NEW t \in Threads, pc[t] \in {"notifying", "calling"}, pc'[t] = "idle",
         NEW l \in From(1)
  PROVE  own[t] <= seen'[l] \/ l \in missed'
<1>t. pc \in [Threads -> Labels] /\ next[t] \in Nat /\ Len(listeners_) \in Nat
  BY DEF Base, TypeOK
<1>1. PICK j \in 1 .. Len(listeners_) : l = listeners_[j] /\ l # 0
  BY DEF From
<1>2. CASE EndDispatch(t)
  <2>1. pc[t] = "calling" /\ next[t] > Len(listeners_) /\ seen' = seen
    BY <1>2 DEF EndDispatch, known
  <2>2. j < next[t]
    BY <1>t, <2>1
  <2> QED
    BY <1>1, <2>1, <2>2 DEF ToldInv
<1>3. CASE CallThrows(t)
  <2>1. pc[t] = "calling" /\ seen' = seen /\ missed' = missed \cup From(next[t])
    BY <1>3 DEF CallThrows
  <2>2. CASE j < next[t]
    BY <1>1, <2>1, <2>2 DEF ToldInv
  <2>3. CASE ~ (j < next[t])
    <3>1. j \in next[t] .. Len(listeners_)
      BY <1>t, <2>3
    <3> QED
      BY <1>1, <2>1, <3>1 DEF From
  <2> QED
    BY <2>2, <2>3
<1>4. ASSUME NEW u \in Threads, u # t,
             BeginDispatch(u) \/ Read(u) \/ Step(u)
      PROVE  FALSE
  <2>1. \/ pc' = pc \/ \E label : pc' = [pc EXCEPT ![u] = label]
    BY <1>4 DEF BeginDispatch, Read, Step, Reduce, ReduceThrows, Notify, Call, CallThrows,
                EndDispatch, EndRead
  <2> QED
    BY <1>t, <1>4, <2>1
<1>5. ASSUME BeginDispatch(t) \/ Read(t) \/ Reduce(t) \/ ReduceThrows(t) \/ Notify(t)
             \/ Call(t) \/ EndRead(t)
      PROVE  FALSE
  BY <1>t, <1>5 DEF BeginDispatch, Read, Reduce, ReduceThrows, Notify, Call, EndRead
<1>6. ASSUME pc' = pc PROVE FALSE
  BY <1>6
<1> QED
  BY <1>2, <1>3, <1>4, <1>5, <1>6
     DEF Next, Step, AddListener, ClearListeners, RemoveListener, Untouched, vars

(* All the listeners that a dispatch has called know the latest state for as   *)
(* long as it is at its listeners: its shared lock keeps every other dispatch  *)
(* and every change of the list away, and others can only tell them the same.  *)
THEOREM SameLatestStateCorrect == Spec => []SameLatestState
<1>1. Init => ToldInv
  BY DEF Init, ToldInv
<1>2. ToldInv => SameLatestState
  BY DEF ToldInv, SameLatestState
<1> QED
  BY <1>1, <1>2, ToldStep, BaseInvariant, PTL DEF Spec

(* A dispatch returns only when every listener in the list knows the state    *)
(* it made or a later one, unless an exception kept it from it, whatever       *)
(* dispatches, reads, additions and removals come in between.                  *)
THEOREM ToldOnReturnCorrect == Spec => ToldOnReturn
<1>1. Init => ToldInv
  BY DEF Init, ToldInv
<1>2. Base /\ ToldInv /\ [Next]_vars => ToldInv'
  BY ToldStep
<1>3. Base /\ ToldInv /\ [Next]_vars
        => [\A t \in Threads :
              pc[t] \in {"notifying", "calling"} /\ pc'[t] = "idle"
                => \A l \in From(1) : own[t] <= seen'[l] \/ l \in missed']_vars
  BY LeavesTold
<1> QED
  BY <1>1, <1>2, <1>3, BaseInvariant, PTL DEF Spec, ToldOnReturn
-----------------------------------------------------------------------------
\* Somebody will still call the listener at index j: a dispatch that has not begun
\* with the list, or is not past j yet.
Awaited(j) == \E t \in Threads : \/ pc[t] = "notifying"
                                 \/ pc[t] = "calling" /\ next[t] <= j

Reached(l) == seen[l] = state_ \/ l \in missed

\* Every listener knows the current state, or an exception kept it from it, or it
\* will be called.
ReachInv == \A j \in 1 .. Len(listeners_) :
              listeners_[j] # 0 => Reached(listeners_[j]) \/ Awaited(j)

LEMMA ReachInit == Init => ReachInv
BY DEF Init, ReachInv

\* Steps that leave the list and the state alone and take no call away.
LEMMA ReachKept ==
  ASSUME ReachInv, UNCHANGED <<listeners_, state_, seen>>,
         \A j \in 1 .. Len(listeners_) :
           Awaited(j) => Awaited(j)' \/ listeners_[j] = 0 \/ listeners_[j] \in missed',
         missed \subseteq missed'
  PROVE  ReachInv'
BY DEF ReachInv, Reached

LEMMA ReachStep ==
  ASSUME Base, ReachInv, [Next]_vars
  PROVE  ReachInv'
<1> USE StoreAssumption DEF TypeOK, NextInv, Base, Labels
<1>l. Len(listeners_) \in Nat /\ listeners_ \in Seq(0 .. MaxListeners)
  OBVIOUS
<1>1. ASSUME NEW t \in Threads, BeginDispatch(t) \/ Read(t) \/ EndRead(t)
      PROVE  ReachInv'
  <2>1. \A u \in Threads : pc[u] \in {"notifying", "calling"}
                             => pc'[u] = pc[u] /\ next'[u] = next[u]
    BY <1>1 DEF BeginDispatch, Read, EndRead
  <2>2. \A j \in 1 .. Len(listeners_) : Awaited(j) => Awaited(j)'
    BY <2>1 DEF Awaited
  <2>3. UNCHANGED <<listeners_, state_, seen, missed>>
    BY <1>1 DEF BeginDispatch, Read, EndRead, registry, known
  <2> QED
    BY <2>2, <2>3, ReachKept
<1>2. ASSUME NEW t \in Threads, Reduce(t) PROVE ReachInv'
  <2>1. pc'[t] = "notifying"
    BY <1>2 DEF Reduce
  <2>2. \A j : Awaited(j)'
    BY <2>1 DEF Awaited
  <2> QED
    BY <2>2 DEF ReachInv
<1>3. ASSUME NEW t \in Threads, ReduceThrows(t) PROVE ReachInv'
  <2>1. /\ UNCHANGED <<listeners_, seen, next>>
        /\ missed' = IF state_' = state_ THEN missed ELSE missed \cup From(1)
        /\ pc[t] = "reducing" /\ pc' = [pc EXCEPT ![t] = "idle"]
    BY <1>3 DEF ReduceThrows, registry
  <2>2. \A j : Awaited(j) => Awaited(j)'
    BY <2>1 DEF Awaited
  <2>3. CASE state_' = state_
    BY <2>1, <2>2, <2>3, ReachKept
  <2>4. CASE state_' # state_
    <3>1. \A j \in 1 .. Len(listeners_) : listeners_[j] # 0 => listeners_[j] \in From(1)
      BY DEF From
    <3> QED
      BY <2>1, <2>4, <3>1 DEF ReachInv, Reached
  <2> QED
    BY <2>3, <2>4
<1>4. ASSUME NEW t \in Threads, Notify(t) PROVE ReachInv'
  <2>1. /\ UNCHANGED <<listeners_, state_, seen, missed, next>>
        /\ pc[t] = "notifying" /\ pc' = [pc EXCEPT ![t] = "calling"] /\ next[t] = 1
    BY <1>4 DEF Notify, registry, known
  <2>2. \A j \in 1 .. Len(listeners_) : Awaited(j)'
    BY <2>1 DEF Awaited
  <2> QED
    BY <2>1, <2>2 DEF ReachInv
<1>5. ASSUME NEW t \in Threads, Call(t) PROVE ReachInv'
  <2>i. PICK i \in Nat : i = next[t] /\ i \in 1 .. Len(listeners_)
    BY <1>5 DEF Call
  <2>k. PICK k \in 0 .. MaxListeners : k = listeners_[i]
    BY <1>l, <2>i
  <2>1. /\ pc[t] = "calling"
        /\ seen' = (IF k = 0 THEN seen ELSE [seen EXCEPT ![k] = state_])
        /\ missed' = missed \ {k}
        /\ next' = [next EXCEPT ![t] = i + 1]
        /\ UNCHANGED <<state_, listeners_, pc>>
    BY <1>5, <2>i, <2>k DEF Call, registry
  <2>2. \A j \in 1 .. Len(listeners_) : Awaited(j) => Awaited(j)' \/ j = i
    <3> SUFFICES ASSUME NEW j \in 1 .. Len(listeners_), j # i,
                        NEW u \in Threads,
                        pc[u] = "notifying" \/ (pc[u] = "calling" /\ next[u] <= j)
                 PROVE  Awaited(j)'
      BY DEF Awaited
    <3>1. CASE u = t
      BY <2>i, <2>1, <3>1 DEF Awaited
    <3>2. CASE u # t
      BY <2>1, <3>2 DEF Awaited
    <3> QED
      BY <3>1, <3>2
  <2>3. \A l \in Listeners : Reached(l) => Reached(l)'
    <3> TAKE l \in Listeners
    <3>1. CASE l = k
      BY <2>1, <3>1 DEF Reached, Listeners
    <3>2. CASE l # k
      BY <2>1, <3>2 DEF Reached
    <3> QED
      BY <3>1, <3>2
  <2>4. k # 0 => Reached(k)'
    BY <2>1 DEF Reached, Listeners
  <2> SUFFICES ASSUME NEW j \in 1 .. Len(listeners_), listeners_[j] # 0
               PROVE  Reached(listeners_[j])' \/ Awaited(j)'
    BY <2>1 DEF ReachInv
  <2>5. PICK l \in Listeners : l = listeners_[j]
    BY <1>l DEF Listeners
  <2>6. Reached(l) \/ Awaited(j)
    BY <2>5 DEF ReachInv, Reached
  <2>7. Reached(l)' => Reached(listeners_[j])'
    BY <2>1, <2>5 DEF Reached
  <2> QED
    BY <2>2, <2>3, <2>4, <2>5, <2>6, <2>7, <2>k
<1>6. ASSUME NEW t \in Threads, CallThrows(t) PROVE ReachInv'
  <2>1. /\ UNCHANGED <<listeners_, state_, seen>>
        /\ missed' = missed \cup From(next[t])
        /\ pc' = [pc EXCEPT ![t] = "idle"] /\ next' = [next EXCEPT ![t] = 1]
        /\ pc[t] = "calling"
    BY <1>6 DEF CallThrows, registry
  <2>2. ASSUME NEW j \in 1 .. Len(listeners_), Awaited(j)
        PROVE  Awaited(j)' \/ listeners_[j] = 0 \/ listeners_[j] \in missed'
    <3>1. PICK u \in Threads : pc[u] = "notifying" \/ (pc[u] = "calling" /\ next[u] <= j)
      BY <2>2 DEF Awaited
    <3>2. CASE u = t
      BY <2>1, <3>1, <3>2 DEF From
    <3>3. CASE u # t
      BY <2>1, <3>1, <3>3 DEF Awaited
    <3> QED
      BY <3>2, <3>3
  <2> QED
    BY <2>1, <2>2, ReachKept
<1>7. ASSUME NEW t \in Threads, EndDispatch(t) PROVE ReachInv'
  <2>1. /\ UNCHANGED <<listeners_, state_, seen, missed>>
        /\ pc' = [pc EXCEPT ![t] = "idle"] /\ next' = [next EXCEPT ![t] = 1]
        /\ pc[t] = "calling" /\ next[t] > Len(listeners_)
    BY <1>7 DEF EndDispatch, registry, known
  <2>2. ASSUME NEW j \in 1 .. Len(listeners_), Awaited(j) PROVE Awaited(j)'
    <3>1. PICK u \in Threads : pc[u] = "notifying" \/ (pc[u] = "calling" /\ next[u] <= j)
      BY <2>2 DEF Awaited
    <3>2. u # t
      BY <1>l, <2>1, <3>1
    <3> QED
      BY <2>1, <3>1, <3>2 DEF Awaited
  <2> QED
    BY <2>1, <2>2, ReachKept
<1>8. CASE AddListener
  <2>1. /\ added + 1 \in Listeners /\ UNCHANGED <<state_, missed, pc, next>>
        /\ listeners_' = Append(listeners_, added + 1)
        /\ seen' = [seen EXCEPT ![added + 1] = state_]
    BY <1>8 DEF AddListener, Untouched, Listeners
  <2> SUFFICES ASSUME NEW j \in 1 .. Len(listeners_'), listeners_'[j] # 0
               PROVE  Reached(listeners_[j])' \/ Awaited(j)'
    BY DEF ReachInv
  <2>2. CASE j = Len(listeners_) + 1
    <3>1. listeners_'[j] = added + 1
      BY <1>l, <2>1, <2>2
    <3> QED
      BY <2>1, <3>1 DEF Reached
  <2>3. CASE j \in 1 .. Len(listeners_)
    <3>1. listeners_'[j] = listeners_[j] /\ listeners_[j] \in Listeners
      BY <1>l, <2>1, <2>3 DEF Listeners
    <3>2. Reached(listeners_[j]) \/ Awaited(j)
      BY <2>3, <3>1 DEF ReachInv
    <3>3. Awaited(j) => Awaited(j)'
      BY <2>1 DEF Awaited
    <3>4. Reached(listeners_[j]) => Reached(listeners_[j])'
      BY <2>1, <3>1 DEF Reached
    <3> QED
      BY <3>2, <3>3, <3>4
  <2> QED
    BY <1>l, <2>1, <2>2, <2>3
<1>9. ASSUME NEW k \in Listeners, RemoveListener(k) PROVE ReachInv'
  <2>1. /\ UNCHANGED <<state_, pc, next>> /\ Forget({k})
        /\ handle[k] \in Nat /\ handle[k] # 0
        /\ listeners_' = IF handle[k] <= Len(listeners_)
                         THEN [listeners_ EXCEPT ![handle[k]] = 0] ELSE listeners_
    BY <1>9 DEF RemoveListener, Untouched
  <2> SUFFICES ASSUME NEW j \in 1 .. Len(listeners_'), listeners_'[j] # 0
               PROVE  Reached(listeners_[j])' \/ Awaited(j)'
    BY DEF ReachInv
  <2>2. j \in 1 .. Len(listeners_) /\ j # handle[k] /\ listeners_'[j] = listeners_[j]
    BY <1>l, <2>1
  <2>3. PICK l \in Listeners : l = listeners_[j] /\ l # k
    <3>1. listeners_[j] \in Listeners
      BY <1>l, <2>2 DEF Listeners
    <3>2. handle[listeners_[j]] = j
      BY <2>2 DEF ListInv
    <3> QED
      BY <2>2, <3>1, <3>2
  <2>4. Reached(l) \/ Awaited(j)
    BY <2>2, <2>3 DEF ReachInv, Reached
  <2>5. Awaited(j) => Awaited(j)'
    BY <2>1 DEF Awaited
  <2>6. Reached(l) => Reached(l)'
    BY <2>1, <2>3 DEF Reached, Forget
  <2>7. Reached(l)' => Reached(listeners_[j])'
    BY <2>2, <2>3 DEF Reached
  <2> QED
    BY <2>4, <2>5, <2>6, <2>7
<1>10. CASE ClearListeners
  BY <1>10 DEF ClearListeners, ReachInv
<1>11. CASE UNCHANGED vars
  BY <1>11, ReachKept DEF vars, registry, known, Awaited
<1> QED
  BY <1>1, <1>2, <1>3, <1>4, <1>5, <1>6, <1>7, <1>8, <1>9, <1>10, <1>11 DEF Next, Step

(* When the dispatches are over, every listener knows the current state      *)
(* unless an exception kept it from it, for any overlap of dispatches with   *)
(* one another and with listeners that come and go.                          *)
THEOREM ConvergesCorrect == Spec => []Converges
<1>1. ReachInv => Converges
  <2> SUFFICES ASSUME ReachInv, Dispatching = {}, NEW l \in From(1)
               PROVE  seen[l] = state_ \/ l \in missed
    BY DEF Converges
  <2>1. PICK j \in 1 .. Len(listeners_) : l = listeners_[j] /\ l # 0
    BY DEF From
  <2>2. ~Awaited(j)
    BY DEF Awaited, Dispatching
  <2> QED
    BY <2>1, <2>2 DEF ReachInv, Reached
<1> QED
  BY <1>1, ReachInit, ReachStep, BaseInvariant, PTL DEF Spec
=============================================================================
