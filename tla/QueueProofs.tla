----------------------------- MODULE QueueProofs -----------------------------
(***************************************************************************)
(* Theorems about Queue for any finite set of threads, any set of events   *)
(* and any bound, proved with TLAPS.                                       *)
(***************************************************************************)
EXTENDS Queue, SequenceTheorems, FiniteSetTheorems, TLAPS

\* One-line parts of the actions, expanded everywhere.
USE DEF Push, Block, NotifyAll, NotifyOne

LEMMA TypeInit == Init => TypeOK
BY EmptySeq DEF Init, TypeOK, Methods

(* One step of any thread keeps the types: case by case over the actions. *)
LEMMA TypeStep == TypeOK /\ [Next]_vars => TypeOK'
<1> SUFFICES ASSUME TypeOK, [Next]_vars PROVE TypeOK'
  OBVIOUS
<1> USE QueueAssumption DEF TypeOK, Methods, Return, Inside, views, history
<1>1. ASSUME NEW t \in Threads, NEW m \in Methods, Begin(t, m) PROVE TypeOK'
  BY <1>1 DEF Begin
<1>2. ASSUME NEW t \in Threads, Lock(t) PROVE TypeOK'
  BY <1>2 DEF Lock
<1>3. ASSUME NEW t \in Threads, NEW e \in Events, Enqueue(t, e) PROVE TypeOK'
  <2>1. waiting' \in SUBSET Threads
    BY <1>3 DEF Enqueue, NotifyOne, WakeOne
  <2>2. QED BY <1>3, <2>1 DEF Enqueue
<1>4. ASSUME NEW t \in Threads,
             \/ EnqueueRefused(t) \/ DequeueRefused(t)
             \/ EnqueueThrows(t) \/ DequeueThrows(t) \/ Empty(t)
      PROVE  TypeOK'
  BY <1>4 DEF EnqueueRefused, DequeueRefused, EnqueueThrows, DequeueThrows,
              Empty
<1>5. ASSUME NEW t \in Threads, Dequeue(t) PROVE TypeOK'
  <2>1. Head(queue_) \in Events /\ Tail(queue_) \in Seq(Events)
    BY <1>5, HeadTailProperties DEF Dequeue
  <2>2. Append(delivered, Head(queue_)) \in Seq(Events)
    BY <2>1, AppendProperties
  <2>3. QED BY <1>5, <2>1, <2>2 DEF Dequeue
<1>6. ASSUME NEW t \in Threads, Wait(t) \/ SpuriousWakeup(t) PROVE TypeOK'
  BY <1>6 DEF Wait, SpuriousWakeup
<1>7. ASSUME NEW t \in Threads, Terminate(t) PROVE TypeOK'
  BY <1>7 DEF Terminate
<1>8. ASSUME NEW t \in Threads, Terminated(t) PROVE TypeOK'
  BY <1>8 DEF Terminated, Answers
<1>9. CASE UNCHANGED vars
  BY <1>9 DEF vars
<1>10. QED
  BY <1>1, <1>2, <1>3, <1>4, <1>5, <1>6, <1>7, <1>8, <1>9 DEF Next, Step

(* Every variable keeps its type in every behaviour of the queue. *)
THEOREM TypeCorrect == Spec => []TypeOK
BY TypeInit, TypeStep, PTL DEF Spec
-----------------------------------------------------------------------------
(* Moving the head of t to the end of s leaves s \o t as it is. *)
LEMMA ShiftHead ==
  ASSUME NEW S, NEW s \in Seq(S), NEW t \in Seq(S), t # <<>>
  PROVE  Append(s, Head(t)) \o Tail(t) = s \o t
<1> DEFINE l == Append(s, Head(t)) \o Tail(t)
           r == s \o t
<1>1. /\ Head(t) \in S /\ Tail(t) \in Seq(S)
      /\ Len(Tail(t)) = Len(t) - 1
      /\ \A i \in 1 .. Len(Tail(t)) : Tail(t)[i] = t[i + 1]
  BY HeadTailProperties
<1>2. /\ Append(s, Head(t)) \in Seq(S)
      /\ Len(Append(s, Head(t))) = Len(s) + 1
      /\ \A i \in 1 .. Len(s) : Append(s, Head(t))[i] = s[i]
      /\ Append(s, Head(t))[Len(s) + 1] = Head(t)
  BY <1>1, AppendProperties
<1>3. /\ l \in Seq(S)
      /\ Len(l) = Len(s) + 1 + Len(Tail(t))
      /\ \A i \in 1 .. Len(s) + 1 + Len(Tail(t)) :
           l[i] = IF i <= Len(s) + 1 THEN Append(s, Head(t))[i]
                                     ELSE Tail(t)[i - (Len(s) + 1)]
  BY <1>1, <1>2, ConcatProperties
<1>4. /\ r \in Seq(S)
      /\ Len(r) = Len(s) + Len(t)
      /\ \A i \in 1 .. Len(s) + Len(t) :
           r[i] = IF i <= Len(s) THEN s[i] ELSE t[i - Len(s)]
  BY ConcatProperties
<1>5. Len(s) \in Nat /\ Len(t) \in Nat /\ Head(t) = t[1] /\ Len(t) > 0
  BY LenProperties, EmptySeq
<1>6. Len(l) = Len(r)
  BY <1>1, <1>3, <1>4, <1>5
<1>7. ASSUME NEW i \in 1 .. Len(l) PROVE l[i] = r[i]
  <2>1. CASE i <= Len(s)
    BY <2>1, <1>1, <1>2, <1>3, <1>4, <1>5
  <2>2. CASE i = Len(s) + 1
    BY <2>2, <1>1, <1>2, <1>3, <1>4, <1>5
  <2>3. CASE i > Len(s) + 1
    <3>1. i - (Len(s) + 1) \in 1 .. Len(Tail(t))
      BY <2>3, <1>1, <1>3, <1>5
    <3>2. Tail(t)[i - (Len(s) + 1)] = t[i - Len(s)]
      BY <3>1, <1>1, <1>5
    <3>3. QED BY <3>2, <2>3, <1>1, <1>3, <1>4, <1>5
  <2>4. QED BY <2>1, <2>2, <2>3, <1>5
<1>8. QED BY <1>3, <1>4, <1>6, <1>7, SeqEqual

LEMMA PrefixOfConcat ==
  ASSUME NEW S, NEW s \in Seq(S), NEW t \in Seq(S)
  PROVE  /\ SubSeq(s \o t, 1, Len(s)) = s
         /\ Len(s) <= Len(s \o t)
<1>1. Len(s) \in Nat /\ Len(t) \in Nat /\ Len(s \o t) = Len(s) + Len(t)
  BY LenProperties, ConcatProperties
<1>2. CASE s = <<>>
  BY <1>1, <1>2, SubSeqEmpty, EmptySeq
<1>3. CASE s # <<>>
  <2>1. Len(s) \in 1 .. Len(s)
    BY <1>3, <1>1, EmptySeq
  <2>2. 1 \in 1 .. Len(s)
    BY <2>1
  <2>3. QED BY <1>1, <2>1, <2>2, SubSeqOfConcat1, SubSeqFull
<1>4. QED BY <1>2, <1>3

LEMMA FifoInit == Init => Fifo
BY EmptySeq, ConcatEmptySeq DEF Init, Fifo

LEMMA FifoStep == TypeOK /\ Fifo /\ [Next]_vars => Fifo'
<1> SUFFICES ASSUME TypeOK, Fifo, [Next]_vars PROVE Fifo'
  OBVIOUS
<1>1. ASSUME NEW t \in Threads, NEW e \in Events, Enqueue(t, e) PROVE Fifo'
  <2>1. /\ delivered \in Seq(Events) /\ queue_ \in Seq(Events)
        /\ accepted = delivered \o queue_
    BY <1>1 DEF TypeOK, Enqueue, Fifo
  <2>2. /\ queue_' = queue_ \o <<e>> /\ <<e>> \in Seq(Events)
        /\ accepted' = accepted \o <<e>>
    BY <1>1, <2>1, AppendIsConcat, ConcatProperties DEF Enqueue
  <2>3. accepted' = delivered \o queue_'
    BY <2>1, <2>2, ConcatAssociative
  <2>4. QED BY <1>1, <2>3 DEF Enqueue, Inside, Fifo
<1>2. ASSUME NEW t \in Threads, Dequeue(t) PROVE Fifo'
  <2>1. accepted = delivered' \o queue_'
    BY <1>2, ShiftHead DEF Dequeue, Inside, TypeOK, Fifo
  <2>2. QED BY <1>2, <2>1 DEF Dequeue, Inside, Fifo
<1>3. ASSUME NEW t \in Threads, Terminate(t) PROVE Fifo'
  <2>1. delivered = SubSeq(accepted, 1, Len(delivered))
        /\ Len(delivered) <= Len(accepted)
    BY PrefixOfConcat DEF TypeOK, Fifo
  <2>2. QED BY <1>3, <2>1 DEF Terminate, Fifo, history
<1>4. ASSUME UNCHANGED <<queue_, finished_, accepted, delivered>> PROVE Fifo'
  BY <1>4 DEF Fifo
<1>5. QED
  BY <1>1, <1>2, <1>3, <1>4
     DEF Next, Step, Begin, Lock, EnqueueRefused, EnqueueThrows, Wait,
         SpuriousWakeup, DequeueRefused, DequeueThrows, Empty, Terminated,
         vars, history

(* First in, first out, exactly once, and nothing after terminate(): for    *)
(* any number of threads, events and calls, even if copying a T throws.     *)
THEOREM FifoCorrect == Spec => []Fifo
BY TypeInit, TypeStep, FifoInit, FifoStep, PTL DEF Spec
-----------------------------------------------------------------------------
LEMMA ContractInit == Init => Contract!Init
BY DEF Init, Contract!Init

LEMMA ContractStep == TypeOK /\ Fifo /\ [Next]_vars => [Contract!Next]_Contract!vars
<1> SUFFICES ASSUME TypeOK, Fifo, [Next]_vars
             PROVE  Contract!Next \/ UNCHANGED Contract!vars
  OBVIOUS
<1> USE DEF Contract!vars
<1>1. ASSUME NEW t \in Threads, NEW e \in Events, Enqueue(t, e)
      PROVE  Contract!Put(e)
  BY <1>1 DEF Enqueue, Inside, Contract!Put, views
<1>2. ASSUME NEW t \in Threads, Dequeue(t) PROVE Contract!Take
  <2>1. /\ Len(delivered) \in Nat /\ Len(queue_) \in Nat /\ Len(queue_) > 0
        /\ Head(queue_) = queue_[1]
    BY <1>2, LenProperties, EmptySeq DEF Dequeue, TypeOK
  <2>2. /\ Len(accepted) = Len(delivered) + Len(queue_)
        /\ accepted[Len(delivered) + 1] = queue_[1]
    <3>1. accepted = delivered \o queue_
      BY <1>2 DEF Dequeue, Fifo
    <3>2. QED BY <2>1, <3>1, ConcatProperties DEF TypeOK
  <2>3. QED BY <1>2, <2>1, <2>2 DEF Dequeue, Contract!Take, views
<1>3. ASSUME NEW t \in Threads, Terminate(t) PROVE Contract!Close(t)
  BY <1>3 DEF Terminate, Contract!Close, history
<1>4. ASSUME NEW t \in Threads, EnqueueRefused(t) \/ DequeueRefused(t)
      PROVE  Contract!Refuse(t)
  BY <1>4 DEF EnqueueRefused, DequeueRefused, Contract!Refuse, history
<1>5. ASSUME NEW t \in Threads,
             \/ \E m \in Methods : Begin(t, m)
             \/ Lock(t) \/ Wait(t) \/ SpuriousWakeup(t) \/ Terminated(t)
             \/ EnqueueThrows(t) \/ DequeueThrows(t) \/ Empty(t)
      PROVE  UNCHANGED Contract!vars
  BY <1>5 DEF Begin, Lock, Wait, SpuriousWakeup, Terminated, EnqueueThrows,
              DequeueThrows, Empty, views, history
<1>6. CASE UNCHANGED vars
  BY <1>6 DEF vars, views, history
<1>7. QED
  BY <1>1, <1>2, <1>3, <1>4, <1>5, <1>6 DEF Next, Step, Contract!Next

(* The queue implements its contract: mutex, condition variable, spurious   *)
(* wake-ups and exceptions are steps that the contract does not see.        *)
THEOREM ImplementsContract == Spec => ContractSpec
<1>1. Init => Contract!Init
  BY ContractInit
<1>2. TypeOK /\ Fifo /\ [Next]_vars => [Contract!Next]_Contract!vars
  BY ContractStep
<1>3. QED
  BY <1>1, <1>2, TypeCorrect, FifoCorrect, PTL DEF Spec, ContractSpec, Contract!Spec
-----------------------------------------------------------------------------
LEMMA WaitersInit == Init => WaitersAreLive
BY DEF Init, WaitersAreLive

LEMMA WaitersStep == TypeOK /\ WaitersAreLive /\ [Next]_vars => WaitersAreLive'
<1> SUFFICES ASSUME TypeOK, WaitersAreLive, [Next]_vars PROVE WaitersAreLive'
  OBVIOUS
<1> USE QueueAssumption DEF TypeOK, WaitersAreLive, Inside, Return, views, history
<1>1. ASSUME NEW t \in Threads, NEW m \in Methods, Begin(t, m)
      PROVE  WaitersAreLive'
  BY <1>1 DEF Begin
<1>2. ASSUME NEW t \in Threads, Lock(t) \/ Terminated(t) PROVE WaitersAreLive'
  BY <1>2 DEF Lock, Terminated
<1>3. ASSUME NEW t \in Threads, NEW e \in Events, Enqueue(t, e)
      PROVE  WaitersAreLive'
  <2>1. waiting' \subseteq waiting
    BY <1>3 DEF Enqueue, NotifyOne, WakeOne
  <2>2. QED BY <1>3, <2>1 DEF Enqueue
<1>4. ASSUME NEW t \in Threads,
             \/ EnqueueRefused(t) \/ DequeueRefused(t) \/ Dequeue(t)
             \/ EnqueueThrows(t) \/ DequeueThrows(t) \/ Empty(t)
      PROVE  WaitersAreLive'
  BY <1>4 DEF EnqueueRefused, DequeueRefused, Dequeue, EnqueueThrows,
              DequeueThrows, Empty
<1>5. ASSUME NEW t \in Threads, Wait(t) \/ SpuriousWakeup(t)
      PROVE  WaitersAreLive'
  BY <1>5 DEF Wait, SpuriousWakeup
<1>6. ASSUME NEW t \in Threads, Terminate(t) PROVE WaitersAreLive'
  BY <1>6 DEF Terminate
<1>7. CASE UNCHANGED vars
  BY <1>7 DEF vars
<1>8. QED
  BY <1>1, <1>2, <1>3, <1>4, <1>5, <1>6, <1>7 DEF Next, Step

(* terminate() leaves nobody behind in condition_.wait(), and no call but   *)
(* dequeue() ever blocks there, for any number of threads.                  *)
THEOREM WaitersCorrect == Spec => []WaitersAreLive
BY TypeInit, TypeStep, WaitersInit, WaitersStep, PTL DEF Spec
-----------------------------------------------------------------------------
\* Strengthening: what a thread was told, or has read, has really happened.
ToldInv == /\ \A t \in told : finished_ /\ synced[t]
           /\ \A t \in Threads : synced[t] => finished_
           /\ mutex_ # NoThread => synced[mutex_] = finished_

LEMMA ToldInit == Init => ToldInv
BY DEF Init, ToldInv

LEMMA ToldStep == TypeOK /\ ToldInv /\ [Next]_vars => ToldInv'
<1> SUFFICES ASSUME TypeOK, ToldInv, [Next]_vars PROVE ToldInv'
  OBVIOUS
<1> USE QueueAssumption DEF TypeOK, ToldInv, Inside, Return, views, history
<1>1. ASSUME NEW t \in Threads,
             \/ \E m \in Methods : Begin(t, m)
             \/ \E e \in Events : Enqueue(t, e)
             \/ Dequeue(t) \/ EnqueueThrows(t) \/ DequeueThrows(t)
             \/ Empty(t) \/ Wait(t) \/ SpuriousWakeup(t)
      PROVE  ToldInv'
  BY <1>1 DEF Begin, Enqueue, Dequeue, EnqueueThrows, DequeueThrows, Empty,
              Wait, SpuriousWakeup
<1>2. ASSUME NEW t \in Threads, Lock(t) PROVE ToldInv'
  BY <1>2 DEF Lock
<1>3. ASSUME NEW t \in Threads, EnqueueRefused(t) \/ DequeueRefused(t)
      PROVE  ToldInv'
  BY <1>3 DEF EnqueueRefused, DequeueRefused
<1>4. ASSUME NEW t \in Threads, Terminate(t) PROVE ToldInv'
  BY <1>4 DEF Terminate
<1>5. ASSUME NEW t \in Threads, Terminated(t) PROVE ToldInv'
  BY <1>5 DEF Terminated, Answers
<1>6. CASE UNCHANGED vars
  BY <1>6 DEF vars
<1>7. QED
  BY <1>1, <1>2, <1>3, <1>4, <1>5, <1>6 DEF Next, Step

(* A thread to which the queue has refused a call, or that has terminated   *)
(* it, is answered true by terminated() although that read takes no lock.   *)
THEOREM RefusedSeesTerminatedCorrect == Spec => []RefusedSeesTerminated
<1>1. ToldInv => RefusedSeesTerminated
  BY DEF ToldInv, RefusedSeesTerminated, Answers
<1>2. QED
  BY <1>1, TypeInit, TypeStep, ToldInit, ToldStep, PTL DEF Spec
-----------------------------------------------------------------------------
LEMMA NoLostWakeupInit == Init => NoLostWakeup
BY DEF Init, NoLostWakeup

LEMMA NoLostWakeupStep ==
  ASSUME MayThrow = FALSE, TypeOK, WaitersAreLive, NoLostWakeup, [Next]_vars
  PROVE  NoLostWakeup'
<1> USE QueueAssumption DEF TypeOK, Inside, Return, views, history
<1>0. /\ IsFiniteSet(Awake) /\ Cardinality(Awake) \in Nat
      /\ IsFiniteSet(Awake') /\ Cardinality(Awake') \in Nat
      /\ Len(queue_) \in Nat
  <2>1. Awake \subseteq Threads /\ Awake' \subseteq Threads
    BY DEF Awake
  <2>2. QED BY <2>1, FS_Subset, FS_CardinalityType, LenProperties
\* A step that wakes nobody out of dequeue() and blocks nobody.
<1>1. ASSUME Awake \subseteq Awake', waiting' \subseteq waiting, queue_' = queue_
      PROVE  NoLostWakeup'
  BY <1>0, <1>1, FS_Subset DEF NoLostWakeup
<1>2. ASSUME waiting' = {} PROVE NoLostWakeup'
  BY <1>2 DEF NoLostWakeup
<1>3. ASSUME NEW t \in Threads, NEW e \in Events, Enqueue(t, e)
      PROVE  NoLostWakeup'
  <2>1. CASE waiting = {}
    BY <1>2, <1>3, <2>1 DEF Enqueue, NotifyOne, WakeOne
  <2>2. CASE waiting # {}
    <3>1. PICK w \in waiting : waiting' = waiting \ {w}
      BY <1>3, <2>2 DEF Enqueue, NotifyOne, WakeOne
    <3>2. w \in Threads /\ call[w] = "dequeue" /\ w \notin Awake /\ w # t
      BY <1>3, <3>1 DEF WaitersAreLive, Awake, Enqueue
    <3>3. Awake' = Awake \cup {w}
      BY <1>3, <3>1, <3>2 DEF Enqueue, Awake
    <3>4. Cardinality(Awake') = Cardinality(Awake) + 1
      BY <1>0, <3>2, <3>3, FS_AddElement
    <3>5. Len(queue_') = Len(queue_) + 1
      BY <1>3, AppendProperties DEF Enqueue
    <3>6. QED BY <1>0, <2>2, <3>4, <3>5 DEF NoLostWakeup
  <2>3. QED BY <2>1, <2>2
<1>4. ASSUME NEW t \in Threads, Dequeue(t) PROVE NoLostWakeup'
  <2>1. t \in Awake
    BY <1>4 DEF Dequeue, WaitersAreLive, Awake
  <2>2. Awake' = Awake \ {t}
    BY <1>4 DEF Dequeue, Awake
  <2>3. Cardinality(Awake') = Cardinality(Awake) - 1
    BY <1>0, <2>1, <2>2, FS_RemoveElement
  <2>4. Len(queue_') = Len(queue_) - 1
    BY <1>4, HeadTailProperties DEF Dequeue
  <2>5. QED BY <1>0, <1>4, <2>3, <2>4 DEF NoLostWakeup, Dequeue
<1>5. ASSUME NEW t \in Threads, Wait(t) PROVE NoLostWakeup'
  <2>1. Len(queue_') = 0
    BY <1>5 DEF Wait
  <2>2. QED BY <1>0, <2>1 DEF NoLostWakeup
<1>6. ASSUME NEW t \in Threads, EnqueueRefused(t) \/ DequeueRefused(t)
      PROVE  NoLostWakeup'
  BY <1>2, <1>6 DEF EnqueueRefused, DequeueRefused, WaitersAreLive
<1>7. ASSUME NEW t \in Threads, Terminate(t) PROVE NoLostWakeup'
  BY <1>2, <1>7 DEF Terminate
<1>8. ASSUME NEW t \in Threads,
             \/ \E m \in Methods : Begin(t, m)
             \/ Lock(t) \/ Empty(t) \/ SpuriousWakeup(t) \/ Terminated(t)
      PROVE  NoLostWakeup'
  BY <1>1, <1>8 DEF Begin, Lock, Empty, SpuriousWakeup, Terminated, Awake
<1>9. CASE UNCHANGED vars
  BY <1>1, <1>9 DEF vars, Awake
<1>10. QED
  BY <1>3, <1>4, <1>5, <1>6, <1>7, <1>8, <1>9
     DEF Next, Step, EnqueueThrows, DequeueThrows

(* As long as copying an event does not throw, notifying a single thread is *)
(* enough: while somebody is blocked, every buffered event has a thread of  *)
(* its own on its way to take it.                                           *)
THEOREM NoLostWakeupCorrect ==
  ASSUME MayThrow = FALSE
  PROVE  Spec => []NoLostWakeup
<1>1. TypeOK /\ WaitersAreLive /\ NoLostWakeup /\ [Next]_vars => NoLostWakeup'
  BY NoLostWakeupStep
<1>2. QED
  BY <1>1, TypeCorrect, WaitersCorrect, NoLostWakeupInit, PTL DEF Spec
=============================================================================
