---------------------------- MODULE QueueContract ----------------------------
(***************************************************************************)
(* What xxx::queue<T> promises to its callers, without the mutex, the      *)
(* condition variable or the buffer: events are accepted in one order and  *)
(* delivered in that same order, each at most once, until the queue is     *)
(* closed; from then on every call is refused and nothing moves.           *)
(***************************************************************************)
EXTENDS Naturals, Sequences

CONSTANTS Threads,   \* the threads that use the queue
          Events     \* the values of the template parameter T

VARIABLES accepted,  \* every event whose enqueue() returned true, in order
          delivered, \* every event a dequeue() returned, in order
          closed,    \* terminate() has taken effect
          told       \* the threads that know: refused, or closed it themselves

vars == <<accepted, delivered, closed, told>>

Init == /\ accepted = <<>>
        /\ delivered = <<>>
        /\ closed = FALSE
        /\ told = {}

Put(e) == /\ ~closed
          /\ accepted' = Append(accepted, e)
          /\ UNCHANGED <<delivered, closed, told>>

\* The oldest accepted event that was not delivered yet is delivered.
Take == /\ ~closed
        /\ Len(delivered) < Len(accepted)
        /\ delivered' = Append(delivered, accepted[Len(delivered) + 1])
        /\ UNCHANGED <<accepted, closed, told>>

Close(t) == /\ closed' = TRUE
            /\ told' = told \cup {t}
            /\ UNCHANGED <<accepted, delivered>>

Refuse(t) == /\ closed
             /\ told' = told \cup {t}
             /\ UNCHANGED <<accepted, delivered, closed>>

Next == \/ \E e \in Events : Put(e)
        \/ Take
        \/ \E t \in Threads : Close(t) \/ Refuse(t)

Spec == Init /\ [][Next]_vars
=============================================================================
