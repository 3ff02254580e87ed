------------------------------- MODULE MCQueue -------------------------------
(* Instances of Queue for TLC. Threads and events are model values. *)
EXTENDS Queue, TLC

\* Threads are interchangeable, and so are events: neither is ordered or
\* compared to anything but itself. Sound for the safety runs only.
Symmetry == Permutations(Threads) \cup Permutations(Events)
=============================================================================
