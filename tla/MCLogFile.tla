------------------------------ MODULE MCLogFile ------------------------------
(* Instances of LogFile for TLC. Threads and paths are model values. *)
EXTENDS LogFile, TLC

\* Threads, and paths, are interchangeable.
Symmetry == Permutations(Threads) \cup Permutations(Paths)
=============================================================================
