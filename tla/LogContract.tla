----------------------------- MODULE LogContract -----------------------------
(***************************************************************************)
(* What a log file promises to the program that logs to it, without its    *)
(* threads, files, dates or paths: lines are taken one at a time; those    *)
(* that were taken but not stored yet are stored together or, if the file  *)
(* system or the program fails, lost together; and what was stored stays   *)
(* stored, whatever happens to the files afterwards.                       *)
(***************************************************************************)
EXTENDS Naturals

VARIABLES written, \* how many lines were taken: they are 1 .. written
          stored,  \* the lines that are on the disk
          lost     \* the lines that will never be

vars == <<written, stored, lost>>

Pending == (1 .. written) \ (stored \cup lost)

Init == written = 0 /\ stored = {} /\ lost = {}

\* A line is taken, behind those that are pending or after they were stored.
Log == /\ written' = written + 1
       /\ stored' \in {stored, stored \cup Pending}
       /\ UNCHANGED lost

Store == /\ stored' = stored \cup Pending
         /\ UNCHANGED <<written, lost>>

Lose == /\ lost' = lost \cup Pending
        /\ UNCHANGED <<written, stored>>

Next == Log \/ Store \/ Lose

Spec == Init /\ [][Next]_vars
=============================================================================
