------------------------------ MODULE MCLoggers ------------------------------
(* Instances of Loggers for TLC. Threads and tags are model values; without   *)
(* symmetry, as every run has a temporal property.                            *)
EXTENDS Loggers
=============================================================================
