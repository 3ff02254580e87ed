------------------------------- MODULE MCStore -------------------------------
(* Instances of Store for TLC. Threads are model values. Without symmetry, as *)
(* the run has a liveness property.                                           *)
EXTENDS Store
=============================================================================
