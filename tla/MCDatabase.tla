------------------------------ MODULE MCDatabase ------------------------------
(* Instances of Database for TLC: a few runs of a few rows are enough for a   *)
(* write before, in and after a transaction, and for a run that is repeated.  *)
EXTENDS Database
=============================================================================
