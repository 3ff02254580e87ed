------------------------------ MODULE MCSignals ------------------------------
(* Instances of Signals for TLC. The signals are model values.               *)
EXTENDS Signals
=============================================================================
