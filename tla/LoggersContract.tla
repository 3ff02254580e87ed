--------------------------- MODULE LoggersContract ---------------------------
(***************************************************************************)
(* What the registry of loggers promises to the threads of a program: it   *)
(* looks as if it had been there, with its default logger, from the very   *)
(* start; each call takes effect at once; and a reference it gives out     *)
(* names the same logger until that logger is removed by its own tag.      *)
(***************************************************************************)
EXTENDS Naturals

CONSTANTS Threads, \* the threads of the program
          Tags,    \* the tags a program registers its own loggers under
          Default  \* the tag of the default logger: the empty string

Keys == Tags \cup {Default}

VARIABLES registry, \* the logger under each tag, 0 where there is none
          made,     \* how many loggers were ever built: they are 1 .. made
          removed,  \* the loggers that remove_logger() has destroyed
          ref       \* the last reference logger() gave to each thread

vars == <<registry, made, removed, ref>>

Init == /\ registry = [k \in Keys |-> IF k = Default THEN 1 ELSE 0]
        /\ made = 1
        /\ removed = {}
        /\ ref = [t \in Threads |-> [tag |-> Default, logger |-> 0]]

Get(t, k) == /\ registry[k] # 0
             /\ ref' = [ref EXCEPT ![t] = [tag |-> k, logger |-> registry[k]]]
             /\ UNCHANGED <<registry, made, removed>>

Add(k) == /\ registry[k] = 0
          /\ registry' = [registry EXCEPT ![k] = made + 1]
          /\ made' = made + 1
          /\ UNCHANGED <<removed, ref>>

Remove(k) == /\ k # Default /\ registry[k] # 0
             /\ registry' = [registry EXCEPT ![k] = 0]
             /\ removed' = removed \cup {registry[k]}
             /\ UNCHANGED <<made, ref>>

Next == \E k \in Keys : \/ \E t \in Threads : Get(t, k)
                        \/ Add(k) \/ Remove(k)

Spec == Init /\ [][Next]_vars
=============================================================================
