------------------------------- MODULE Signals -------------------------------
(***************************************************************************)
(* xxx::sig (src/sig.cxx): a handler for the signals that end a program,   *)
(* and wait_for_signals(), which one thread calls again and again. The     *)
(* code has two variants. On POSIX systems sigtimedwait() takes a signal   *)
(* that comes while it waits; one that comes at another time goes to the   *)
(* handler, whose flag nobody reads there. Elsewhere the wait is a sleep,  *)
(* and the flag is read and then cleared; the handler runs in a thread of  *)
(* its own, and its signal has the default action until it ends.           *)
(***************************************************************************)
EXTENDS Naturals, FiniteSets

CONSTANTS Kinds,         \* the signals: interrupt, terminate, hang-up
          Timeout,       \* the ticks of a wait
          MaxArrivals,   \* bound: no more signals come
          MaxInterrupts  \* bound: waits are not interrupted more often

ASSUME SignalsAssumption == Timeout \in Nat /\ MaxArrivals \in Nat /\ MaxInterrupts \in Nat

VARIABLES posix,          \* which variant? Never changes
          ours,           \* the kinds whose handler is handle_signal()
          handling,       \* the kinds whose handler runs (not POSIX)
          interrupted_s,  \* the flag
          pc,             \* where the waiting thread is
          left,           \* the ticks that are left to the wait
          interrupted,    \* the local copy of the flag
          alive,          \* no signal has ended the program
          arrived,        \* history: how many signals the program survived
          heard,          \* history: how many waits returned true
          due,            \* history: a signal came that the wait must report
          interrupts      \* history: how often a wait was interrupted

handlers == <<posix, ours, handling, alive, arrived>>
vars == <<handlers, interrupted_s, pc, left, interrupted, heard, due, interrupts>>

TypeOK == /\ posix \in BOOLEAN /\ alive \in BOOLEAN
          /\ ours \in SUBSET Kinds /\ handling \in SUBSET Kinds
          /\ interrupted_s \in BOOLEAN /\ interrupted \in BOOLEAN /\ due \in BOOLEAN
          /\ pc \in {"idle", "waiting", "reading", "clearing"}
          /\ left \in 0 .. Timeout
          /\ arrived \in Nat /\ heard \in Nat /\ interrupts \in 0 .. MaxInterrupts

Init == /\ posix \in BOOLEAN /\ alive = TRUE
        /\ ours = {} /\ handling = {} /\ arrived = 0
        /\ interrupted_s = FALSE /\ interrupted = FALSE /\ due = FALSE
        /\ pc = "idle" /\ left = Timeout /\ heard = 0 /\ interrupts = 0
-----------------------------------------------------------------------------
\* disable_signal_handlers()
Disable == /\ alive /\ ours' = Kinds
           /\ UNCHANGED <<posix, handling, alive, arrived, interrupted_s, pc, left,
                          interrupted, heard, due, interrupts>>

\* Mutant: a wait begins with a clean flag.
Afresh == FALSE

Found == interrupted_s

Wait ==
  /\ alive /\ pc = "idle"
  /\ interrupted_s' = Found
  /\ pc' = IF ~posix /\ interrupted_s THEN "reading" ELSE "waiting"
  /\ left' = Timeout
  /\ UNCHANGED <<handlers, interrupted, heard, due, interrupts>>

\* Mutant: one tick too many.
StillRunning == left >= 0

Running == left > 0

Tick ==
  /\ alive /\ pc = "waiting" /\ Running
  /\ left' = left - 1
  /\ UNCHANGED <<handlers, interrupted_s, pc, interrupted, heard, due, interrupts>>

\* The wait returns. A signal that comes later is for the next one.
Answer(answer) == /\ pc' = "idle"
                  /\ heard' = heard + (IF answer THEN 1 ELSE 0)
                  /\ due' = FALSE

\* Mutant: after EAGAIN the loop goes on.
TimeOutRetried ==
  /\ alive /\ posix /\ pc = "waiting" /\ left = 0
  /\ left' = Timeout
  /\ UNCHANGED <<handlers, interrupted_s, pc, interrupted, heard, due, interrupts>>

\* sigtimedwait() fails with EAGAIN.
TimeOut ==
  /\ alive /\ posix /\ pc = "waiting" /\ left = 0
  /\ Answer(FALSE)
  /\ UNCHANGED <<handlers, interrupted_s, left, interrupted, interrupts>>

\* It fails with EINTR, as another signal came that has a handler, and the wait
\* starts again with the whole timeout.
Interrupt ==
  /\ alive /\ posix /\ pc = "waiting" /\ interrupts < MaxInterrupts
  /\ interrupts' = interrupts + 1
  /\ left' = Timeout
  /\ UNCHANGED <<handlers, interrupted_s, pc, interrupted, heard, due>>

\* The sleep is over.
Awake ==
  /\ alive /\ ~posix /\ pc = "waiting" /\ left = 0
  /\ pc' = "reading"
  /\ UNCHANGED <<handlers, interrupted_s, left, interrupted, heard, due, interrupts>>

\* A signal that comes from here on is not for this wait.
Read ==
  /\ alive /\ pc = "reading"
  /\ interrupted' = interrupted_s
  /\ pc' = "clearing"
  /\ UNCHANGED <<handlers, interrupted_s, left, heard, due, interrupts>>

\* Mutant: the flag stays.
Kept == interrupted_s

Cleared == FALSE

Clear ==
  /\ alive /\ pc = "clearing"
  /\ interrupted_s' = Cleared
  /\ Answer(interrupted)
  /\ UNCHANGED <<handlers, left, interrupted, interrupts>>
-----------------------------------------------------------------------------
\* The default action ends the program.
Kill(k) ==
  /\ alive /\ k \notin ours
  /\ alive' = FALSE
  /\ UNCHANGED <<posix, ours, handling, arrived, interrupted_s, pc, left,
                 interrupted, heard, due, interrupts>>

Arrives(k) == /\ alive /\ k \in ours /\ arrived < MaxArrivals
              /\ arrived' = arrived + 1

\* sigtimedwait() returns the signal.
Take(k) ==
  /\ posix /\ pc = "waiting" /\ Arrives(k)
  /\ Answer(TRUE)
  /\ UNCHANGED <<posix, ours, handling, alive, interrupted_s, left, interrupted, interrupts>>

\* The handler runs at once, and sets a flag that nobody reads.
HandleAtOnce(k) ==
  /\ posix /\ pc # "waiting" /\ Arrives(k)
  /\ interrupted_s' = TRUE
  /\ UNCHANGED <<posix, ours, handling, alive, pc, left, interrupted, heard, due, interrupts>>

Deliver(k) ==
  /\ ~posix /\ Arrives(k)
  /\ ours' = ours \ {k}
  /\ handling' = handling \cup {k}
  /\ UNCHANGED <<posix, alive, interrupted_s, pc, left, interrupted, heard, due, interrupts>>

\* handle_signal(), which installs itself again when it has set the flag.
Handle(k) ==
  /\ alive /\ k \in handling
  /\ interrupted_s' = TRUE
  /\ due' = (due \/ pc # "clearing")
  /\ ours' = Kinds
  /\ handling' = handling \ {k}
  /\ UNCHANGED <<posix, alive, arrived, pc, left, interrupted, heard, interrupts>>
-----------------------------------------------------------------------------
\* What the thread and the clock do by themselves.
Step == Tick \/ TimeOut \/ Awake \/ Read \/ Clear

Next == \/ Disable \/ Wait \/ Interrupt \/ Step
        \/ \E k \in Kinds : Kill(k) \/ Take(k) \/ HandleAtOnce(k) \/ Deliver(k) \/ Handle(k)

Spec == Init /\ [][Next]_vars

\* Time passes, and the thread goes on; nobody has to call, and no signal comes.
FairSpec == Spec /\ WF_vars(Step)
-----------------------------------------------------------------------------
(* No signal is reported twice, and no wait returns true without one.        *)
OneAnswerEach == heard <= arrived

(* Where the wait reads the flag of the handler (not on POSIX systems, where *)
(* nothing does): a wait that returns false has missed no signal whose       *)
(* handler ran before it read, since the last wait or during this one.       *)
NoneMissed == [][pc # "idle" /\ pc' = "idle" /\ heard' = heard => ~due]_vars

(* Every wait ends, unless the program does, however often it is             *)
(* interrupted and started again, if the interruptions end.                  *)
WaitEnds == pc # "idle" ~> pc = "idle" \/ ~alive
=============================================================================
