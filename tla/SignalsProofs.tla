---------------------------- MODULE SignalsProofs ----------------------------
(* Theorems about Signals, for any signals, timeouts and numbers of arrivals. *)
EXTENDS Signals, FiniteSetTheorems, TLAPS

\* On POSIX systems the wait itself is where a signal is found.
PosixInv == posix => handling = {} /\ pc \in {"idle", "waiting"} /\ ~due

Base == TypeOK /\ PosixInv

LEMMA BaseInit == Init => Base
<1> SUFFICES ASSUME Init PROVE Base
  OBVIOUS
<1>1. /\ left \in 0 .. Timeout /\ arrived \in Nat /\ heard \in Nat
      /\ interrupts \in 0 .. MaxInterrupts
  BY SignalsAssumption DEF Init
<1> QED
  BY <1>1, Zenon DEF Init, Base, TypeOK, PosixInv

LEMMA BaseStep == Base /\ [Next]_vars => Base'
<1> SUFFICES ASSUME Base, [Next]_vars PROVE Base'
  OBVIOUS
<1> USE SignalsAssumption DEF Base, TypeOK, PosixInv, handlers
<1>1. CASE Disable
  BY <1>1 DEF Disable
<1>2. CASE Wait
  BY <1>2 DEF Wait, Found
<1>3. CASE Interrupt
  BY <1>3 DEF Interrupt
<1>4. CASE Tick
  BY <1>4 DEF Tick, Running
<1>5. CASE TimeOut
  <2>1. heard' \in Nat /\ pc' = "idle" /\ due' = FALSE
    BY <1>5 DEF TimeOut, Answer
  <2> QED
    BY <1>5, <2>1 DEF TimeOut
<1>6. CASE Awake
  BY <1>6 DEF Awake
<1>7. CASE Read
  BY <1>7 DEF Read
<1>8. CASE Clear
  <2>1. heard' \in Nat /\ pc' = "idle" /\ due' = FALSE /\ interrupted_s' = FALSE
    BY <1>8 DEF Clear, Cleared, Answer
  <2> QED
    BY <1>8, <2>1 DEF Clear
<1>9. ASSUME NEW k \in Kinds, Kill(k)
      PROVE  Base'
  BY <1>9 DEF Kill
<1>10. ASSUME NEW k \in Kinds, Take(k)
       PROVE  Base'
  <2>1. heard' \in Nat /\ arrived' \in Nat /\ pc' = "idle" /\ due' = FALSE
    BY <1>10 DEF Take, Arrives, Answer
  <2> QED
    BY <1>10, <2>1 DEF Take
<1>11. ASSUME NEW k \in Kinds, HandleAtOnce(k)
       PROVE  Base'
  BY <1>11 DEF HandleAtOnce, Arrives
<1>12. ASSUME NEW k \in Kinds, Deliver(k)
       PROVE  Base'
  BY <1>12 DEF Deliver, Arrives
<1>13. ASSUME NEW k \in Kinds, Handle(k)
       PROVE  Base'
  BY <1>13 DEF Handle
<1>14. CASE UNCHANGED vars
  BY <1>14 DEF vars
<1> QED
  BY <1>1, <1>2, <1>3, <1>4, <1>5, <1>6, <1>7, <1>8, <1>9, <1>10, <1>11, <1>12,
     <1>13, <1>14 DEF Next, Step

LEMMA BaseInvariant == Spec => []Base
BY BaseInit, BaseStep, PTL DEF Spec

(* Every variable of the handlers and of the wait keeps its type.             *)
THEOREM TypeCorrect == Spec => []TypeOK
<1>1. Base => TypeOK
  BY DEF Base
<1> QED
  BY <1>1, BaseInvariant, PTL
-----------------------------------------------------------------------------
(* A signal is in one place: with a handler that runs, in the flag, in the    *)
(* copy that the wait has read, or in an answer. The flag and its copy hold   *)
(* one signal between them, as the copy was made of the flag.                 *)

Flagged == interrupted_s \/ (pc = "clearing" /\ interrupted)

Pending == IF Flagged THEN 1 ELSE 0

AnswerInv == /\ IsFiniteSet(handling)
             /\ IF posix THEN heard <= arrived
                ELSE heard + Pending + Cardinality(handling) <= arrived

LEMMA AnswerStep == Base /\ AnswerInv /\ [Next]_vars => AnswerInv'
<1> SUFFICES ASSUME Base, AnswerInv, [Next]_vars PROVE AnswerInv'
  OBVIOUS
<1>1. /\ heard \in Nat /\ arrived \in Nat
      /\ Pending \in Nat /\ Cardinality(handling) \in Nat /\ IsFiniteSet(handling)
  BY FS_CardinalityType DEF Base, TypeOK, AnswerInv, Pending
\* Steps that leave the handlers alone, and answer nothing.
<1>2. ASSUME UNCHANGED <<posix, handling, arrived, heard>>, Flagged' => Flagged
      PROVE  AnswerInv'
  BY <1>1, <1>2 DEF AnswerInv, Pending
<1>3. CASE Disable
  BY <1>3, <1>2 DEF Disable, Flagged
<1>4. CASE Wait
  BY <1>4, <1>2 DEF Wait, Found, handlers, Flagged
<1>5. CASE Interrupt \/ Tick \/ Awake
  BY <1>5, <1>2 DEF Interrupt, Tick, Awake, handlers, Flagged
<1>6. CASE Read
  BY <1>6, <1>2 DEF Read, handlers, Flagged
<1>7. CASE TimeOut
  <2>1. heard' = heard
    BY <1>1, <1>7 DEF TimeOut, Answer
  <2> QED
    BY <1>7, <1>2, <2>1 DEF TimeOut, Answer, handlers, Flagged
<1>8. CASE Clear
  <2>1. ~posix /\ pc = "clearing" /\ interrupted_s' = FALSE /\ pc' = "idle"
    BY <1>8 DEF Clear, Cleared, Answer, Base, PosixInv
  <2>2. handling' = handling /\ arrived' = arrived /\ posix' = posix
    BY <1>8 DEF Clear, handlers
  <2>3. heard' = heard + (IF interrupted THEN 1 ELSE 0)
    BY <1>8 DEF Clear, Answer
  <2>4. Pending' = 0 /\ heard' <= heard + Pending
    BY <1>1, <2>1, <2>3 DEF Pending, Flagged
  <2>5. heard' \in Nat
    BY <1>1, <2>3
  <2> QED
    BY <1>1, <2>1, <2>2, <2>4, <2>5 DEF AnswerInv
<1>9. ASSUME NEW k \in Kinds, Kill(k)
      PROVE  AnswerInv'
  BY <1>9, <1>2 DEF Kill, Flagged
<1>10. ASSUME NEW k \in Kinds, Take(k)
       PROVE  AnswerInv'
  BY <1>1, <1>10 DEF Take, Arrives, Answer, AnswerInv
<1>11. ASSUME NEW k \in Kinds, HandleAtOnce(k)
       PROVE  AnswerInv'
  BY <1>1, <1>11 DEF HandleAtOnce, Arrives, AnswerInv
<1>12. ASSUME NEW k \in Kinds, Deliver(k)
       PROVE  AnswerInv'
  <2>1. /\ IsFiniteSet(handling \cup {k})
        /\ Cardinality(handling \cup {k}) \in Nat
        /\ Cardinality(handling \cup {k}) <= Cardinality(handling) + 1
    BY <1>1, FS_AddElement, FS_CardinalityType
  <2>2. /\ ~posix /\ posix' = posix /\ heard' = heard /\ arrived' = arrived + 1
        /\ handling' = handling \cup {k}
    BY <1>12 DEF Deliver, Arrives
  <2>3. Pending' = Pending
    BY <1>12 DEF Deliver, Pending, Flagged
  <2> QED
    BY <1>1, <2>1, <2>2, <2>3 DEF AnswerInv
<1>13. ASSUME NEW k \in Kinds, Handle(k)
       PROVE  AnswerInv'
  <2>1. /\ IsFiniteSet(handling \ {k})
        /\ Cardinality(handling \ {k}) = Cardinality(handling) - 1
    BY <1>1, <1>13, FS_RemoveElement DEF Handle
  <2>2. /\ ~posix /\ posix' = posix /\ heard' = heard /\ arrived' = arrived
        /\ handling' = handling \ {k}
    BY <1>13 DEF Handle, Base, PosixInv
  <2>3. Pending' \in Nat /\ Pending' <= Pending + 1
    BY DEF Pending
  <2> QED
    BY <1>1, <2>1, <2>2, <2>3 DEF AnswerInv
<1>14. CASE UNCHANGED vars
  BY <1>14, <1>2 DEF vars, handlers, Flagged
<1> QED
  BY <1>3, <1>4, <1>5, <1>6, <1>7, <1>8, <1>9, <1>10, <1>11, <1>12, <1>13, <1>14
     DEF Next, Step

(* No signal is reported twice, and no wait returns true without one, in      *)
(* either variant of wait_for_signals() and whenever signals come.            *)
THEOREM OneAnswerEachCorrect == Spec => []OneAnswerEach
<1>1. Init => AnswerInv
  BY FS_EmptySet DEF Init, AnswerInv, Pending, Flagged
<1>2. Base /\ AnswerInv => OneAnswerEach
  <2> SUFFICES ASSUME Base, AnswerInv PROVE OneAnswerEach
    OBVIOUS
  <2>1. heard \in Nat /\ arrived \in Nat /\ Pending \in Nat /\ Cardinality(handling) \in Nat
    BY FS_CardinalityType DEF Base, TypeOK, AnswerInv, Pending
  <2> QED
    BY <2>1 DEF AnswerInv, OneAnswerEach
<1> QED
  BY <1>1, <1>2, AnswerStep, BaseInvariant, PTL DEF Spec
-----------------------------------------------------------------------------
(* A signal that is due is in the flag until the wait reads it, and then in   *)
(* the copy that the answer is made of.                                       *)

DueInv == due => IF pc = "clearing" THEN interrupted ELSE interrupted_s

LEMMA DueStep == Base /\ DueInv /\ [Next]_vars => DueInv'
<1> SUFFICES ASSUME Base, DueInv, [Next]_vars PROVE DueInv'
  OBVIOUS
<1> USE DEF DueInv
<1>1. CASE Disable
  BY <1>1 DEF Disable
<1>2. CASE Wait
  BY <1>2 DEF Wait, Found
<1>3. CASE Interrupt \/ Tick \/ Awake
  <2>1. UNCHANGED <<due, interrupted, interrupted_s>> /\ pc = "waiting" /\ pc' # "clearing"
    BY <1>3 DEF Interrupt, Tick, Awake
  <2> QED
    BY <2>1
<1>4. CASE Read
  BY <1>4 DEF Read
<1>5. CASE TimeOut \/ Clear
  BY <1>5 DEF TimeOut, Clear, Answer
<1>6. ASSUME NEW k \in Kinds, Kill(k) \/ Take(k)
      PROVE  DueInv'
  <2>1. CASE Kill(k)
    BY <2>1 DEF Kill
  <2>2. CASE Take(k)
    BY <2>2 DEF Take, Answer
  <2> QED
    BY <1>6, <2>1, <2>2
<1>7. ASSUME NEW k \in Kinds, HandleAtOnce(k)
      PROVE  DueInv'
  BY <1>7 DEF HandleAtOnce
<1>8. ASSUME NEW k \in Kinds, Deliver(k) \/ Handle(k)
      PROVE  DueInv'
  <2>1. CASE Deliver(k)
    BY <2>1 DEF Deliver
  <2>2. CASE Handle(k)
    BY <2>2 DEF Handle
  <2> QED
    BY <1>8, <2>1, <2>2
<1>9. CASE UNCHANGED vars
  BY <1>9 DEF vars, handlers
<1> QED
  BY <1>1, <1>2, <1>3, <1>4, <1>5, <1>6, <1>7, <1>8, <1>9 DEF Next, Step

(* A wait that reads the flag of the handler, and returns false, has missed   *)
(* no signal whose handler ran before it read.                                *)
THEOREM NoneMissedCorrect == Spec => NoneMissed
<1>1. Init => DueInv
  BY DEF Init, DueInv
<1>2. Base /\ DueInv /\ [Next]_vars
        => [pc # "idle" /\ pc' = "idle" /\ heard' = heard => ~due]_vars
  <2> SUFFICES ASSUME Base, DueInv, Next, pc # "idle", pc' = "idle", heard' = heard
               PROVE  ~due
    OBVIOUS
  <2>1. heard \in Nat /\ heard + 1 # heard
    BY DEF Base, TypeOK
  <2>2. CASE TimeOut
    BY <2>2 DEF TimeOut, Base, PosixInv
  <2>3. CASE Clear
    <3>1. ~interrupted /\ pc = "clearing"
      BY <2>1, <2>3 DEF Clear, Answer
    <3> QED
      BY <3>1 DEF DueInv
  <2>4. ASSUME NEW k \in Kinds, Take(k)
        PROVE  FALSE
    BY <2>1, <2>4 DEF Take, Arrives, Answer
  <2>5. CASE Disable \/ Wait \/ Interrupt \/ Tick \/ Awake \/ Read
    BY <2>5 DEF Disable, Wait, Interrupt, Tick, Awake, Read
  <2>6. ASSUME NEW k \in Kinds, Kill(k) \/ HandleAtOnce(k) \/ Deliver(k) \/ Handle(k)
        PROVE  FALSE
    BY <2>6 DEF Kill, HandleAtOnce, Deliver, Handle
  <2> QED
    BY <2>2, <2>3, <2>4, <2>5, <2>6 DEF Next, Step
<1> QED
  BY <1>1, <1>2, DueStep, BaseInvariant, PTL DEF Spec, NoneMissed
=============================================================================
