------------------------------ MODULE FoldLemmas ------------------------------
(* Induction for the proofs, over a set of numbers rather than a predicate,    *)
(* and what FoldLeft is made of: the function that folds the subsets of the    *)
(* indices of a sequence. That there is one has to be proved, because it is    *)
(* defined by CHOOSE.                                                          *)
EXTENDS Integers, SequencesExt, WellFoundedInduction, TLAPS

LEMMA LessThanWellFounded ==
  IsWellFoundedOn({ss \in Nat \X Nat : ss[1] < ss[2]}, Nat)
BY NatLessThanWellFounded DEF OpToRel

LEMMA Smallest ==
  ASSUME NEW S \in SUBSET Nat, S # {}
  PROVE  \E n \in S : \A m \in S : n <= m
<1> DEFINE R == {ss \in Nat \X Nat : ss[1] < ss[2]}
<1>1. IsWellFoundedOn(R, Nat)
  BY LessThanWellFounded
<1> HIDE DEF R
<1>2. PICK n \in S : \A m \in S : ~ (<<m, n>> \in R)
  BY <1>1, WFMin
<1>3. ASSUME NEW m \in S, ~ (n <= m)
      PROVE  <<m, n>> \in R
  <2>1. m < n /\ <<m, n>> \in Nat \X Nat
    BY <1>3
  <2>2. <<m, n>>[1] = m /\ <<m, n>>[2] = n
    OBVIOUS
  <2> QED
    BY <2>1, <2>2 DEF R
<1> QED
  BY <1>2, <1>3

\* A set with 0 and, up to n, the successor of each of its numbers has 0 .. n.
LEMMA UpTo ==
  ASSUME NEW n \in Nat, NEW S, 0 \in S, \A i \in 0 .. n - 1 : i \in S => i + 1 \in S
  PROVE  \A i \in 0 .. n : i \in S
<1> DEFINE missing == {i \in 0 .. n : i \notin S}
<1> SUFFICES ASSUME missing # {} PROVE FALSE
  OBVIOUS
<1>1. PICK k \in missing : \A i \in missing : k <= i
  <2> missing \in SUBSET Nat
    OBVIOUS
  <2> QED
    BY Smallest
<1>2. k # 0 /\ k - 1 \in 0 .. n - 1
  OBVIOUS
<1>3. k - 1 \in S
  BY <1>1, <1>2
<1> QED
  BY <1>2, <1>3

LEMMA MaxOf ==
  ASSUME NEW n \in Nat, NEW x \in SUBSET (1 .. n), x # {}
  PROVE  Max(x) \in x /\ \A y \in x : Max(x) >= y
<1> DEFINE bounds == {k \in Nat : \A y \in x : y <= k}
<1>1. n \in bounds
  OBVIOUS
<1>2. PICK k \in bounds : \A i \in bounds : k <= i
  <2> bounds \in SUBSET Nat
    OBVIOUS
  <2> QED
    BY <1>1, Smallest
<1>3. k \in x
  <2> SUFFICES ASSUME k \notin x PROVE FALSE
    OBVIOUS
  <2>1. PICK y \in x : TRUE
    OBVIOUS
  <2>2. k >= 1
    BY <2>1
  <2>3. k - 1 \in bounds
    BY <2>2
  <2> QED
    BY <1>2, <2>3
<1> QED
  BY <1>3 DEF Max

LEMMA MaxOfRange ==
  ASSUME NEW n \in Nat, n # 0
  PROVE  Max(1 .. n) = n /\ (1 .. n) \ {Max(1 .. n)} = 1 .. n - 1
<1>1. 1 .. n \in SUBSET (1 .. n) /\ 1 .. n # {} /\ n \in 1 .. n
  OBVIOUS
<1>2. Max(1 .. n) \in 1 .. n /\ \A y \in 1 .. n : Max(1 .. n) >= y
  BY <1>1, MaxOf
<1>3. Max(1 .. n) = n
  <2> PICK k : k = Max(1 .. n)
    OBVIOUS
  <2> QED
    BY <1>1, <1>2
<1> QED
  BY <1>3
-----------------------------------------------------------------------------
\* it folds the subsets of 1 .. n with the steps, from the smallest index on.
Folds(it, n, base, step) ==
  it = [x \in SUBSET (1 .. n) |->
          IF x = {} THEN base ELSE step[Max(x)][it[x \ {Max(x)}]]]

LEMMA FoldExists ==
  ASSUME NEW n \in Nat, NEW V, NEW base \in V, NEW step \in [1 .. n -> [V -> V]]
  PROVE  \E it \in [SUBSET (1 .. n) -> V] : Folds(it, n, base, step)
<1> DEFINE S == {m \in 0 .. n : \E it \in [SUBSET (1 .. m) -> V] : Folds(it, m, base, step)}
<1>1. 0 \in S
  <2> DEFINE it == [x \in SUBSET (1 .. 0) |-> base]
  <2>1. \A x \in SUBSET (1 .. 0) : x = {}
    OBVIOUS
  <2>2. it \in [SUBSET (1 .. 0) -> V]
    OBVIOUS
  <2>3. Folds(it, 0, base, step)
    BY <2>1 DEF Folds
  <2> QED
    BY <2>2, <2>3
<1>2. ASSUME NEW m \in 0 .. n - 1, m \in S
      PROVE  m + 1 \in S
  <2>1. PICK it \in [SUBSET (1 .. m) -> V] : Folds(it, m, base, step)
    BY <1>2
  <2> DEFINE last == m + 1
             more == [x \in SUBSET (1 .. last) |->
                        IF last \in x THEN step[last][it[x \ {last}]] ELSE it[x]]
  <2>0. m \in Nat /\ last \in 0 .. n
    OBVIOUS
  <2>2. \A x \in SUBSET (1 .. last) : last \notin x => x \in SUBSET (1 .. m)
    OBVIOUS
  <2>3. \A x \in SUBSET (1 .. last) : x \ {last} \in SUBSET (1 .. m)
    OBVIOUS
  <2>4. more \in [SUBSET (1 .. last) -> V]
    <3>1. ASSUME NEW x \in SUBSET (1 .. last)
          PROVE  (IF last \in x THEN step[last][it[x \ {last}]] ELSE it[x]) \in V
      <4>1. step[last] \in [V -> V]
        OBVIOUS
      <4> QED
        BY <2>2, <2>3, <4>1
    <3> QED
      BY <3>1
  <2>5. ASSUME NEW x \in SUBSET (1 .. last)
        PROVE  more[x] = IF x = {} THEN base ELSE step[Max(x)][more[x \ {Max(x)}]]
    <3>1. CASE x = {}
      <4>1. more[x] = it[x] /\ x \in SUBSET (1 .. m)
        BY <3>1
      <4> QED
        BY <2>1, <3>1, <4>1 DEF Folds
    <3>2. CASE x # {} /\ last \notin x
      <4>1. x \in SUBSET (1 .. m)
        BY <2>2, <3>2
      <4>2. Max(x) \in x
        BY <2>0, <3>2, <4>1, MaxOf
      <4>3. x \ {Max(x)} \in SUBSET (1 .. m) /\ last \notin x \ {Max(x)}
        BY <3>2, <4>1
      <4>4. more[x] = it[x] /\ more[x \ {Max(x)}] = it[x \ {Max(x)}]
        BY <3>2, <4>1, <4>3
      <4> QED
        BY <2>1, <3>2, <4>1, <4>4 DEF Folds
    <3>3. CASE last \in x
      <4>1. Max(x) = last
        <5>1. last \in Nat
          OBVIOUS
        <5>2. Max(x) \in x /\ \A y \in x : Max(x) >= y
          BY <3>3, <5>1, MaxOf, Zenon
        <5>3. PICK k : k = Max(x)
          OBVIOUS
        <5>4. k \in 1 .. last /\ k >= last
          BY <3>3, <5>2, <5>3
        <5>5. k = last
          BY <5>4
        <5> QED
          BY <5>3, <5>5
      <4>2. more[x \ {last}] = it[x \ {last}]
        BY <2>3
      <4>3. more[x] = step[last][it[x \ {last}]]
        BY <3>3
      <4> QED
        BY <3>3, <4>1, <4>2, <4>3
    <3> QED
      BY <3>1, <3>2, <3>3
  <2>6. Folds(more, last, base, step)
    <3> HIDE DEF more
    <3>1. more = [x \in SUBSET (1 .. last) |-> more[x]]
      BY <2>4
    <3> QED
      BY <2>5, <3>1 DEF Folds
  <2> HIDE DEF more
  <2> QED
    BY <2>0, <2>4, <2>6
<1>3. n \in S
  <2> HIDE DEF S
  <2>1. \A i \in 0 .. n : i \in S
    BY <1>1, <1>2, UpTo
  <2> QED
    BY <2>1
<1> QED
  BY <1>3

\* The values before the first and after each of the steps.
Stepwise(r, n, V, base, step) ==
  /\ r \in [0 .. n -> V]
  /\ r[0] = base
  /\ \A i \in 1 .. n : r[i] = step[i][r[i - 1]]

\* Weaker than Folds: a step is taken only from a value of the right type.
TakesSteps(it, n, V, base, step) ==
  /\ it[{}] = base
  /\ \A x \in SUBSET (1 .. n) : x # {} /\ it[x \ {Max(x)}] \in V =>
       it[x] = step[Max(x)][it[x \ {Max(x)}]]

LEMMA FoldPrefixes ==
  ASSUME NEW n \in Nat, NEW V, NEW base \in V, NEW step \in [1 .. n -> [V -> V]],
         NEW it, TakesSteps(it, n, V, base, step)
  PROVE  Stepwise([i \in 0 .. n |-> it[1 .. i]], n, V, base, step)
<1> DEFINE r == [i \in 0 .. n |-> it[1 .. i]]
<1>1. r[0] = base
  <2>1. 1 .. 0 = {}
    OBVIOUS
  <2>2. r[0] = it[1 .. 0]
    OBVIOUS
  <2> QED
    BY <2>1, <2>2 DEF TakesSteps
<1>2. ASSUME NEW i \in 1 .. n, r[i - 1] \in V
      PROVE  r[i] = step[i][r[i - 1]]
  <2>1. Max(1 .. i) = i /\ (1 .. i) \ {Max(1 .. i)} = 1 .. i - 1
    BY MaxOfRange
  <2>2. i \in 1 .. i /\ 1 .. i \in SUBSET (1 .. n)
    OBVIOUS
  <2>3. 1 .. i # {}
    BY <2>2
  <2>4. r[i] = it[1 .. i] /\ r[i - 1] = it[1 .. i - 1]
    OBVIOUS
  <2>5. it[(1 .. i) \ {Max(1 .. i)}] \in V
    BY <1>2, <2>1, <2>4, Zenon
  <2>6. it[1 .. i] = step[Max(1 .. i)][it[(1 .. i) \ {Max(1 .. i)}]]
    BY <2>2, <2>3, <2>5, Zenon DEF TakesSteps
  <2> QED
    BY <2>1, <2>4, <2>6, Zenon
<1> DEFINE S == {i \in 0 .. n : r[i] \in V}
<1>3. 0 \in S
  BY <1>1
<1>4. ASSUME NEW i \in 0 .. n - 1, i \in S
      PROVE  i + 1 \in S
  <2>1. PICK j : j = i + 1
    OBVIOUS
  <2>2. j \in 1 .. n /\ j - 1 = i
    BY <2>1
  <2>3. r[i] \in V
    BY <1>4
  <2> HIDE DEF r
  <2>4. r[j] = step[j][r[i]]
    BY <1>2, <2>2, <2>3
  <2>5. r[j] \in V
    <3>1. step[j] \in [V -> V]
      BY <2>2
    <3> QED
      BY <2>3, <2>4, <3>1
  <2> QED
    BY <2>1, <2>2, <2>5
<1>5. \A i \in 0 .. n : i \in S
  <2> HIDE DEF S
  <2> QED
    BY <1>3, <1>4, UpTo
<1>6. \A i \in 0 .. n : r[i] \in V
  BY <1>5
<1>7. r \in [0 .. n -> V]
  BY <1>6
<1> HIDE DEF r
<1>8. \A i \in 1 .. n : i - 1 \in 0 .. n
  OBVIOUS
<1>9. \A i \in 1 .. n : r[i] = step[i][r[i - 1]]
  BY <1>2, <1>6, <1>8
<1>10. Stepwise(r, n, V, base, step)
  BY <1>1, <1>7, <1>9 DEF Stepwise
<1> QED
  BY <1>10 DEF r
=============================================================================
