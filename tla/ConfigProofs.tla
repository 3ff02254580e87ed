---------------------------- MODULE ConfigProofs ----------------------------
(* Theorems about Config, for any keys, arguments, lines and texts: what a     *)
(* fold of Push and of the digits of a number gives, that the values of a key  *)
(* are kept in order, and which texts convert to which numbers.                *)
EXTENDS Config, FoldLemmas, FiniteSetTheorems, SequenceTheorems
-----------------------------------------------------------------------------
(* Texts and what is cut off them. *)

LEMMA EmptyText == <<>> \in Text
BY EmptySeq DEF Text

LEMMA AfterType ==
  ASSUME NEW text \in Text, NEW n \in 0 .. Len(text)
  PROVE  /\ After(text, n) \in Text
         /\ Len(After(text, n)) = Len(text) - n
         /\ \A i \in 1 .. Len(text) - n : After(text, n)[i] = text[n + i]
<1>1. Len(text) \in Nat /\ \A i \in 1 .. Len(text) : text[i] \in STRING
  BY LenProperties, ElementOfSeq DEF Text
<1>2. \A i \in n + 1 .. Len(text) : text[i] \in STRING
  BY <1>1
<1>3. /\ After(text, n) \in Seq(STRING)
      /\ Len(After(text, n)) = IF n + 1 <= Len(text) THEN Len(text) - (n + 1) + 1 ELSE 0
      /\ \A i \in 1 .. Len(text) - (n + 1) + 1 : After(text, n)[i] = text[n + 1 + i - 1]
  BY <1>1, <1>2, SubSeqProperties DEF After
<1> QED
  BY <1>1, <1>3 DEF Text

\* The characters of the set that a text starts with, and the one behind them.
LEMMA LeadingIs ==
  ASSUME NEW text \in Text, NEW set, NEW n \in 0 .. Len(text),
         \A i \in 1 .. n : text[i] \in set,
         n < Len(text) => text[n + 1] \notin set
  PROVE  Leading(text, set) = n
<1> DEFINE of == {i \in DOMAIN text : \A j \in 1 .. i : text[j] \in set}
<1>1. DOMAIN text = 1 .. Len(text) /\ Len(text) \in Nat
  BY LenProperties DEF Text
<1>2. of = 1 .. n
  <2>1. ASSUME NEW i \in of, i > n PROVE FALSE
    <3>1. n + 1 \in 1 .. i /\ n < Len(text)
      BY <1>1, <2>1
    <3> QED
      BY <3>1
  <2>2. \A i \in 1 .. n : i \in of
    BY <1>1
  <2> QED
    BY <1>1, <2>1, <2>2
<1>3. Cardinality(1 .. n) = n
  BY FS_Interval
<1> QED
  BY <1>2, <1>3 DEF Leading

LEMMA LeadingType ==
  ASSUME NEW text \in Text, NEW set
  PROVE  /\ Leading(text, set) \in 0 .. Len(text)
         /\ \A i \in 1 .. Leading(text, set) : text[i] \in set
         /\ Leading(text, set) < Len(text) => text[Leading(text, set) + 1] \notin set
<1> DEFINE ends == {n \in 0 .. Len(text) : n < Len(text) => text[n + 1] \notin set}
<1>1. Len(text) \in Nat
  BY LenProperties DEF Text
<1>2. PICK n \in ends : \A m \in ends : n <= m
  <2>1. Len(text) \in ends /\ ends \in SUBSET Nat
    BY <1>1
  <2> QED
    BY <2>1, Smallest
<1>3. \A i \in 1 .. n : text[i] \in set
  <2>1. ASSUME NEW i \in 1 .. n, text[i] \notin set PROVE FALSE
    <3>1. i - 1 \in ends
      BY <1>1, <2>1
    <3>2. n <= i - 1
      BY <1>2, <3>1
    <3> QED
      BY <1>1, <3>2
  <2> QED
    BY <2>1
<1>4. Leading(text, set) = n
  BY <1>3, LeadingIs
<1> QED
  BY <1>3, <1>4

LEMMA LineType ==
  ASSUME NEW line \in Lines
  PROVE  /\ Line(line) \in [kind : {"pair", "skip", "bad"}, key : Keys, text : Text]
         /\ Line(line).kind = "pair" => line.kind = "pair"
         /\ Line(line).key = line.key
<1>1. line \in [kind : {"pair", "skip", "bad"}, key : Keys, text : Text]
  BY EmptyText DEF Lines, Pair, Other, Keys
<1>2. line.text \in Text
  BY <1>1
<1>3. After(line.text, Leading(line.text, {" "})) \in Text
  BY <1>2, LeadingType, AfterType
<1> QED
  BY <1>1, <1>3 DEF Line

LEMMA ArgumentType ==
  ASSUME NEW item \in Arguments
  PROVE  item \in [kind : {"pair", "bad"}, key : Keys, text : Text]
BY EmptyText DEF Arguments, Pair, Other, Keys
-----------------------------------------------------------------------------
(* Push, and its fold over the arguments. *)

LEMMA PushType ==
  ASSUME NEW map \in Maps, NEW item, item.key \in Keys, item.text \in Text
  PROVE  /\ Push(map, item) \in Maps
         /\ \A k \in Keys : Push(map, item)[k] =
              IF k = item.key THEN Append(map[k], item.text) ELSE map[k]
BY DEF Push, Maps

\* The maps before the first and after each of the arguments.
Steps(r, items) ==
  /\ r \in [0 .. Len(items) -> Maps]
  /\ r[0] = Empty
  /\ \A i \in 1 .. Len(items) : r[i] = Push(r[i - 1], items[i])

PushFold(items) ==
  CHOOSE it : it = [x \in SUBSET (DOMAIN items) |->
    IF x = {} THEN Empty ELSE Push(it[x \ {Max(x)}], items[Max(x)])]

LEMMA EmptyType == Empty \in Maps
BY EmptySeq DEF Empty, Maps

LEMMA ParsedIsFold ==
  ASSUME NEW items
  PROVE  FoldLeft(Push, Empty, items) = PushFold(items)[DOMAIN items]
BY DEF FoldLeft, MapThenFoldSet, PushFold

LEMMA PushFoldIs ==
  ASSUME NEW items \in Seq(Arguments)
  PROVE  PushFold(items) = [x \in SUBSET (1 .. Len(items)) |->
           IF x = {} THEN Empty ELSE Push(PushFold(items)[x \ {Max(x)}], items[Max(x)])]
<1> DEFINE n == Len(items)
           step == [i \in 1 .. n |-> [map \in Maps |-> Push(map, items[i])]]
<1>1. n \in Nat /\ DOMAIN items = 1 .. n
  BY LenProperties
<1>2. \A i \in 1 .. n : items[i].key \in Keys /\ items[i].text \in Text
  BY ElementOfSeq, ArgumentType
<1>3. step \in [1 .. n -> [Maps -> Maps]]
  <2>1. ASSUME NEW i \in 1 .. n, NEW map \in Maps
        PROVE  Push(map, items[i]) \in Maps
    BY <1>2, PushType
  <2> QED
    BY <2>1
<1>4. PICK it \in [SUBSET (1 .. n) -> Maps] : Folds(it, n, Empty, step)
  <2> HIDE DEF n, step
  <2> QED
    BY <1>1, <1>3, EmptyType, FoldExists
<1>5. ASSUME NEW x \in SUBSET (1 .. n), x # {}
      PROVE  step[Max(x)][it[x \ {Max(x)}]] = Push(it[x \ {Max(x)}], items[Max(x)])
  <2>1. Max(x) \in 1 .. n
    BY <1>1, <1>5, MaxOf
  <2>2. it[x \ {Max(x)}] \in Maps
    OBVIOUS
  <2> QED
    BY <2>1, <2>2
<1>6. it = [x \in SUBSET (1 .. n) |->
              IF x = {} THEN Empty ELSE Push(it[x \ {Max(x)}], items[Max(x)])]
  BY <1>4, <1>5, Zenon DEF Folds
<1> QED
  BY <1>1, <1>6, Zenon DEF PushFold

LEMMA ParsedSteps ==
  ASSUME NEW items \in Seq(Arguments)
  PROVE  \E r : Steps(r, items) /\ FoldLeft(Push, Empty, items) = r[Len(items)]
<1> DEFINE n == Len(items)
           step == [i \in 1 .. n |-> [map \in Maps |-> Push(map, items[i])]]
           r == [i \in 0 .. n |-> PushFold(items)[1 .. i]]
<1>1. n \in Nat /\ DOMAIN items = 1 .. n
  BY LenProperties
<1>2. step \in [1 .. n -> [Maps -> Maps]]
  <2>1. ASSUME NEW i \in 1 .. n, NEW map \in Maps
        PROVE  Push(map, items[i]) \in Maps
    BY ElementOfSeq, ArgumentType, PushType
  <2> QED
    BY <2>1
<1>3. PushFold(items)[{}] = Empty
  BY PushFoldIs
<1>4. ASSUME NEW x \in SUBSET (1 .. n), x # {}, PushFold(items)[x \ {Max(x)}] \in Maps
      PROVE  PushFold(items)[x] = step[Max(x)][PushFold(items)[x \ {Max(x)}]]
  <2>1. Max(x) \in 1 .. n
    BY <1>1, <1>4, MaxOf
  <2>2. PushFold(items)[x] = Push(PushFold(items)[x \ {Max(x)}], items[Max(x)])
    BY <1>4, PushFoldIs, Zenon
  <2> QED
    BY <1>4, <2>1, <2>2
<1>5. Stepwise(r, n, Maps, Empty, step)
  <2> HIDE DEF n, step
  <2>1. TakesSteps(PushFold(items), n, Maps, Empty, step)
    BY <1>3, <1>4, Zenon DEF TakesSteps
  <2> QED
    BY <1>1, <1>2, <2>1, EmptyType, FoldPrefixes
<1>6. \A i \in 1 .. n : step[i][r[i - 1]] = Push(r[i - 1], items[i])
  <2>1. r \in [0 .. n -> Maps]
    BY <1>5 DEF Stepwise
  <2> HIDE DEF r
  <2> QED
    BY <1>1, <2>1
<1>7. FoldLeft(Push, Empty, items) = r[n]
  BY <1>1, ParsedIsFold
<1>8. Steps(r, items)
  <2> HIDE DEF r, step
  <2> QED
    BY <1>5, <1>6 DEF Steps, Stepwise
<1> QED
  BY <1>7, <1>8
-----------------------------------------------------------------------------
(* The values of a key in the order of the items that have them. *)

Of(items, k, n) == {i \in 1 .. n : items[i].kind = "pair" /\ items[i].key = k}

UpToHere(of, i) == {j \in of : j <= i}

LEMMA InOrderIs ==
  ASSUME NEW values, NEW items, NEW k, NEW n
  PROVE  InOrder(values, items, k, n) <=>
           /\ Len(values) = Cardinality(Of(items, k, n))
           /\ \A i \in Of(items, k, n) :
                values[Cardinality(UpToHere(Of(items, k, n), i))] = items[i].text
BY DEF InOrder, Of, UpToHere

LEMMA InOrderNone ==
  ASSUME NEW items, NEW k
  PROVE  InOrder(<<>>, items, k, 0)
<1>1. Of(items, k, 0) = {}
  BY DEF Of
<1>2. Len(<<>>) = 0
  BY EmptySeq
<1> QED
  BY <1>1, <1>2, InOrderIs, FS_EmptySet

LEMMA OfIsFinite ==
  ASSUME NEW items, NEW k, NEW n \in Nat
  PROVE  /\ IsFiniteSet(Of(items, k, n))
         /\ \A i \in Of(items, k, n) :
              /\ IsFiniteSet(UpToHere(Of(items, k, n), i))
              /\ Cardinality(UpToHere(Of(items, k, n), i)) \in 1 .. Cardinality(Of(items, k, n))
<1> DEFINE of == Of(items, k, n)
<1>1. of \in SUBSET (1 .. n)
  BY DEF Of
<1>2. IsFiniteSet(of) /\ Cardinality(of) \in Nat
  <2>1. IsFiniteSet(1 .. n)
    BY FS_Interval
  <2>2. IsFiniteSet(of)
    BY <1>1, <2>1, FS_Subset
  <2> QED
    BY <2>2, FS_CardinalityType
<1>3. ASSUME NEW i \in of
      PROVE  /\ IsFiniteSet(UpToHere(of, i))
             /\ Cardinality(UpToHere(of, i)) \in 1 .. Cardinality(of)
  <2>1. UpToHere(of, i) \in SUBSET of /\ i \in UpToHere(of, i)
    BY <1>1 DEF UpToHere
  <2>2. /\ IsFiniteSet(UpToHere(of, i))
        /\ Cardinality(UpToHere(of, i)) <= Cardinality(of)
    BY <1>2, <2>1, FS_Subset
  <2>3. Cardinality(UpToHere(of, i)) \in Nat /\ Cardinality(UpToHere(of, i)) # 0
    BY <2>1, <2>2, FS_CardinalityType, FS_EmptySet
  <2> QED
    BY <1>2, <2>2, <2>3
<1> QED
  BY <1>2, <1>3

\* One more item: its text comes last if it is a pair with the key.
LEMMA InOrderStep ==
  ASSUME NEW values \in Seq(Text), NEW items, NEW k, NEW n \in Nat,
         InOrder(values, items, k, n), items[n + 1].text \in Text
  PROVE  InOrder(IF items[n + 1].kind = "pair" /\ items[n + 1].key = k
                 THEN Append(values, items[n + 1].text) ELSE values, items, k, n + 1)
<1> DEFINE of == Of(items, k, n)
           more == Of(items, k, n + 1)
<1>1. \A i \in 1 .. n + 1 : i \in 1 .. n \/ i = n + 1
  OBVIOUS
<1>2. of \in SUBSET (1 .. n)
  BY DEF Of
<1>3. /\ Len(values) = Cardinality(of) /\ Len(values) \in Nat
      /\ \A i \in of : values[Cardinality(UpToHere(of, i))] = items[i].text
  BY InOrderIs, LenProperties
<1>4. CASE items[n + 1].kind = "pair" /\ items[n + 1].key = k
  <2> DEFINE longer == Append(values, items[n + 1].text)
  <2>1. more = of \cup {n + 1} /\ n + 1 \notin of
    BY <1>1, <1>4 DEF Of
  <2>2. Cardinality(more) = Cardinality(of) + 1
    BY <2>1, OfIsFinite, FS_AddElement
  <2>3. /\ Len(longer) = Len(values) + 1
        /\ longer[Len(values) + 1] = items[n + 1].text
        /\ \A c \in 1 .. Len(values) : longer[c] = values[c]
    BY AppendProperties
  <2>4. ASSUME NEW i \in of
        PROVE  longer[Cardinality(UpToHere(more, i))] = items[i].text
    <3>1. UpToHere(more, i) = UpToHere(of, i)
      BY <1>2, <2>1 DEF UpToHere
    <3>2. Cardinality(UpToHere(of, i)) \in 1 .. Len(values)
      BY <1>3, OfIsFinite
    <3> HIDE DEF longer, of, more
    <3> QED
      BY <1>3, <2>3, <3>1, <3>2
  <2>5. longer[Cardinality(UpToHere(more, n + 1))] = items[n + 1].text
    <3>1. UpToHere(more, n + 1) = more
      BY <1>2, <2>1 DEF UpToHere
    <3> HIDE DEF longer, of, more
    <3> QED
      BY <1>3, <2>2, <2>3, <3>1
  <2>6. InOrder(longer, items, k, n + 1)
    <3> HIDE DEF longer
    <3> QED
      BY <1>3, <2>1, <2>2, <2>3, <2>4, <2>5, InOrderIs
  <2> QED
    BY <1>4, <2>6
<1>5. CASE ~ (items[n + 1].kind = "pair" /\ items[n + 1].key = k)
  <2>1. more = of
    BY <1>1, <1>5 DEF Of
  <2>2. InOrder(values, items, k, n + 1)
    BY <1>3, <2>1, InOrderIs
  <2> QED
    BY <1>5, <2>2
<1> QED
  BY <1>4, <1>5

\* The fold of Push over arguments that are all accepted.
LEMMA ParsedInOrder ==
  ASSUME NEW items \in Seq(Arguments), \A i \in DOMAIN items : items[i].kind # "bad"
  PROVE  /\ FoldLeft(Push, Empty, items) \in Maps
         /\ \A k \in Keys : InOrder(FoldLeft(Push, Empty, items)[k], items, k, Len(items))
<1> DEFINE n == Len(items)
<1>1. n \in Nat /\ DOMAIN items = 1 .. n
  BY LenProperties
<1>2. PICK r : Steps(r, items) /\ FoldLeft(Push, Empty, items) = r[n]
  BY ParsedSteps
<1>3. \A i \in 0 .. n : r[i] \in Maps
  BY <1>2 DEF Steps
<1>4. ASSUME NEW k \in Keys PROVE InOrder(r[n][k], items, k, n)
  <2> DEFINE S == {i \in 0 .. n : InOrder(r[i][k], items, k, i)}
  <2>1. 0 \in S
    <3>1. r[0][k] = <<>>
      BY <1>2 DEF Steps, Empty
    <3> QED
      BY <1>1, <3>1, InOrderNone
  <2>2. ASSUME NEW i \in 0 .. n - 1, i \in S PROVE i + 1 \in S
    <3>1. PICK j : j = i + 1
      OBVIOUS
    <3>2. j \in 1 .. n /\ j - 1 = i /\ i \in 0 .. n /\ i \in Nat /\ j \in 0 .. n
      BY <1>1, <3>1
    <3>3. items[j].kind = "pair" /\ items[j].key \in Keys /\ items[j].text \in Text
      BY <1>1, <3>2, ElementOfSeq, ArgumentType
    <3>4. r[j] = Push(r[i], items[j])
      BY <1>2, <3>2 DEF Steps
    <3>5. r[j][k] = IF items[j].key = k THEN Append(r[i][k], items[j].text) ELSE r[i][k]
      BY <1>3, <3>2, <3>3, <3>4, PushType
    <3>6. r[i][k] \in Seq(Text) /\ InOrder(r[i][k], items, k, i)
      BY <1>3, <2>2, <3>2 DEF Maps
    <3>7. InOrder(IF items[j].kind = "pair" /\ items[j].key = k
                  THEN Append(r[i][k], items[j].text) ELSE r[i][k], items, k, j)
      BY <3>1, <3>2, <3>3, <3>6, InOrderStep
    <3>8. InOrder(r[j][k], items, k, j)
      BY <3>3, <3>5, <3>7
    <3> QED
      BY <3>1, <3>2, <3>8
  <2>3. \A i \in 0 .. n : i \in S
    <3> HIDE DEF S, n
    <3> QED
      BY <1>1, <2>1, <2>2, UpTo
  <2> QED
    BY <1>1, <2>3
<1> QED
  BY <1>1, <1>2, <1>3, <1>4
-----------------------------------------------------------------------------
(* The lines that are loaded. *)

\* The values are those of the option, and then those of the first n lines.
Holds(values, k, n) ==
  /\ IsPrefix(options[k], values)
  /\ InOrder(After(values, Len(options[k])), Loaded, k, n)

LEMMA AfterAppend ==
  ASSUME NEW values \in Seq(Text), NEW n \in 0 .. Len(values), NEW x \in Text
  PROVE  After(Append(values, x), n) = Append(After(values, n), x)
<1> DEFINE more == Append(values, x)
           a == After(more, n)
           b == Append(After(values, n), x)
           len == Len(values) - n
<1>1. Len(values) \in Nat /\ \A i \in 1 .. Len(values) : values[i] \in Text
  BY LenProperties, ElementOfSeq
<1>2. /\ more \in Seq(Text) /\ Len(more) = Len(values) + 1
      /\ more[Len(values) + 1] = x
      /\ \A i \in 1 .. Len(values) : more[i] = values[i]
  BY AppendProperties
<1> HIDE DEF more
<1>3. \A i \in n + 1 .. Len(more) : more[i] \in Text
  BY <1>1, <1>2
<1>4. /\ a \in Seq(Text) /\ Len(a) = len + 1
      /\ \A i \in 1 .. len + 1 : a[i] = more[n + i]
  <2>1. /\ a \in Seq(Text)
        /\ Len(a) = IF n + 1 <= Len(more) THEN Len(more) - (n + 1) + 1 ELSE 0
        /\ \A i \in 1 .. Len(more) - (n + 1) + 1 : a[i] = more[n + 1 + i - 1]
    BY <1>1, <1>2, <1>3, SubSeqProperties DEF After
  <2> HIDE DEF a
  <2> QED
    BY <1>1, <1>2, <2>1
<1>5. /\ After(values, n) \in Seq(Text) /\ Len(After(values, n)) = len
      /\ \A i \in 1 .. len : After(values, n)[i] = values[n + i]
  <2> DEFINE c == After(values, n)
  <2>1. \A i \in n + 1 .. Len(values) : values[i] \in Text
    BY <1>1
  <2>2. /\ c \in Seq(Text)
        /\ Len(c) = IF n + 1 <= Len(values) THEN Len(values) - (n + 1) + 1 ELSE 0
        /\ \A i \in 1 .. Len(values) - (n + 1) + 1 : c[i] = values[n + 1 + i - 1]
    BY <1>1, <2>1, SubSeqProperties DEF After
  <2> HIDE DEF c
  <2>3. /\ c \in Seq(Text) /\ Len(c) = len
        /\ \A i \in 1 .. len : c[i] = values[n + i]
    BY <1>1, <2>2
  <2> QED
    BY <2>3 DEF c
<1>6. /\ b \in Seq(Text) /\ Len(b) = len + 1
      /\ b[len + 1] = x
      /\ \A i \in 1 .. len : b[i] = values[n + i]
  <2>1. /\ b \in Seq(Text) /\ Len(b) = Len(After(values, n)) + 1
        /\ b[Len(After(values, n)) + 1] = x
        /\ \A i \in 1 .. Len(After(values, n)) : b[i] = After(values, n)[i]
    BY <1>5, AppendProperties
  <2> HIDE DEF b
  <2> QED
    BY <1>5, <2>1
<1> HIDE DEF a, b
<1>7. ASSUME NEW i \in 1 .. len + 1 PROVE a[i] = b[i]
  <2>1. CASE i \in 1 .. len
    BY <1>1, <1>2, <1>4, <1>6, <2>1
  <2>2. CASE i = len + 1
    BY <1>1, <1>2, <1>4, <1>6, <2>2
  <2> QED
    BY <1>1, <2>1, <2>2
<1>8. a = b
  BY <1>4, <1>6, <1>7, SeqEqual
<1> QED
  BY <1>8 DEF a, b, more

LEMMA PrefixAppend ==
  ASSUME NEW s \in Seq(Text), NEW values \in Seq(Text), NEW x \in Text,
         IsPrefix(s, values)
  PROVE  IsPrefix(s, Append(values, x))
<1> DEFINE more == Append(values, x)
           n == Len(s)
<1>1. n \in Nat /\ Len(values) \in Nat /\ n <= Len(values)
      /\ SubSeq(s, 1, n) = SubSeq(values, 1, n)
  BY LenProperties DEF IsPrefix
<1>2. /\ more \in Seq(Text) /\ Len(more) = Len(values) + 1
      /\ \A i \in 1 .. Len(values) : more[i] = values[i]
  BY AppendProperties
<1>3. \A i \in 1 .. n : values[i] \in Text
  BY <1>1, ElementOfSeq
<1> HIDE DEF more, n
<1>4. SubSeq(more, 1, n) = SubSeq(values, 1, n)
  <2>1. \A i \in 1 .. n : more[i] = values[i] /\ more[i] \in Text
    BY <1>1, <1>2, <1>3
  <2>2. /\ SubSeq(more, 1, n) \in Seq(Text)
        /\ Len(SubSeq(more, 1, n)) = IF 1 <= n THEN n - 1 + 1 ELSE 0
        /\ \A i \in 1 .. n - 1 + 1 : SubSeq(more, 1, n)[i] = more[1 + i - 1]
    BY <1>1, <2>1, SubSeqProperties
  <2>3. /\ SubSeq(values, 1, n) \in Seq(Text)
        /\ Len(SubSeq(values, 1, n)) = IF 1 <= n THEN n - 1 + 1 ELSE 0
        /\ \A i \in 1 .. n - 1 + 1 : SubSeq(values, 1, n)[i] = values[1 + i - 1]
    BY <1>1, <1>3, SubSeqProperties
  <2>4. n - 1 + 1 = n /\ \A i \in 1 .. n : 1 + i - 1 = i
    BY <1>1
  <2>5. Len(SubSeq(more, 1, n)) = n /\ Len(SubSeq(values, 1, n)) = n
    BY <1>1, <2>2, <2>3
  <2>6. \A i \in 1 .. n : SubSeq(more, 1, n)[i] = SubSeq(values, 1, n)[i]
    BY <2>1, <2>2, <2>3, <2>4
  <2> QED
    BY <2>2, <2>3, <2>5, <2>6, SeqEqual
<1> QED
  BY <1>1, <1>2, <1>4 DEF n, more, IsPrefix

LEMMA LoadedNone ==
  ASSUME TypeOK, NEW k \in Keys
  PROVE  Holds(options[k], k, 0)
<1>1. options[k] \in Seq(Text) /\ Len(options[k]) \in Nat
  BY LenProperties DEF TypeOK, Maps
<1>2. IsPrefix(options[k], options[k])
  BY <1>1 DEF IsPrefix
<1>3. After(options[k], Len(options[k])) = <<>>
  BY <1>1, SubSeqEmpty DEF After
<1>4. InOrder(After(options[k], Len(options[k])), Loaded, k, 0)
  BY <1>3, InOrderNone
<1> QED
  BY <1>2, <1>4 DEF Holds

\* The next line: its text comes last if it is a pair with the key.
LEMMA LoadedStep ==
  ASSUME TypeOK, NEW values \in Seq(Text), NEW k \in Keys, NEW n \in Nat, n < Len(lines),
         Holds(values, k, n)
  PROVE  Holds(IF Line(lines[n + 1]).kind = "pair" /\ Line(lines[n + 1]).key = k
                THEN Append(values, Line(lines[n + 1]).text) ELSE values, k, n + 1)
<1> DEFINE line == Line(lines[n + 1])
           p == Len(options[k])
<1>1. /\ options[k] \in Seq(Text) /\ p \in Nat /\ Len(values) \in Nat
      /\ p <= Len(values) /\ IsPrefix(options[k], values)
  BY LenProperties DEF TypeOK, Maps, Holds, IsPrefix
<1>2. lines \in Seq(Lines) /\ Len(lines) \in Nat /\ DOMAIN lines = 1 .. Len(lines)
  BY ConfigAssumption, LenProperties DEF TypeOK
<1>3. n + 1 \in DOMAIN lines /\ lines[n + 1] \in Lines
  BY <1>2, ElementOfSeq
<1>4. line.text \in Text
  BY <1>3, LineType
<1>5. Loaded[n + 1] = line
  BY <1>3 DEF Loaded
<1>6. After(values, p) \in Seq(Text)
  <2>1. \A i \in p + 1 .. Len(values) : values[i] \in Text
    BY <1>1, ElementOfSeq
  <2> QED
    BY <1>1, <2>1, SubSeqProperties DEF After
<1>7. InOrder(After(values, p), Loaded, k, n)
  BY DEF Holds
<1>8. InOrder(IF Loaded[n + 1].kind = "pair" /\ Loaded[n + 1].key = k
              THEN Append(After(values, p), Loaded[n + 1].text) ELSE After(values, p),
              Loaded, k, n + 1)
  BY <1>4, <1>5, <1>6, <1>7, InOrderStep
<1> HIDE DEF line
<1>9. CASE line.kind = "pair" /\ line.key = k
  <2>1. After(Append(values, line.text), p) = Append(After(values, p), line.text)
    BY <1>1, <1>4, AfterAppend
  <2>2. InOrder(After(Append(values, line.text), p), Loaded, k, n + 1)
    BY <1>5, <1>8, <1>9, <2>1
  <2>3. IsPrefix(options[k], Append(values, line.text))
    BY <1>1, <1>4, PrefixAppend
  <2>4. Holds(Append(values, line.text), k, n + 1)
    BY <2>2, <2>3 DEF Holds
  <2> QED
    BY <1>9, <2>4 DEF line
<1>10. CASE ~ (line.kind = "pair" /\ line.key = k)
  <2>1. InOrder(After(values, p), Loaded, k, n + 1)
    BY <1>5, <1>8, <1>10
  <2>2. Holds(values, k, n + 1)
    BY <1>1, <2>1 DEF Holds
  <2> QED
    BY <1>10, <2>2 DEF line
<1> QED
  BY <1>9, <1>10
-----------------------------------------------------------------------------
(* The program. *)

\* Nothing is loaded yet, no argument is bad, and the lines so far are loaded.
Progress ==
  /\ pc \in {"start", "options"} => at = 1
  /\ pc \in {"options", "loading", "ready"} => code = 0
  /\ code >= 0 /\ pc # "start" => \A i \in DOMAIN args : args[i].kind # "bad"
  /\ pc = "loading" => \A k \in Keys : Holds(config[k], k, at - 1)
  /\ pc \in {"loading", "ready"} => \A i \in 1 .. at - 1 : Loaded[i].kind # "bad"

\* What the swap has handed over.
Made == pc = "ready" => /\ at = Len(lines) + 1
                        /\ \A k \in Keys : Holds(config_[k], k, Len(lines))

IInv == TypeOK /\ Progress /\ Made /\ OptionsComplete

LEMMA InitIInv == Init => IInv
<1> SUFFICES ASSUME Init PROVE IInv
  OBVIOUS
<1>1. Len(lines) \in Nat
  BY ConfigAssumption, LenProperties DEF Init
<1>2. TypeOK
  BY <1>1, EmptyType DEF Init, TypeOK
<1> QED
  BY <1>2 DEF Init, IInv, Progress, Made, OptionsComplete

\* What the sequences are, for the proofs of the steps.
LEMMA Sequences ==
  ASSUME TypeOK
  PROVE  /\ args \in Seq(Arguments) /\ lines \in Seq(Lines) /\ Len(lines) \in Nat
         /\ Len(args) \in Nat /\ DOMAIN args = 1 .. Len(args)
         /\ at \in Nat
BY ConfigAssumption, LenProperties DEF TypeOK

LEMMA GetOptionsIInv == IInv /\ GetOptions => IInv'
<1> SUFFICES ASSUME IInv, GetOptions PROVE IInv'
  OBVIOUS
<1> DEFINE parsed == FoldLeft(Push, Empty, args)
<1>1. args \in Seq(Arguments)
  BY Sequences DEF IInv
<1>2. \/ /\ \E i \in DOMAIN args : args[i].kind = "bad"
         /\ code' = 0 - 1 /\ options' = Empty
      \/ /\ \A i \in DOMAIN args : args[i].kind # "bad"
         /\ code' = Usage(parsed) /\ options' = parsed
  BY Zenon DEF GetOptions
<1>3. /\ \A i \in DOMAIN args : args[i].kind # "bad"
      => /\ parsed \in Maps
         /\ \A k \in Keys : InOrder(parsed[k], args, k, Len(args))
  BY <1>1, ParsedInOrder
<1>4. Usage(parsed) \in {0, 1}
  BY DEF Usage
<1> HIDE DEF parsed
<1>5. pc = "start" /\ pc' = (IF code' = 0 THEN "options" ELSE "usage")
      /\ UNCHANGED <<args, lines, config, at, config_>>
  BY DEF GetOptions
<1>6. code' \in {0 - 1, 0, 1} /\ options' \in Maps
  BY <1>2, <1>3, <1>4, EmptyType
<1>7. TypeOK'
  BY <1>5, <1>6 DEF IInv, TypeOK
<1>8. code' >= 0 => /\ \A i \in DOMAIN args : args[i].kind # "bad"
                    /\ \A k \in Keys : InOrder(options'[k], args, k, Len(args))
  BY <1>2, <1>3, <1>4
<1>9. Progress' /\ Made'
  BY <1>5, <1>8 DEF IInv, Progress, Made
<1>10. OptionsComplete'
  BY <1>5, <1>8 DEF OptionsComplete
<1> QED
  BY <1>7, <1>9, <1>10 DEF IInv

LEMMA AcceptedKeys ==
  ASSUME TypeOK, OptionsComplete, Progress, pc = "options",
         Present(options) \subseteq Names \cup Dotted
  PROVE  \A i \in DOMAIN args : args[i].key \in Names
<1> SUFFICES ASSUME NEW i \in DOMAIN args PROVE args[i].key \in Names
  OBVIOUS
<1> DEFINE k == args[i].key
           of == Of(args, k, Len(args))
<1>1. args \in Seq(Arguments) /\ Len(args) \in Nat /\ DOMAIN args = 1 .. Len(args)
  BY Sequences
<1>2. args[i] \in Arguments
  BY <1>1, ElementOfSeq
<1>3. args[i].kind # "bad" /\ code >= 0
  BY DEF Progress
<1>4. args[i].kind = "pair" /\ k \in Names \cup Numbered \cup {Plain} /\ k \in Keys
  BY <1>2, <1>3 DEF Arguments, Pair, Other, Keys
<1>5. InOrder(options[k], args, k, Len(args))
  BY <1>3, <1>4 DEF OptionsComplete
<1>6. i \in of
  BY <1>1, <1>4 DEF Of
<1>7. Cardinality(of) >= 1
  BY <1>1, <1>6, OfIsFinite, FS_CardinalityType
<1>8. Len(options[k]) = Cardinality(of)
  BY <1>5, InOrderIs
<1>9. options[k] # <<>>
  BY <1>7, <1>8, EmptySeq
<1>10. k \in Names \cup Dotted
  BY <1>4, <1>9 DEF Present
<1> QED
  BY <1>4, <1>10, ConfigAssumption

LEMMA ConstructIInv == IInv /\ Construct => IInv'
<1> SUFFICES ASSUME IInv, Construct PROVE IInv'
  OBVIOUS
<1>1. /\ pc = "options" /\ pc' \in {"loading", "thrown"}
      /\ pc' = "loading" => Present(options) \subseteq Names \cup Dotted
      /\ config' = options /\ config_' = config_
      /\ UNCHANGED <<args, lines, code, options, at>>
  BY DEF Construct
<1>2. TypeOK'
  BY <1>1 DEF IInv, TypeOK
<1>3. \A k \in Keys : Holds(options[k], k, 0)
  BY LoadedNone DEF IInv
<1>4. \A k \in Keys : Holds(options[k], k, 0)'
  BY <1>1, <1>3 DEF Holds, InOrder, After, Loaded
<1>5. at' - 1 = 0
  BY <1>1 DEF IInv, Progress
<1>6. pc' = "loading" => \A k \in Keys : Holds(config[k], k, at - 1)'
  BY <1>1, <1>4, <1>5 DEF Holds
<1>7. Progress' /\ Made'
  BY <1>1, <1>6 DEF IInv, Progress, Made
<1>8. pc' = "loading" => \A i \in DOMAIN args : args[i].key \in Names
  BY <1>1, AcceptedKeys DEF IInv
<1>9. OptionsComplete'
  BY <1>1, <1>8 DEF IInv, OptionsComplete
<1> QED
  BY <1>2, <1>7, <1>9 DEF IInv

LEMMA LoadLineIInv == IInv /\ LoadLine => IInv'
<1> SUFFICES ASSUME IInv, LoadLine PROVE IInv'
  OBVIOUS
<1> DEFINE line == Line(lines[at])
<1>1. /\ pc = "loading" /\ at <= Len(lines) /\ at' = at + 1 /\ config_' = config_
      /\ UNCHANGED <<args, lines, code, options>>
  BY DEF LoadLine
<1>2. /\ lines \in Seq(Lines) /\ Len(lines) \in Nat /\ at \in 1 .. Len(lines)
  BY <1>1, Sequences DEF IInv, TypeOK
<1>3. lines[at] \in Lines
  BY <1>2, ElementOfSeq
<1>4. line \in [kind : {"pair", "skip", "bad"}, key : Keys, text : Text]
  BY <1>3, LineType
<1>5. \/ pc' = "thrown" /\ config' = config
      \/ line.kind = "skip" /\ pc' = pc /\ config' = config
      \/ line.kind = "pair" /\ pc' = pc /\ config' = Push(config, line)
  BY <1>4 DEF LoadLine, Keep
<1> HIDE DEF line
<1>6. /\ line.kind = "pair" => Push(config, line) \in Maps
      /\ \A k \in Keys : Push(config, line)[k] =
           IF k = line.key THEN Append(config[k], line.text) ELSE config[k]
  BY <1>4, PushType DEF IInv, TypeOK
<1>7. TypeOK'
  BY <1>1, <1>2, <1>5, <1>6 DEF IInv, TypeOK
<1>8. ASSUME pc' = "loading", NEW k \in Keys
      PROVE  Holds(config'[k], k, at)
  <2>1. config[k] \in Seq(Text) /\ at - 1 \in Nat /\ at - 1 < Len(lines)
    BY <1>2 DEF IInv, TypeOK, Maps
  <2>2. Holds(config[k], k, at - 1)
    BY <1>1 DEF IInv, Progress
  <2>3. at - 1 + 1 = at
    BY <1>2
  <2>4. Holds(IF Line(lines[at - 1 + 1]).kind = "pair" /\ Line(lines[at - 1 + 1]).key = k
               THEN Append(config[k], Line(lines[at - 1 + 1]).text) ELSE config[k],
               k, at - 1 + 1)
    BY <2>1, <2>2, LoadedStep DEF IInv
  <2>5. Holds(IF line.kind = "pair" /\ line.key = k
               THEN Append(config[k], line.text) ELSE config[k], k, at)
    BY <2>3, <2>4 DEF line
  <2>6. config'[k] = IF line.kind = "pair" /\ line.key = k
                     THEN Append(config[k], line.text) ELSE config[k]
    BY <1>1, <1>5, <1>6, <1>8
  <2> QED
    BY <2>5, <2>6
<1>9. at' - 1 = at
  BY <1>1, <1>2
<1>10. pc' = "loading" => \A k \in Keys : Holds(config[k], k, at - 1)'
  BY <1>1, <1>8, <1>9 DEF Holds, Loaded
<1>b. ASSUME pc' = "loading", NEW i \in 1 .. at' - 1
      PROVE  Loaded[i].kind # "bad"
  <2>1. CASE i = at
    <3>1. Loaded[at] = line
      BY <1>2, LenProperties DEF Loaded, line
    <3> QED
      BY <1>1, <1>5, <1>b, <2>1, <3>1
  <2>2. CASE i # at
    <3>1. i \in 1 .. at - 1
      BY <1>b, <1>2, <1>9, <2>2
    <3> QED
      BY <1>1, <3>1 DEF IInv, Progress
  <2> QED
    BY <2>1, <2>2
<1>11. Progress' /\ Made'
  BY <1>1, <1>5, <1>10, <1>b DEF IInv, Progress, Made, Loaded
<1>12. OptionsComplete'
  BY <1>1, <1>5 DEF IInv, OptionsComplete
<1> QED
  BY <1>7, <1>11, <1>12 DEF IInv

LEMMA ReadFailsIInv == IInv /\ ReadFails => IInv'
BY DEF IInv, TypeOK, Progress, Made, OptionsComplete, ReadFails

LEMMA SwapIInv == IInv /\ Swap => IInv'
<1> SUFFICES ASSUME IInv, Swap PROVE IInv'
  OBVIOUS
<1>1. /\ pc = "loading" /\ at > Len(lines) /\ pc' = "ready"
      /\ config_' = config /\ config' = config_
      /\ UNCHANGED <<args, lines, code, options, at>>
  BY DEF Swap
<1>2. TypeOK'
  BY <1>1 DEF IInv, TypeOK
<1>3. at - 1 = Len(lines)
  BY <1>1, Sequences DEF IInv, TypeOK
<1>4. \A k \in Keys : Holds(config[k], k, Len(lines))
  BY <1>1, <1>3 DEF IInv, Progress
<1>5. Made'
  BY <1>1, <1>3, <1>4, Sequences DEF IInv, Made, Holds, Loaded
<1>6. Progress' /\ OptionsComplete'
  BY <1>1 DEF IInv, Progress, OptionsComplete, Loaded
<1> QED
  BY <1>2, <1>5, <1>6 DEF IInv

LEMMA NextIInv == IInv /\ [Next]_vars => IInv'
<1> SUFFICES ASSUME IInv, [Next]_vars PROVE IInv'
  OBVIOUS
<1>1. CASE UNCHANGED vars
  BY <1>1 DEF vars, IInv, TypeOK, Progress, Made, OptionsComplete, Loaded,
              Holds
<1> QED
  BY <1>1, GetOptionsIInv, ConstructIInv, LoadLineIInv, ReadFailsIInv, SwapIInv DEF Next

LEMMA SpecIInv == Spec => []IInv
BY InitIInv, NextIInv, PTL DEF Spec

(* The program is where it may be, with maps of sequences of texts: what      *)
(* get_options() parses and what load_file() adds is of the type of the code. *)
THEOREM ConfigTypeOK == Spec => []TypeOK
BY SpecIInv, PTL DEF IInv

(* For any arguments that get_options() accepts, the options are the values   *)
(* given, in order, and only keys that are names reach a configuration.       *)
THEOREM ConfigOptionsComplete == Spec => []OptionsComplete
BY SpecIInv, PTL DEF IInv

\* What a list that is in order begins with, if with anything.
LEMMA FirstInOrder ==
  ASSUME NEW values \in Seq(Text), NEW items, NEW k, NEW n \in Nat,
         InOrder(values, items, k, n)
  PROVE  /\ values = <<>> <=> Of(items, k, n) = {}
         /\ values # <<>> => \E i \in Of(items, k, n) :
              values[1] = items[i].text /\ \A j \in Of(items, k, n) : i <= j
<1> DEFINE of == Of(items, k, n)
<1>1. /\ Len(values) = Cardinality(of)
      /\ \A i \in of : values[Cardinality(UpToHere(of, i))] = items[i].text
  BY InOrderIs
<1>2. IsFiniteSet(of) /\ of \in SUBSET Nat
  <2>1. of \in SUBSET Nat
    BY DEF Of
  <2> QED
    BY <2>1, OfIsFinite
<1> HIDE DEF of
<1>3. values = <<>> <=> of = {}
  <2>1. Cardinality(of) = 0 <=> of = {}
    BY <1>2, FS_EmptySet
  <2>2. Len(values) = 0 <=> values = <<>>
    BY EmptySeq
  <2> QED
    BY <1>1, <2>1, <2>2
<1>4. ASSUME of # {}
      PROVE  \E i \in of : values[1] = items[i].text /\ \A j \in of : i <= j
  <2>1. PICK i \in of : \A j \in of : i <= j
    BY <1>2, <1>4, Smallest
  <2>2. UpToHere(of, i) = {i}
    <3>1. \A j \in of : j <= i <=> j = i
      BY <1>2, <2>1
    <3> QED
      BY <2>1, <3>1 DEF UpToHere
  <2>3. Cardinality(UpToHere(of, i)) = 1
    BY <2>2, FS_Singleton
  <2> QED
    BY <1>1, <2>1, <2>3
<1> QED
  BY <1>3, <1>4 DEF of

\* What a prefix and what is behind it say of the first value.
LEMMA FirstOfHeld ==
  ASSUME NEW first \in Seq(Text), NEW values \in Seq(Text), IsPrefix(first, values)
  PROVE  /\ After(values, Len(first)) \in Seq(Text)
         /\ first # <<>> => values # <<>> /\ values[1] = first[1]
         /\ first = <<>> => \/ values = <<>> /\ After(values, Len(first)) = <<>>
                            \/ /\ values # <<>> /\ After(values, Len(first)) # <<>>
                               /\ values[1] = After(values, Len(first))[1]
         /\ After(values, Len(first)) # <<>> => values # <<>>
<1>1. PICK p \in Nat : p = Len(first)
  BY LenProperties
<1>2. PICK n \in Nat : n = Len(values)
  BY LenProperties
<1>3. p <= n /\ SubSeq(first, 1, p) = SubSeq(values, 1, p)
  BY <1>1, <1>2 DEF IsPrefix
<1>4. /\ \A i \in 1 .. n : values[i] \in Text
      /\ \A i \in 1 .. p : first[i] \in Text /\ values[i] \in Text
  BY <1>1, <1>2, <1>3, ElementOfSeq
<1>5. /\ \A i \in 1 .. p - 1 + 1 : SubSeq(first, 1, p)[i] = first[1 + i - 1]
      /\ \A i \in 1 .. p - 1 + 1 : SubSeq(values, 1, p)[i] = values[1 + i - 1]
  BY <1>4, SubSeqProperties
<1>6. p # 0 => values[1] = first[1]
  BY <1>3, <1>5
<1>7. \A i \in p + 1 .. n : values[i] \in Text
  BY <1>4
<1>8. /\ After(values, p) \in Seq(Text)
      /\ Len(After(values, p)) = IF p + 1 <= n THEN n - (p + 1) + 1 ELSE 0
      /\ \A i \in 1 .. n - (p + 1) + 1 : After(values, p)[i] = values[p + 1 + i - 1]
  BY <1>2, <1>7, SubSeqProperties DEF After
<1>9. p # 0 <=> first # <<>>
  BY <1>1, EmptySeq
<1>10. n # 0 <=> values # <<>>
  BY <1>2, EmptySeq
<1>11. Len(After(values, p)) # 0 <=> After(values, p) # <<>>
  BY <1>8, EmptySeq
<1>12. p = 0 /\ n # 0 => After(values, p)[1] = values[1]
  BY <1>8
<1> QED
  BY <1>1, <1>3, <1>6, <1>8, <1>9, <1>10, <1>11, <1>12

\* What is in the configuration, key by key: the values of the arguments, and after
\* them those of the lines.
LEMMA MadeIs ==
  ASSUME IInv, pc = "ready", NEW k \in Keys
  PROVE  /\ options[k] \in Seq(Text) /\ config_[k] \in Seq(Text)
         /\ IsPrefix(options[k], config_[k])
         /\ InOrder(After(config_[k], Len(options[k])), Loaded, k, Len(lines))
         /\ InOrder(options[k], args, k, Len(args))
         /\ Of(args, k, Len(args)) = {i \in DOMAIN args : args[i].key = k}
<1>1. options[k] \in Seq(Text) /\ config_[k] \in Seq(Text)
  BY DEF IInv, TypeOK, Maps
<1>2. Holds(config_[k], k, Len(lines))
  BY DEF IInv, Made
<1>3. code = 0 /\ \A i \in DOMAIN args : args[i].kind # "bad"
  BY DEF IInv, Progress
<1>4. InOrder(options[k], args, k, Len(args))
  BY <1>3 DEF IInv, OptionsComplete
<1>5. args \in Seq(Arguments) /\ DOMAIN args = 1 .. Len(args)
  BY Sequences DEF IInv
<1>6. \A i \in DOMAIN args : args[i].kind = "pair"
  BY <1>3, <1>5, ElementOfSeq DEF Arguments, Pair, Other
<1> QED
  BY <1>1, <1>2, <1>4, <1>5, <1>6 DEF Holds, Of

(* For any options and any file, get_as() finds the first value given as an   *)
(* argument, or one of the file if no argument has the key.                   *)
THEOREM ConfigOptionsFirst == Spec => []OptionsFirst
<1>1. IInv => OptionsFirst
  <2> SUFFICES ASSUME IInv, pc = "ready", NEW k \in Keys, config_[k] # <<>>
               PROVE  LET given == {i \in DOMAIN args : args[i].key = k} IN
                      IF given # {}
                      THEN \E i \in given :
                             config_[k][1] = args[i].text /\ \A j \in given : i <= j
                      ELSE \E i \in DOMAIN lines :
                             Loaded[i] = [kind |-> "pair", key |-> k, text |-> config_[k][1]]
    BY Zenon DEF OptionsFirst
  <2> DEFINE given == Of(args, k, Len(args))
             held  == After(config_[k], Len(options[k]))
  <2>1. Len(args) \in Nat /\ Len(lines) \in Nat
    BY Sequences DEF IInv
  <2>2. /\ options[k] = <<>> <=> given = {}
        /\ options[k] # <<>> => \E i \in given :
             options[k][1] = args[i].text /\ \A j \in given : i <= j
    BY <2>1, MadeIs, FirstInOrder
  <2>3. /\ held \in Seq(Text)
        /\ options[k] # <<>> => config_[k][1] = options[k][1]
        /\ options[k] = <<>> => held # <<>> /\ config_[k][1] = held[1]
    BY MadeIs, FirstOfHeld
  <2>4. held # <<>> => \E i \in Of(Loaded, k, Len(lines)) : held[1] = Loaded[i].text
    BY <2>1, <2>3, MadeIs, FirstInOrder
  <2>5. given = {i \in DOMAIN args : args[i].key = k}
    BY MadeIs
  <2> HIDE DEF given, held
  <2>6. CASE given # {}
    BY <2>2, <2>3, <2>5, <2>6
  <2>7. CASE given = {}
    <3>1. PICK i \in Of(Loaded, k, Len(lines)) : config_[k][1] = Loaded[i].text
      BY <2>2, <2>3, <2>4, <2>7
    <3>2. i \in DOMAIN lines /\ lines[i] \in Lines
      BY <2>1, LenProperties, ElementOfSeq, Sequences DEF Of, IInv
    <3>3. /\ Loaded[i] \in [kind : {"pair", "skip", "bad"}, key : Keys, text : Text]
          /\ Loaded[i].kind = "pair" /\ Loaded[i].key = k
      BY <3>2, LineType DEF Loaded, Of
    <3> QED
      BY <2>5, <2>7, <3>1, <3>2, <3>3
  <2> QED
    BY <2>6, <2>7
<1> QED
  BY <1>1, SpecIInv, PTL

(* A constructor that returns has taken in the whole file and every option,   *)
(* wherever a line is wrong or a read may fail.                               *)
THEOREM ConfigWholeFile == Spec => []WholeFile
<1>1. IInv => WholeFile
  <2> SUFFICES ASSUME IInv, pc = "ready" PROVE WholeFile
    BY DEF WholeFile
  <2>1. /\ Len(args) \in Nat /\ Len(lines) \in Nat
        /\ DOMAIN args = 1 .. Len(args) /\ DOMAIN lines = 1 .. Len(lines)
    BY Sequences, LenProperties DEF IInv
  <2>2. ASSUME NEW i \in DOMAIN lines
        PROVE  /\ Loaded[i].kind # "bad"
               /\ Loaded[i].kind = "pair" => config_[Loaded[i].key] # <<>>
    <3>1. i \in 1 .. at - 1
      BY <2>1 DEF IInv, Made
    <3>2. lines[i] \in Lines
      BY <2>1, ElementOfSeq, Sequences DEF IInv
    <3>3. PICK k \in Keys : k = Loaded[i].key
      BY <3>2, LineType DEF Loaded
    <3>4. ASSUME Loaded[i].kind = "pair" PROVE config_[k] # <<>>
      <4>1. i \in Of(Loaded, k, Len(lines))
        BY <2>1, <3>3, <3>4 DEF Of
      <4>2. After(config_[k], Len(options[k])) \in Seq(Text)
        BY MadeIs, FirstOfHeld
      <4>3. After(config_[k], Len(options[k])) # <<>>
        BY <2>1, <4>1, <4>2, MadeIs, FirstInOrder
      <4> QED
        BY <4>3, MadeIs, FirstOfHeld
    <3> QED
      BY <3>1, <3>3, <3>4 DEF IInv, Progress
  <2>3. ASSUME NEW i \in DOMAIN args PROVE config_[args[i].key] # <<>>
    <3>1. args[i] \in Arguments
      BY <2>1, ElementOfSeq, Sequences DEF IInv
    <3>2. PICK k \in Keys : k = args[i].key
      BY <3>1, ArgumentType
    <3>3. Of(args, k, Len(args)) # {}
      BY <3>2, MadeIs
    <3>4. options[k] # <<>>
      BY <2>1, <3>3, MadeIs, FirstInOrder
    <3> QED
      BY <3>2, <3>4, MadeIs, FirstOfHeld
  <2> QED
    BY <2>2, <2>3 DEF WholeFile
<1> QED
  BY <1>1, SpecIInv, PTL
-----------------------------------------------------------------------------
(* Numbers. *)

LEMMA DigitsAre ==
  /\ \A c \in DOMAIN DigitValue : DigitValue[c] \in Nat
  /\ " " \notin DOMAIN DigitValue /\ "+" \notin DOMAIN DigitValue /\ "-" \notin DOMAIN DigitValue
<1>1. DOMAIN DigitValue = Range(Digits)
  BY DEF DigitValue
<1>2. DOMAIN Digits = 1 .. 10
  BY DEF Digits
<1>3. \A i \in 1 .. 10 : Digits[i] # " " /\ Digits[i] # "+" /\ Digits[i] # "-"
  <2>1. \A i \in 1 .. 10 : i \in {1, 2, 3, 4, 5, 6, 7, 8, 9, 10}
    OBVIOUS
  <2>2. /\ Digits[1] = "0" /\ Digits[2] = "1" /\ Digits[3] = "2" /\ Digits[4] = "3"
        /\ Digits[5] = "4" /\ Digits[6] = "5" /\ Digits[7] = "6" /\ Digits[8] = "7"
        /\ Digits[9] = "8" /\ Digits[10] = "9"
    BY DEF Digits
  <2> QED
    BY <2>1, <2>2
<1>4. ASSUME NEW c \in Range(Digits)
      PROVE  DigitValue[c] \in Nat
  <2>1. PICK i \in 1 .. 10 : Digits[i] = c
    BY <1>2 DEF Range
  <2>2. i - 1 \in 0 .. 9 /\ Digits[i - 1 + 1] = c
    BY <2>1
  <2>3. DigitValue[c] = CHOOSE d \in 0 .. 9 : Digits[d + 1] = c
    BY DEF DigitValue
  <2>4. DigitValue[c] \in 0 .. 9
    BY <2>2, <2>3
  <2> QED
    BY <2>4
<1> QED
  BY <1>1, <1>2, <1>3, <1>4 DEF Range

AllDigits(text) == \A i \in 1 .. Len(text) : text[i] \in DOMAIN DigitValue

NumberFold(digits) ==
  CHOOSE it : it = [x \in SUBSET (DOMAIN digits) |->
    IF x = {} THEN 0 ELSE 10 * it[x \ {Max(x)}] + DigitValue[digits[Max(x)]]]

LEMMA NumberIsFold ==
  ASSUME NEW digits
  PROVE  Number(digits) = NumberFold(digits)[DOMAIN digits]
BY DEF Number, FoldLeft, MapThenFoldSet, NumberFold

DigitStep(digits) ==
  [i \in 1 .. Len(digits) |-> [m \in Nat |-> 10 * m + DigitValue[digits[i]]]]

LEMMA DigitStepType ==
  ASSUME NEW digits \in Text, AllDigits(digits)
  PROVE  DigitStep(digits) \in [1 .. Len(digits) -> [Nat -> Nat]]
<1>1. \A i \in 1 .. Len(digits) : DigitValue[digits[i]] \in Nat
  BY DigitsAre DEF AllDigits
<1>2. ASSUME NEW i \in 1 .. Len(digits)
      PROVE  [m \in Nat |-> 10 * m + DigitValue[digits[i]]] \in [Nat -> Nat]
  <2>1. PICK d \in Nat : d = DigitValue[digits[i]]
    BY <1>1
  <2>2. [m \in Nat |-> 10 * m + d] \in [Nat -> Nat]
    OBVIOUS
  <2> QED
    BY <2>1, <2>2
<1> QED
  BY <1>2 DEF DigitStep

LEMMA NumberFoldIs ==
  ASSUME NEW digits \in Text, AllDigits(digits)
  PROVE  NumberFold(digits) = [x \in SUBSET (1 .. Len(digits)) |->
           IF x = {} THEN 0
           ELSE 10 * NumberFold(digits)[x \ {Max(x)}] + DigitValue[digits[Max(x)]]]
<1> DEFINE n == Len(digits)
           step == DigitStep(digits)
<1>1. n \in Nat /\ DOMAIN digits = 1 .. n /\ 0 \in Nat
  BY LenProperties DEF Text
<1>2. PICK it \in [SUBSET (1 .. n) -> Nat] : Folds(it, n, 0, step)
  <2> HIDE DEF n
  <2> QED
    BY <1>1, DigitStepType, FoldExists DEF n
<1>3. ASSUME NEW x \in SUBSET (1 .. n), x # {}
      PROVE  step[Max(x)][it[x \ {Max(x)}]]
               = 10 * it[x \ {Max(x)}] + DigitValue[digits[Max(x)]]
  <2>1. Max(x) \in 1 .. n
    BY <1>1, <1>3, MaxOf
  <2>2. it[x \ {Max(x)}] \in Nat
    OBVIOUS
  <2> QED
    BY <2>1, <2>2 DEF DigitStep
<1>4. it = [x \in SUBSET (1 .. n) |->
              IF x = {} THEN 0 ELSE 10 * it[x \ {Max(x)}] + DigitValue[digits[Max(x)]]]
  BY <1>2, <1>3, Zenon DEF Folds
<1> QED
  BY <1>1, <1>4, Zenon DEF NumberFold

LEMMA NumberType ==
  ASSUME NEW digits \in Text, AllDigits(digits)
  PROVE  Number(digits) \in Nat
<1>1. PICK n : n = Len(digits)
  OBVIOUS
<1>2. PICK fold : fold = NumberFold(digits)
  OBVIOUS
<1>3. PICK step : step = DigitStep(digits)
  OBVIOUS
<1>4. n \in Nat /\ DOMAIN digits = 1 .. n /\ 0 \in Nat
  BY <1>1, LenProperties DEF Text
<1>5. step \in [1 .. n -> [Nat -> Nat]]
  BY <1>1, <1>3, DigitStepType
<1>6. fold = [x \in SUBSET (1 .. n) |->
                IF x = {} THEN 0 ELSE 10 * fold[x \ {Max(x)}] + DigitValue[digits[Max(x)]]]
  BY <1>1, <1>2, NumberFoldIs
<1>7. fold[{}] = 0
  BY <1>6
<1>8. ASSUME NEW x \in SUBSET (1 .. n), x # {}, fold[x \ {Max(x)}] \in Nat
      PROVE  fold[x] = step[Max(x)][fold[x \ {Max(x)}]]
  <2>1. Max(x) \in 1 .. n
    BY <1>4, <1>8, MaxOf
  <2>2. fold[x] = 10 * fold[x \ {Max(x)}] + DigitValue[digits[Max(x)]]
    BY <1>6, <1>8, Zenon
  <2> QED
    BY <1>1, <1>3, <1>8, <2>1, <2>2 DEF DigitStep
<1>9. TakesSteps(fold, n, Nat, 0, step)
  BY <1>7, <1>8, Zenon DEF TakesSteps
<1>10. Stepwise([i \in 0 .. n |-> fold[1 .. i]], n, Nat, 0, step)
  BY <1>4, <1>5, <1>9, FoldPrefixes
<1>11. fold[1 .. n] \in Nat
  BY <1>4, <1>10 DEF Stepwise
<1> QED
  BY <1>2, <1>4, <1>11, NumberIsFold
-----------------------------------------------------------------------------
(* What a text is made of: blanks, a sign or none, and a rest. *)

Blanks(text) == Leading(text, {" "})
Body(text)   == After(text, Blanks(text))
Signed(body) == body # <<>> /\ Head(body) \in {"+", "-"}
Rest(text)   == IF Signed(Body(text)) THEN Tail(Body(text)) ELSE Body(text)
Sign(text)   == IF Signed(Body(text)) THEN 1 ELSE 0

\* The number that the text denotes, if the rest is a digit or more.
Denoted(text) == IF Signed(Body(text)) /\ Head(Body(text)) = "-"
                 THEN 0 - Number(Rest(text)) ELSE Number(Rest(text))

LEMMA BodyIs ==
  ASSUME NEW text \in Text
  PROVE  /\ Len(text) \in Nat /\ Blanks(text) \in 0 .. Len(text)
         /\ \A i \in 1 .. Blanks(text) : text[i] = " "
         /\ Body(text) \in Text
         /\ Len(Body(text)) = Len(text) - Blanks(text)
         /\ \A i \in 1 .. Len(text) - Blanks(text) : Body(text)[i] = text[Blanks(text) + i]
         /\ Body(text) # <<>> <=> Blanks(text) < Len(text)
         /\ Body(text) # <<>> =>
              Head(Body(text)) = text[Blanks(text) + 1] /\ Head(Body(text)) # " "
<1>1. /\ Len(text) \in Nat /\ Blanks(text) \in 0 .. Len(text)
      /\ \A i \in 1 .. Blanks(text) : text[i] = " "
      /\ Blanks(text) < Len(text) => text[Blanks(text) + 1] # " "
  <2>1. Len(text) \in Nat
    BY LenProperties DEF Text
  <2>2. /\ Leading(text, {" "}) \in 0 .. Len(text)
        /\ \A i \in 1 .. Leading(text, {" "}) : text[i] \in {" "}
        /\ Leading(text, {" "}) < Len(text) => text[Leading(text, {" "}) + 1] \notin {" "}
    BY LeadingType
  <2> QED
    BY <2>1, <2>2 DEF Blanks
<1>2. /\ Body(text) \in Text
      /\ Len(Body(text)) = Len(text) - Blanks(text)
      /\ \A i \in 1 .. Len(text) - Blanks(text) : Body(text)[i] = text[Blanks(text) + i]
  BY <1>1, AfterType DEF Body
<1>3. Body(text) # <<>> <=> Blanks(text) < Len(text)
  <2>1. Body(text) = <<>> <=> Len(Body(text)) = 0
    BY <1>2, EmptySeq DEF Text
  <2>2. PICK n : n = Len(text)
    OBVIOUS
  <2>3. PICK b : b = Blanks(text)
    OBVIOUS
  <2>4. n \in Nat /\ b \in 0 .. n /\ Len(Body(text)) = n - b
    BY <1>1, <1>2, <2>2, <2>3
  <2>5. n - b = 0 <=> ~ (b < n)
    BY <2>4
  <2> QED
    BY <2>1, <2>2, <2>3, <2>4, <2>5
<1>4. Body(text) # <<>> =>
        Head(Body(text)) = text[Blanks(text) + 1] /\ Head(Body(text)) # " "
  <2> SUFFICES ASSUME Body(text) # <<>>
               PROVE  Head(Body(text)) = text[Blanks(text) + 1] /\ Head(Body(text)) # " "
    OBVIOUS
  <2>1. Head(Body(text)) = Body(text)[1]
    BY <1>2 DEF Text
  <2>2. Body(text)[1] = text[Blanks(text) + 1]
    <3>1. 1 \in 1 .. Len(text) - Blanks(text)
      <4>1. PICK n : n = Len(text)
        OBVIOUS
      <4>2. PICK b : b = Blanks(text)
        OBVIOUS
      <4>3. n \in Nat /\ b \in 0 .. n /\ b < n
        BY <1>1, <1>3, <4>1, <4>2
      <4>4. 1 \in 1 .. n - b
        BY <4>3
      <4> QED
        BY <4>1, <4>2, <4>4
    <3> QED
      BY <1>2, <3>1
  <2> QED
    BY <1>1, <1>3, <2>1, <2>2
<1> QED
  BY <1>1, <1>2, <1>3, <1>4

LEMMA RestIs ==
  ASSUME NEW text \in Text
  PROVE  /\ Blanks(text) + Sign(text) \in 0 .. Len(text)
         /\ Rest(text) = After(text, Blanks(text) + Sign(text))
         /\ Rest(text) \in Text
         /\ Len(Rest(text)) = Len(text) - (Blanks(text) + Sign(text))
         /\ \A i \in 1 .. Len(Rest(text)) : Rest(text)[i] = text[Blanks(text) + Sign(text) + i]
<1> DEFINE b == Blanks(text)
           s == Sign(text)
           n == Len(text)
<1>1. /\ n \in Nat /\ b \in 0 .. n /\ Body(text) \in Text /\ Len(Body(text)) = n - b
      /\ \A i \in 1 .. n - b : Body(text)[i] = text[b + i]
      /\ Body(text) # <<>> <=> b < n
  BY BodyIs
<1>2. s \in {0, 1} /\ b + s \in 0 .. n
  BY <1>1 DEF Sign, Signed
<1>3. /\ After(text, b + s) \in Text
      /\ Len(After(text, b + s)) = n - (b + s)
      /\ \A i \in 1 .. n - (b + s) : After(text, b + s)[i] = text[b + s + i]
  BY <1>2, AfterType
<1>4. CASE Signed(Body(text))
  <2>1. s = 1 /\ Rest(text) = Tail(Body(text)) /\ Body(text) # <<>>
    BY <1>4 DEF Sign, Rest, Signed
  <2>2. /\ Tail(Body(text)) \in Text
        /\ Len(Tail(Body(text))) = Len(Body(text)) - 1
        /\ \A i \in 1 .. Len(Tail(Body(text))) : Tail(Body(text))[i] = Body(text)[i + 1]
    BY <1>1, <2>1, HeadTailProperties DEF Text
  <2>3. Len(Tail(Body(text))) = n - (b + s)
    BY <1>1, <2>1, <2>2
  <2>4. ASSUME NEW i \in 1 .. n - (b + s)
        PROVE  Tail(Body(text))[i] = After(text, b + s)[i]
    <3>1. i + 1 \in 1 .. n - b /\ b + (i + 1) = b + s + i
      <4>1. PICK c : c = b
        OBVIOUS
      <4>2. PICK m : m = n
        OBVIOUS
      <4>3. m \in Nat /\ c \in 0 .. m /\ i \in 1 .. m - (c + 1)
        BY <1>1, <2>1, <4>1, <4>2
      <4>4. i + 1 \in 1 .. m - c /\ c + (i + 1) = c + 1 + i
        BY <4>3
      <4> QED
        BY <2>1, <4>1, <4>2, <4>4
    <3>2. Tail(Body(text))[i] = Body(text)[i + 1]
      BY <2>2, <2>3
    <3>3. Body(text)[i + 1] = text[b + (i + 1)]
      BY <1>1, <3>1
    <3> QED
      BY <1>3, <3>1, <3>2, <3>3
  <2>5. Tail(Body(text)) = After(text, b + s)
    BY <1>3, <2>2, <2>3, <2>4, SeqEqual DEF Text
  <2> QED
    BY <1>2, <1>3, <2>1, <2>5
<1>5. CASE ~ Signed(Body(text))
  <2>1. s = 0 /\ Rest(text) = Body(text) /\ b + s = b
    BY <1>1, <1>5 DEF Sign, Rest
  <2>2. Rest(text) = After(text, b + s)
    BY <2>1 DEF Body
  <2> QED
    BY <1>2, <1>3, <2>2
<1> QED
  BY <1>4, <1>5

\* The text may be read as b blanks, s signs, and a digit behind them.
Reads(text, b, s) ==
  /\ b \in 0 .. Len(text) /\ s \in 0 .. 1 /\ b + s < Len(text)
  /\ \A i \in 1 .. b : text[i] \in {" "}
  /\ s = 1 => text[b + 1] \in {"+", "-"}
  /\ text[b + s + 1] \in DOMAIN DigitValue

LEMMA ReadsNumbers ==
  ASSUME NEW text \in Text, NEW b, NEW s, Reads(text, b, s)
  PROVE  /\ Len(text) \in Nat /\ b \in 0 .. Len(text) /\ b < Len(text) /\ b + s \in 0 .. Len(text)
         /\ s = 0 \/ s = 1
         /\ s = 0 => b + s + 1 = b + 1
<1>1. PICK n \in Nat : n = Len(text)
  BY BodyIs
<1>2. b \in 0 .. n /\ s \in 0 .. 1 /\ b + s < n
  BY <1>1, Zenon DEF Reads
<1>3. /\ b < n /\ b + s \in 0 .. n /\ (s = 0 \/ s = 1)
      /\ s = 0 => b + s + 1 = b + 1
  BY <1>2
<1> QED
  BY <1>1, <1>2, <1>3

LEMMA OneReading ==
  ASSUME NEW text \in Text, NEW b, NEW s, Reads(text, b, s)
  PROVE  Blanks(text) = b /\ Sign(text) = s
<1>1. /\ Len(text) \in Nat /\ b \in 0 .. Len(text) /\ b < Len(text)
      /\ s = 0 \/ s = 1
      /\ s = 0 => b + s + 1 = b + 1
  BY ReadsNumbers
<1>2. /\ s = 0 => text[b + 1] \in DOMAIN DigitValue
      /\ s = 1 => text[b + 1] \in {"+", "-"}
  BY <1>1, Zenon DEF Reads
<1>3. /\ text[b + 1] \notin {" "}
      /\ s = 0 => text[b + 1] \notin {"+", "-"}
  BY <1>1, <1>2, DigitsAre
<1>4. \A i \in 1 .. b : text[i] \in {" "}
  BY Zenon DEF Reads
<1>5. Blanks(text) = b
  BY <1>1, <1>3, <1>4, LeadingIs DEF Blanks
<1>6. Body(text) # <<>> /\ Head(Body(text)) = text[b + 1]
  BY <1>1, <1>5, BodyIs
<1>7. Sign(text) = s
  BY <1>1, <1>2, <1>3, <1>6 DEF Sign, Signed
<1> QED
  BY <1>5, <1>7

\* What Denotes says of the blanks b and the signs s.
DenotesAt(text, n, b, s) ==
  /\ b + s < Len(text)
  /\ \A i \in 1 .. b : text[i] = " "
  /\ s = 1 => text[b + 1] \in {"+", "-"}
  /\ \A i \in b + s + 1 .. Len(text) : text[i] \in DOMAIN DigitValue
  /\ n = (IF s = 1 /\ text[b + 1] = "-" THEN 0 - 1 ELSE 1) * Number(After(text, b + s))

LEMMA DenotesIsAt ==
  ASSUME NEW text, NEW n
  PROVE  Denotes(text, n) <=> \E b \in 0 .. Len(text) : \E s \in 0 .. 1 : DenotesAt(text, n, b, s)
BY DEF Denotes, DenotesAt

LEMMA SignIs ==
  ASSUME NEW text \in Text
  PROVE  /\ Sign(text) \in 0 .. 1
         /\ Sign(text) = 1 <=> Signed(Body(text))
         /\ Sign(text) = 1 => Head(Body(text)) = text[Blanks(text) + 1]
                              /\ text[Blanks(text) + 1] \in {"+", "-"}
<1>1. Signed(Body(text)) => Head(Body(text)) = text[Blanks(text) + 1]
                            /\ text[Blanks(text) + 1] \in {"+", "-"}
  BY BodyIs DEF Signed
<1> QED
  BY <1>1 DEF Sign

LEMMA DenotedIs ==
  ASSUME NEW text \in Text, AllDigits(Rest(text))
  PROVE  Denoted(text) =
           (IF Sign(text) = 1 /\ text[Blanks(text) + 1] = "-" THEN 0 - 1 ELSE 1)
             * Number(After(text, Blanks(text) + Sign(text)))
<1>1. PICK m \in Nat : m = Number(Rest(text))
  BY RestIs, NumberType
<1>2. Number(After(text, Blanks(text) + Sign(text))) = m
  BY <1>1, RestIs
<1>3. Sign(text) = 1 /\ text[Blanks(text) + 1] = "-"
        <=> Signed(Body(text)) /\ Head(Body(text)) = "-"
  BY SignIs
<1>4. Denoted(text) = IF Sign(text) = 1 /\ text[Blanks(text) + 1] = "-" THEN 0 - m ELSE m
  BY <1>1, <1>3 DEF Denoted
<1>5. (0 - 1) * m = 0 - m /\ 1 * m = m
  OBVIOUS
<1> QED
  BY <1>2, <1>4, <1>5

LEMMA DenotesOnlyIf ==
  ASSUME NEW text \in Text, NEW n, Denotes(text, n)
  PROVE  Rest(text) # <<>> /\ AllDigits(Rest(text)) /\ n = Denoted(text)
<1>1. PICK b \in 0 .. Len(text), s \in 0 .. 1 : DenotesAt(text, n, b, s)
  BY DenotesIsAt
<1>2. PICK len \in Nat : len = Len(text)
  BY BodyIs
<1>3. b \in 0 .. len /\ s \in 0 .. 1 /\ b + s < len
  BY <1>1, <1>2 DEF DenotesAt
<1>4. b + s + 1 \in b + s + 1 .. len /\ b + s + 1 \in Nat
  BY <1>3
<1>5. Reads(text, b, s)
  BY <1>1, <1>2, <1>3, <1>4 DEF DenotesAt, Reads
<1>6. Blanks(text) = b /\ Sign(text) = s
  BY <1>5, OneReading
<1>7. Rest(text) \in Text /\ Len(Rest(text)) = len - (b + s)
      /\ \A i \in 1 .. Len(Rest(text)) : Rest(text)[i] = text[b + s + i]
  BY <1>2, <1>6, RestIs
<1>8. AllDigits(Rest(text))
  <2>1. ASSUME NEW i \in 1 .. len - (b + s)
        PROVE  text[b + s + i] \in DOMAIN DigitValue
    <3>1. b + s + i \in b + s + 1 .. len
      BY <1>3
    <3> QED
      BY <1>1, <1>2, <3>1 DEF DenotesAt
  <2> QED
    BY <1>7, <2>1 DEF AllDigits
<1>9. Rest(text) # <<>>
  BY <1>3, <1>7, EmptySeq
<1>10. n = Denoted(text)
  BY <1>1, <1>6, <1>8, DenotedIs DEF DenotesAt
<1> QED
  BY <1>8, <1>9, <1>10

LEMMA DenotesIf ==
  ASSUME NEW text \in Text, Rest(text) # <<>>, AllDigits(Rest(text))
  PROVE  Denotes(text, Denoted(text))
<1>1. PICK len \in Nat : len = Len(text)
  BY BodyIs
<1>2. PICK b : b = Blanks(text)
  OBVIOUS
<1>3. PICK s : s = Sign(text)
  OBVIOUS
<1>4. /\ b \in 0 .. len /\ s \in 0 .. 1
      /\ \A i \in 1 .. b : text[i] = " "
      /\ s = 1 => text[b + 1] \in {"+", "-"}
  BY <1>1, <1>2, <1>3, BodyIs, SignIs
<1>5. /\ Rest(text) \in Text /\ Len(Rest(text)) = len - (b + s)
      /\ \A i \in 1 .. Len(Rest(text)) : Rest(text)[i] = text[b + s + i]
  BY <1>1, <1>2, <1>3, RestIs
<1>6. Len(Rest(text)) # 0 /\ Len(Rest(text)) \in Nat
  BY <1>5, EmptySeq DEF Text
<1>7. b + s \in 0 .. len /\ b + s < len
  <2>1. PICK p : p = b + s
    OBVIOUS
  <2>2. p \in 0 .. len
    BY <1>1, <1>2, <1>3, <2>1, RestIs
  <2>3. len - p # 0
    BY <1>5, <1>6, <2>1
  <2>4. p \in 0 .. len /\ p < len
    BY <2>2, <2>3
  <2> QED
    BY <2>1, <2>4
<1>8. ASSUME NEW i \in b + s + 1 .. len PROVE text[i] \in DOMAIN DigitValue
  <2>1. PICK p : p = b + s
    OBVIOUS
  <2>2. p \in 0 .. len /\ i \in p + 1 .. len
    BY <1>7, <2>1
  <2>3. i - p \in 1 .. len - p /\ p + (i - p) = i
    BY <2>2
  <2>4. Rest(text)[i - p] = text[p + (i - p)]
    BY <1>5, <2>1, <2>3
  <2>5. Rest(text)[i - p] \in DOMAIN DigitValue
    BY <1>5, <2>1, <2>3 DEF AllDigits
  <2> QED
    BY <2>3, <2>4, <2>5
<1>9. DenotesAt(text, Denoted(text), b, s)
  BY <1>1, <1>2, <1>3, <1>4, <1>7, <1>8, DenotedIs DEF DenotesAt
<1> QED
  BY <1>1, <1>4, <1>9, DenotesIsAt
-----------------------------------------------------------------------------
(* What >> makes of the text, and get_as<int>() of that. *)

LEMMA WholeIs ==
  ASSUME NEW rest \in Text
  PROVE  /\ Leading(rest, DOMAIN DigitValue) = Len(rest) <=> AllDigits(rest)
         /\ SubSeq(rest, 1, Len(rest)) = rest
<1>1. Len(rest) \in Nat /\ Len(rest) \in 0 .. Len(rest)
  <2>1. Len(rest) \in Nat
    BY BodyIs
  <2> QED
    BY <2>1
<1>2. ASSUME Leading(rest, DOMAIN DigitValue) = Len(rest) PROVE AllDigits(rest)
  BY <1>2, LeadingType DEF AllDigits
<1>3. ASSUME AllDigits(rest) PROVE Leading(rest, DOMAIN DigitValue) = Len(rest)
  BY <1>1, <1>3, LeadingIs DEF AllDigits
<1>4. SubSeq(rest, 1, Len(rest)) = rest
  BY SubSeqFull DEF Text
<1> QED
  BY <1>2, <1>3, <1>4

\* The nearest int.
Clipped(minus, m) ==
  IF minus THEN 0 - (IF m > MaxInt + 1 THEN MaxInt + 1 ELSE m)
  ELSE IF m > MaxInt THEN MaxInt ELSE m

Negative(text) == Signed(Body(text)) /\ Head(Body(text)) = "-"

LEMMA ScannedIs ==
  ASSUME NEW text \in Text
  PROVE  /\ Scanned(Body(text)).whole <=> AllDigits(Rest(text))
         /\ AllDigits(Rest(text)) =>
              Scanned(Body(text)).value = Clipped(Negative(text), Number(Rest(text)))
<1> DEFINE n == Leading(Rest(text), DOMAIN DigitValue)
           value == Number(SubSeq(Rest(text), 1, n))
<1>1. Scanned(Body(text)) =
        [whole |-> ToTheEnd(Rest(text), n), digits |-> n, value |-> Clipped(Negative(text), value)]
  BY Zenon DEF Scanned, Rest, Signed, Negative, Clipped
<1>2. Rest(text) \in Text
  BY RestIs
<1>3. Scanned(Body(text)).whole = ToTheEnd(Rest(text), n)
      /\ Scanned(Body(text)).value = Clipped(Negative(text), value)
  <2>1. PICK w : w = ToTheEnd(Rest(text), n)
    OBVIOUS
  <2>2. PICK c : c = Clipped(Negative(text), value)
    OBVIOUS
  <2>3. Scanned(Body(text)) = [whole |-> w, digits |-> n, value |-> c]
    BY <1>1, <2>1, <2>2, Zenon
  <2> HIDE DEF n, value
  <2>4. Scanned(Body(text)).whole = w /\ Scanned(Body(text)).value = c
    BY <2>3
  <2> QED
    BY <2>1, <2>2, <2>4, Zenon
<1>4. ToTheEnd(Rest(text), n) <=> AllDigits(Rest(text))
  BY <1>2, WholeIs DEF ToTheEnd
<1>5. AllDigits(Rest(text)) => value = Number(Rest(text))
  BY <1>2, WholeIs, Zenon
<1> QED
  BY <1>3, <1>4, <1>5, Zenon

Ints == 0 - MaxInt - 1 .. MaxInt
Good(text) == {n \in Ints : Denotes(text, n)}

LEMMA DenotedType ==
  ASSUME NEW text \in Text, AllDigits(Rest(text))
  PROVE  /\ Denoted(text) \in Int
         /\ Denoted(text) \in {Number(Rest(text)), 0 - Number(Rest(text))}
         /\ Denoted(text) \in Ints =>
              Clipped(Negative(text), Number(Rest(text))) = Denoted(text)
<1>1. PICK m \in Nat : m = Number(Rest(text))
  BY RestIs, NumberType
<1>2. PICK d : d = Denoted(text)
  OBVIOUS
<1>3. PICK c : c = Clipped(Negative(text), m)
  OBVIOUS
<1>4. MaxInt \in Nat
  BY ConfigAssumption
<1>5. CASE Negative(text)
  <2>1. d = 0 - m
    BY <1>1, <1>2, <1>5 DEF Denoted, Negative
  <2>2. c = 0 - (IF m > MaxInt + 1 THEN MaxInt + 1 ELSE m)
    BY <1>3, <1>5 DEF Clipped
  <2>3. d \in Int /\ d \in {m, 0 - m} /\ (d \in Ints => c = d)
    BY <1>4, <2>1, <2>2 DEF Ints
  <2> QED
    BY <1>1, <1>2, <1>3, <2>3
<1>6. CASE ~ Negative(text)
  <2>1. d = m
    BY <1>1, <1>2, <1>6 DEF Denoted, Negative
  <2>2. c = IF m > MaxInt THEN MaxInt ELSE m
    BY <1>3, <1>6 DEF Clipped
  <2>3. d \in Int /\ d \in {m, 0 - m} /\ (d \in Ints => c = d)
    BY <1>4, <2>1, <2>2 DEF Ints
  <2> QED
    BY <1>1, <1>2, <1>3, <2>3
<1> QED
  BY <1>5, <1>6

LEMMA GoodIs ==
  ASSUME NEW text \in Text
  PROVE  Good(text) = IF Rest(text) # <<>> /\ AllDigits(Rest(text)) /\ Denoted(text) \in Ints
                      THEN {Denoted(text)} ELSE {}
BY DenotesOnlyIf, DenotesIf DEF Good

LEMMA GetAsIntIs ==
  ASSUME NEW text \in Text
  PROVE  GetAsInt(text) =
           IF text = <<>> \/ ~ AllDigits(Rest(text)) THEN {}
           ELSE IF Body(text) = <<>> THEN Ints
           ELSE {Clipped(Negative(text), Number(Rest(text)))}
<1>1. GetAsInt(text) = IF text = <<>> \/ ~ Scanned(Body(text)).whole THEN {}
                       ELSE IF Body(text) = <<>> THEN Ints ELSE {Scanned(Body(text)).value}
  BY Zenon DEF GetAsInt, Body, Blanks, Ints
<1> QED
  BY <1>1, ScannedIs, Zenon

\* No end of the text is cut off if all of it is blanks, signs, and then the rest.
LEMMA TailIs ==
  ASSUME NEW text \in Text,
         Rest(text) # <<>> => Rest(text)[1] \in DOMAIN DigitValue
  PROVE  After(text, Leading(text, {" ", "+", "-"})) = Rest(text)
<1>1. PICK len \in Nat : len = Len(text)
  BY BodyIs
<1>2. PICK p : p = Blanks(text) + Sign(text)
  OBVIOUS
<1>3. /\ p \in 0 .. len /\ Rest(text) = After(text, p) /\ Rest(text) \in Text
      /\ Len(Rest(text)) = len - p
      /\ \A i \in 1 .. Len(Rest(text)) : Rest(text)[i] = text[p + i]
  BY <1>1, <1>2, RestIs
<1>4. ASSUME NEW i \in 1 .. p PROVE text[i] \in {" ", "+", "-"}
  <2>1. PICK b : b = Blanks(text)
    OBVIOUS
  <2>2. PICK s : s = Sign(text)
    OBVIOUS
  <2>3. b \in 0 .. len /\ s \in 0 .. 1
    BY <1>1, <2>1, <2>2, BodyIs, SignIs
  <2>4. i \in 1 .. b \/ (i = b + 1 /\ s = 1)
    BY <1>2, <2>1, <2>2, <2>3
  <2>5. i \in 1 .. b => text[i] = " "
    BY <2>1, BodyIs
  <2>6. s = 1 => text[b + 1] \in {"+", "-"}
    BY <2>1, <2>2, SignIs
  <2> QED
    BY <2>4, <2>5, <2>6
<1>5. p < len => text[p + 1] \notin {" ", "+", "-"}
  <2> SUFFICES ASSUME p < len PROVE text[p + 1] \notin {" ", "+", "-"}
    OBVIOUS
  <2>1. 1 \in 1 .. len - p
    BY <1>3
  <2>2. Rest(text)[1] = text[p + 1] /\ Rest(text) # <<>>
    BY <1>3, <2>1, EmptySeq
  <2> QED
    BY <2>2, DigitsAre
<1>6. Leading(text, {" ", "+", "-"}) = p
  BY <1>1, <1>3, <1>4, <1>5, LeadingIs
<1> QED
  BY <1>3, <1>6

LEMMA RangeOfNone == Range(<<>>) = {}
<1>1. DOMAIN <<>> = 1 .. 0
  BY EmptyText, EmptySeq, LenProperties DEF Text
<1> QED
  BY <1>1 DEF Range

\* A sign with nothing behind it.
LEMMA LoneSign ==
  ASSUME NEW text \in Text, Rest(text) = <<>>
  PROVE  Body(text) \in {<<>>, <<"+">>, <<"-">>}
<1> SUFFICES ASSUME Body(text) # <<>> PROVE Body(text) \in {<<"+">>, <<"-">>}
  OBVIOUS
<1>1. PICK body \in Seq(STRING) : body = Body(text)
  BY BodyIs DEF Text
<1>2. body # <<>> /\ Head(body) \in {"+", "-"} /\ Tail(body) = <<>>
  BY <1>1 DEF Rest, Signed
<1>3. Len(body) = 1
  <2>1. Len(Tail(body)) = Len(body) - 1 /\ Len(Tail(body)) = 0
    BY <1>2, HeadTailProperties, EmptySeq
  <2>2. Len(body) \in Nat
    BY LenProperties
  <2> QED
    BY <2>1, <2>2
<1>4. body[1] = Head(body)
  BY <1>2
<1>5. body = <<Head(body)>>
  BY <1>3, <1>4
<1> QED
  BY <1>1, <1>2, <1>5

LEMMA TextConverts ==
  ASSUME NEW text \in Text
  PROVE  Converts(text)
<1> DEFINE rest == Rest(text)
           d == Denoted(text)
           tail == After(text, Leading(text, {" ", "+", "-"}))
           Exact == /\ GetAsInt(text) = Good(text)
                    /\ GetAsIntOr(text, MaxInt) = IF Good(text) = {} THEN {MaxInt} ELSE Good(text)
           Odd == /\ Good(text) = {} /\ text # <<>> /\ Range(tail) \subseteq DOMAIN DigitValue
                  /\ \/ Body(text) \in {<<>>, <<"+">>, <<"-">>}
                     \/ \E n \in {Number(tail), 0 - Number(tail)} : Denotes(text, n)
<1>1. Converts(text) <=> Exact \/ Odd
  BY Zenon DEF Converts, Body, Blanks, Good, Ints
<1>2. rest \in Text /\ Len(rest) \in Nat /\ (rest = <<>> <=> Len(rest) = 0)
  BY RestIs, LenProperties, EmptySeq DEF Text
<1>3. CASE text = <<>> \/ ~ AllDigits(rest)
  <2>1. GetAsInt(text) = {}
    BY <1>3, GetAsIntIs
  <2>2. text = <<>> => rest = <<>>
    <3>1. SUFFICES ASSUME text = <<>> PROVE rest = <<>>
      OBVIOUS
    <3>2. PICK p : p = Blanks(text) + Sign(text)
      OBVIOUS
    <3>3. Len(text) = 0 /\ p \in 0 .. Len(text) /\ Len(rest) = Len(text) - p
      BY <3>1, <3>2, RestIs, EmptySeq
    <3> QED
      BY <1>2, <3>3
  <2>3. Good(text) = {}
    BY <1>3, <2>2, GoodIs
  <2> QED
    BY <1>1, <2>1, <2>3 DEF GetAsIntOr
<1>4. CASE text # <<>> /\ AllDigits(rest) /\ rest = <<>>
  <2>1. Good(text) = {}
    BY <1>4, GoodIs
  <2>2. tail = <<>>
    BY <1>4, TailIs
  <2>3. Range(tail) = {}
    <3> HIDE DEF tail
    <3> QED
      BY <2>2, RangeOfNone
  <2>4. Body(text) \in {<<>>, <<"+">>, <<"-">>}
    BY <1>4, LoneSign
  <2> QED
    BY <1>1, <1>4, <2>1, <2>3, <2>4
<1>5. CASE text # <<>> /\ AllDigits(rest) /\ rest # <<>>
  <2>1. 1 \in 1 .. Len(rest)
    BY <1>2, <1>5
  <2>2. rest[1] \in DOMAIN DigitValue
    BY <1>5, <2>1 DEF AllDigits
  <2>3. CASE d \in Ints
    <3>1. Good(text) = {d}
      BY <1>5, <2>3, GoodIs
    <3>2. Body(text) # <<>>
      BY <1>5, EmptySeq DEF Rest, Signed
    <3>3. GetAsInt(text) = {d}
      BY <1>5, <2>3, <3>2, GetAsIntIs, DenotedType
    <3>4. Range(text) # {" "}
      <4>1. PICK p : p = Blanks(text) + Sign(text)
        OBVIOUS
      <4>2. PICK len \in Nat : len = Len(text) /\ DOMAIN text = 1 .. len
        BY LenProperties DEF Text
      <4>3. p \in 0 .. len /\ Len(rest) = len - p /\ rest[1] = text[p + 1]
        BY <2>1, <4>1, <4>2, RestIs
      <4>4. p + 1 \in DOMAIN text
        BY <2>1, <4>2, <4>3
      <4>5. text[p + 1] \in Range(text) /\ text[p + 1] # " "
        BY <2>2, <4>3, <4>4, DigitsAre DEF Range
      <4> QED
        BY <4>5
    <3>5. GetAsIntOr(text, MaxInt) = {d}
      BY <3>3, <3>4 DEF GetAsIntOr
    <3> QED
      BY <1>1, <3>1, <3>3, <3>5
  <2>4. CASE d \notin Ints
    <3>1. Good(text) = {}
      BY <2>4, GoodIs
    <3>2. tail = rest
      BY <2>2, TailIs
    <3>3. Range(rest) \subseteq DOMAIN DigitValue
      <4>1. DOMAIN rest = 1 .. Len(rest)
        BY <1>2, LenProperties DEF Text
      <4> QED
        BY <1>5, <4>1 DEF Range, AllDigits
    <3>4. Denotes(text, d) /\ d \in {Number(rest), 0 - Number(rest)}
      BY <1>5, DenotesIf, DenotedType
    <3> QED
      BY <1>1, <1>5, <3>1, <3>2, <3>3, <3>4
  <2> QED
    BY <2>3, <2>4
<1> QED
  BY <1>3, <1>4, <1>5

(* Whatever the characters of its texts, get_as<int>() returns of them the    *)
(* numbers they denote and throws for the rest, but for the three kinds of    *)
(* text that Conversions names.                                               *)
THEOREM ConfigConversions == Spec => []Conversions
<1>1. TypeOK => Conversions
  <2> SUFFICES ASSUME TypeOK, NEW k \in Names \cup Dotted, NEW i \in DOMAIN config_[k]
               PROVE  Converts(config_[k][i])
    BY DEF Conversions
  <2>1. config_[k] \in Seq(Text)
    BY DEF TypeOK, Maps, Keys
  <2>2. config_[k][i] \in Text
    BY <2>1, LenProperties, ElementOfSeq
  <2> QED
    BY <2>2, TextConverts
<1> QED
  BY <1>1, ConfigTypeOK, PTL
=============================================================================
