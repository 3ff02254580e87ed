-------------------------------- MODULE Config --------------------------------
(***************************************************************************)
(* xxx::config (src/config.cxx, xxx/config.hxx): a program reads its       *)
(* arguments with get_options(), makes a configurations_t of them and of a *)
(* file, and gets values of it as numbers, booleans or strings. Arguments  *)
(* and lines are given by what the regular expressions of the code find in *)
(* them: nothing to keep, an error, or a key and the text behind it.       *)
(***************************************************************************)
EXTENDS Integers, Sequences, SequencesExt

CONSTANTS Names,        \* keys that an option and a line of the file may have
          UsageNames,   \* those that ask for the usage: h, help
          Numbered,     \* keys with a digit first, which only an option may have
          Dotted,       \* keys with - _ or . , which only a line may have
          Plain,        \* the key "" of an argument that is no option
          MaxInt,       \* the largest int
          Calls,        \* the sequences of arguments the program may get
          Files         \* the sequences of lines its file may have

Keys == Names \cup Numbered \cup Dotted \cup {Plain}
Text == Seq(STRING)

Pair(keys)   == [kind : {"pair"}, key : keys, text : Text]
Other(kinds) == [kind : kinds, key : {Plain}, text : {<<>>}]

\* An argument that is no option is its own value. "--key=" is an error.
Arguments == Pair(Names \cup Numbered \cup {Plain}) \cup Other({"bad"})
Lines     == Pair(Names \cup Dotted) \cup Other({"skip", "bad"})

ASSUME ConfigAssumption == /\ (Names \cup Dotted) \cap (Numbered \cup {Plain}) = {}
                           /\ UsageNames \subseteq Names /\ MaxInt \in Nat
                           /\ Calls \subseteq Seq(Arguments) /\ Files \subseteq Seq(Lines)

VARIABLES args,      \* the arguments of the program; never changes
          lines,     \* the lines of its file; never changes
          pc,        \* where the program is
          code,      \* the first result of get_options()
          options,   \* the second: for each key its values, in order
          config,    \* the local map that a constructor fills
          at,        \* the line that load_file() reads next
          config_    \* the member: the configuration, once the constructor returns

vars == <<args, lines, pc, code, options, config, at, config_>>

Maps  == [Keys -> Seq(Text)]
Empty == [k \in Keys |-> <<>>]

TypeOK == /\ args \in Calls /\ lines \in Files
          /\ pc \in {"start", "options", "loading", "thrown", "usage", "ready"}
          /\ code \in {0 - 1, 0, 1} /\ at \in 1 .. Len(lines) + 1
          /\ options \in Maps /\ config \in Maps /\ config_ \in Maps

Init == /\ args \in Calls /\ lines \in Files
        /\ pc = "start" /\ code = 0 /\ at = 1
        /\ options = Empty /\ config = Empty /\ config_ = Empty
-----------------------------------------------------------------------------
\* Mutant: the last value comes first.
PushFront(map, item) == [map EXCEPT ![item.key] = <<item.text>> \o @]

Push(map, item) == [map EXCEPT ![item.key] = Append(@, item.text)]

\* Mutant: how often the usage was asked for.
UsageCount(map) == Len(map[CHOOSE k \in UsageNames : TRUE])

Usage(map) == IF \E k \in UsageNames : map[k] # <<>> THEN 1 ELSE 0

\* get_options(): one bad argument, and there are no options.
GetOptions ==
  /\ pc = "start"
  /\ LET parsed == FoldLeft(Push, Empty, args) IN
     IF \E i \in DOMAIN args : args[i].kind = "bad"
     THEN code' = 0 - 1 /\ options' = Empty
     ELSE code' = Usage(parsed) /\ options' = parsed
  /\ pc' = IF code' = 0 THEN "options" ELSE "usage"
  /\ UNCHANGED <<args, lines, config, at, config_>>

Present(map) == {k \in Keys : map[k] # <<>>}

\* The constructor checks the keys of the options, then opens the file.
Construct ==
  /\ pc = "options"
  /\ IF Present(options) \subseteq Names \cup Dotted
     THEN pc' = "loading" \/ pc' = "thrown" ELSE pc' = "thrown"
  /\ config' = options
  /\ UNCHANGED <<args, lines, code, options, at, config_>>

Leading(text, set) ==
  Cardinality({i \in DOMAIN text : \A j \in 1 .. i : text[j] \in set})

After(text, n) == SubSeq(text, n + 1, Len(text))

\* Blanks after the separator go. A value holds no carriage return.
Line(line) ==
  IF line.kind = "pair" /\ "\r" \in Range(line.text) THEN [line EXCEPT !.kind = "bad"]
  ELSE [line EXCEPT !.text = After(@, Leading(@, {" "}))]

\* Mutant: the value of a line comes before those that are there.
KeepFirst(map, item) == PushFront(map, item)

Keep(map, item) == Push(map, item)

LoadLine ==
  /\ pc = "loading" /\ at <= Len(lines)
  /\ at' = at + 1
  /\ LET line == Line(lines[at]) IN
     CASE line.kind = "bad"  -> pc' = "thrown" /\ UNCHANGED config
       [] line.kind = "skip" -> UNCHANGED <<pc, config>>
       [] line.kind = "pair" -> config' = Keep(config, line) /\ UNCHANGED pc
  /\ UNCHANGED <<args, lines, code, options, config_>>

\* Mutant: without the exceptions of the stream, an error looks like the end.
ReadEnds ==
  /\ pc = "loading"
  /\ at' = Len(lines) + 1
  /\ UNCHANGED <<args, lines, pc, code, options, config, config_>>

\* The stream fails in the middle of the file.
ReadFails ==
  /\ pc = "loading"
  /\ pc' = "thrown"
  /\ UNCHANGED <<args, lines, code, options, config, at, config_>>

Swap ==
  /\ pc = "loading" /\ at > Len(lines)
  /\ pc' = "ready"
  /\ config_' = config /\ config' = config_
  /\ UNCHANGED <<args, lines, code, options, at>>

Next == GetOptions \/ Construct \/ LoadLine \/ ReadFails \/ Swap
Spec == Init /\ [][Next]_vars
-----------------------------------------------------------------------------
Digits     == <<"0", "1", "2", "3", "4", "5", "6", "7", "8", "9">>
DigitValue == [c \in Range(Digits) |-> CHOOSE d \in 0 .. 9 : Digits[d + 1] = c]

Number(digits) == FoldLeft(LAMBDA n, c : 10 * n + DigitValue[c], 0, digits)

\* Mutant: the text behind the number is not looked at.
ToAnywhere(text, n) == TRUE

ToTheEnd(text, n) == n = Len(text)

\* What iss >> t makes of the text behind the blanks: how many characters it takes
\* for digits, and the number, which is 0 if there are none, or the nearest int.
Scanned(body) ==
  LET signed == body # <<>> /\ Head(body) \in {"+", "-"}
      rest   == IF signed THEN Tail(body) ELSE body
      n      == Leading(rest, DOMAIN DigitValue)
      value  == Number(SubSeq(rest, 1, n))
  IN [whole |-> ToTheEnd(rest, n), digits |-> n,
      value |-> IF signed /\ Head(body) = "-"
                THEN 0 - (IF value > MaxInt + 1 THEN MaxInt + 1 ELSE value)
                ELSE IF value > MaxInt THEN MaxInt ELSE value]

\* get_as<int>(): the numbers it may return for the text, none if it throws. Only
\* the end of the text counts, not whether >> has failed; for a text of blanks >>
\* leaves t as it was, which nobody has set.
GetAsInt(text) ==
  LET body == After(text, Leading(text, {" "})) IN
  IF text = <<>> \/ ~Scanned(body).whole THEN {}
  ELSE IF body = <<>> THEN 0 - MaxInt - 1 .. MaxInt ELSE {Scanned(body).value}

\* get_as<int>() with an alternative.
GetAsIntOr(text, alternative) ==
  IF GetAsInt(text) = {} \/ Range(text) = {" "} THEN {alternative} ELSE GetAsInt(text)
-----------------------------------------------------------------------------
\* The values are those of the first n items that have the key, in their order.
InOrder(values, items, k, n) ==
  LET of == {i \in 1 .. n : items[i].kind = "pair" /\ items[i].key = k} IN
  /\ Len(values) = Cardinality(of)
  /\ \A i \in of : values[Cardinality({j \in of : j <= i})] = items[i].text

Loaded == [i \in DOMAIN lines |-> Line(lines[i])]

(* Where an argument and the file have the same key, the configuration uses   *)
(* the option (config.hxx 122): get_as() takes the first of the values, which *)
(* is that of the first such argument, and only for a key that no argument    *)
(* has is it one of the file, of a line with that key.                        *)
OptionsFirst ==
  pc = "ready" => \A k \in Keys : config_[k] # <<>> =>
    LET given == {i \in DOMAIN args : args[i].key = k} IN
    IF given # {}
    THEN \E i \in given : config_[k][1] = args[i].text /\ \A j \in given : i <= j
    ELSE \E i \in DOMAIN lines :
           Loaded[i] = [kind |-> "pair", key |-> k, text |-> config_[k][1]]

(* A constructor returns only with all of its file and its options: no line   *)
(* is wrong, no read failed before the end, and no key that a line or an      *)
(* argument has is missing.                                                   *)
WholeFile ==
  pc = "ready" =>
    /\ \A i \in DOMAIN lines : /\ Loaded[i].kind # "bad"
                               /\ Loaded[i].kind = "pair" => config_[Loaded[i].key] # <<>>
    /\ \A i \in DOMAIN args : config_[args[i].key] # <<>>

(* A program whose options are accepted gets no more and no less than it was  *)
(* given, in the order of the arguments, and hands them on to a configuration *)
(* unless there is a plain argument, or an option named like a number.        *)
OptionsComplete ==
  /\ code >= 0 /\ pc # "start" =>
       \A k \in Keys : InOrder(options[k], args, k, Len(args))
  /\ pc \in {"loading", "ready"} =>
       \A i \in DOMAIN args : args[i].key \in Names

\* The text is blanks, a sign or none, and at least one digit, for the int n.
Denotes(text, n) ==
  \E b \in 0 .. Len(text) : \E s \in 0 .. 1 :
    /\ b + s < Len(text)
    /\ \A i \in 1 .. b : text[i] = " "
    /\ s = 1 => text[b + 1] \in {"+", "-"}
    /\ \A i \in b + s + 1 .. Len(text) : text[i] \in DOMAIN DigitValue
    /\ n = (IF s = 1 /\ text[b + 1] = "-" THEN 0 - 1 ELSE 1) * Number(After(text, b + s))

Converts(text) ==
  LET body == After(text, Leading(text, {" "}))
      tail == After(text, Leading(text, {" ", "+", "-"}))
      good == {n \in 0 - MaxInt - 1 .. MaxInt : Denotes(text, n)}
  IN \/ GetAsInt(text) = good /\ GetAsIntOr(text, MaxInt) = IF good = {} THEN {MaxInt} ELSE good
     \/ /\ good = {} /\ text # <<>> /\ Range(tail) \subseteq DOMAIN DigitValue
        /\ \/ body \in {<<>>, <<"+">>, <<"-">>}
           \/ \E n \in {Number(tail), 0 - Number(tail)} : Denotes(text, n)

(* get_as<int>() returns the number that a text denotes. It throws for any    *)
(* other text, but for three kinds: blanks only, a sign with nothing behind   *)
(* it, and digits for a number that is no int.                                *)
Conversions ==
  pc = "ready" => \A k \in Names \cup Dotted :
    \A i \in DOMAIN config_[k] : Converts(config_[k][i])
=============================================================================
