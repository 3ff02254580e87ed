------------------------------- MODULE MCConfig -------------------------------
(* Instances of Config for TLC. The keys are model values, one or two of each  *)
(* sort, and an int has the range -20 .. 19. A file of one line has any text   *)
(* of up to three characters, one of each class that the code tells apart;     *)
(* files of three lines, and two arguments, have few texts. Only an argument   *)
(* may have a value of blanks, as those before the value of a line go.         *)
EXTENDS Config

CONSTANTS name, help, numbered, dotted, plain

Characters == {" ", "-", "1", "9", "x", "\r"}
AllTexts   == UNION {[1 .. n -> Characters] : n \in 0 .. 3}
FewTexts   == {<<"1">>, <<" ", "9">>}

Item(kind, k, t) == [kind |-> kind, key |-> k, text |-> t]
Items(keys, texts) == {Item("pair", k, t) : k \in keys, t \in texts}

MCCalls == BoundedSeq(Items({name, help, numbered, plain}, FewTexts)
                        \cup {Item("pair", name, <<" ">>), Item("bad", plain, <<>>)}, 2)
MCFiles == BoundedSeq(Items({name, dotted}, FewTexts)
                        \cup {Item("bad", plain, <<>>), Item("skip", plain, <<>>)}, 3)
             \cup BoundedSeq(Items({name, dotted}, AllTexts), 1)
=============================================================================
