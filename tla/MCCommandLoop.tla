---------------------------- MODULE MCCommandLoop ----------------------------
(* One session on the files a and b, b of two lines.  Its input is a line  *)
(* of a letter and up to three or four characters, or three lines: an edit, *)
(* and commands that follow on it, or a line that cannot be read.          *)
EXTENDS CommandLoop

a == <<"a">>
b == <<"b">>
Signs == {" ", "TAB", "1", "2", "a"}
MCAscii == Letters \cup Signs \cup {"h", "CR", "LF", "0", "+", "b"}
MCChar == MCAscii \cup {"w"}
MCByte == MCChar \cup {"bad"}
MCDigit == [d \in {"0", "1", "2"} |-> CASE d = "0" -> 0 [] d = "1" -> 1 [] d = "2" -> 2]
MCEncoder == "Latin1" :> [c \in MCChar |-> IF c = "w" THEN "bad" ELSE c]
MCDecoder == "Latin1" :> [x \in MCByte |-> IF x = "w" THEN "bad" ELSE x]
MCMarks == << >>
MCTyped == {<< >>, <<"a">>, <<"a", "2">>, <<" ", "a">>, <<"a", " ">>, <<"w">>}
MCPaths == {a, b}
MCFirstFiles == {b :> <<"b", "LF", "1", "LF">>}

UpTo(m) == UNION {[1 .. k -> {" ", "1", "a"}] : k \in 0 .. m}
Single == {<<<<c>> \o s>> : c \in {"i", "r"}, s \in UpTo(4)}
            \cup {<<<<c>> \o s>> : c \in Letters \cup {"h", " "}, s \in UpTo(3)}
Odd == {<<OneText(c, n, t)>> : c \in {"i", "r"}, n \in {1, 2, 12, 20}, t \in MCTyped}
         \cup {<<<<c, " ">> \o t>> : c \in {"i", "r", "d", "p"},
                 t \in {<<"+", "1">>, <<"+">>, <<"0">>, <<"2", "0">>, <<"0", "2", "CR">>,
                       <<"1", "2", "1">>, <<"1", "TAB">>, <<"TAB", "1">>,
                       <<"2", " ", "TAB", "CR">>}}
         \cup {<<<<c, "TAB", "1">>>> : c \in {"d", "s", "u"}}
After == {<<"l">>, <<"u">>, <<"u", " ", "u">>, <<"d", " ", "1">>, <<"s">>, <<"s", " ", "a">>,
          <<"s", " ", " ", "a">>, <<"bad">>, <<"q">>}
Longer == {<<e, x, y>> : e \in {<<"i", " ", "1", " ", "a">>, <<"d", " ", "2">>, <<"u">>},
                         x \in After, y \in After \cup {<<"e">>}}
MCScripts == {<< >>} \cup Single \cup Odd \cup Longer
=============================================================================
