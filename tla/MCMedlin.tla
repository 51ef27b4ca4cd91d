----------------------------- MODULE MCMedlin -----------------------------
(* One file p, which may be there at first.  "mark" is U+FEFF, "w" stands  *)
(* for the characters beyond ASCII that only Unicode has, "e" for those    *)
(* that others have too, in one byte "E9" in Latin-1.  Big5 stands for the *)
(* encodings that decode characters they do not encode, ISO-2022-JP lacks  *)
(* the "a" of ASCII as the real one lacks escape, and Shift_JIS writes "e" *)
(* as "a" as the real one writes the yen sign as a backslash.              *)
EXTENDS Medlin

CONSTANT p

MCChar == {"CR", "LF", "a", "e", "w", "mark"}
MCByte == MCChar \cup {"E9", "bad"}
MCAscii == {"CR", "LF", "a"}

Unicode == [c \in MCChar |-> c]
UTF8 == [b \in MCByte |-> IF b \in MCChar THEN b ELSE "bad"]
MCEncoder ==
  LET Latin == [Unicode EXCEPT !["e"] = "E9", !["w"] = "bad", !["mark"] = "bad"]
  IN  [enc \in {"UTF-8", "UTF-16LE", "Big5", "ISO-2022-JP", "Shift_JIS"} |->
         CASE enc = "Big5" -> Latin
           [] enc = "ISO-2022-JP" -> [Latin EXCEPT !["a"] = "bad"]
           [] enc = "Shift_JIS" -> [Latin EXCEPT !["e"] = "a"]
           [] OTHER -> Unicode]
MCDecoder ==
  [enc \in DOMAIN MCEncoder |->
     CASE enc = "UTF-8" -> UTF8
       [] enc = "UTF-16LE" -> [b \in MCByte \X MCByte |-> IF "E9" \in Range(b) THEN "bad" ELSE "w"]
       [] OTHER -> [UTF8 EXCEPT !["E9"] = "e", !["mark"] = "bad"]]
MCMarks == "mark" :> "UTF-8"
MCEncodings == DOMAIN MCEncoder

MCTyped == {<< >>, <<"mark">>, <<"a", "CR", "e">>}
MCTypedAscii == {<< >>, <<"a">>}
MCTypedPlain == {<< >>, <<"a", "CR">>}
MCNoFiles == {<< >>}
MCFirstFiles == {<< >>} \cup {p :> t : t \in {<<"E9", "LF", "LF">>, <<"mark", "w", "LF", "a">>}}
=============================================================================
