---------------------------- MODULE MCRoundTrip ----------------------------
(* Every buffer of up to two lines of up to two characters, which may be   *)
(* terminators (nothing keeps them out of an inserted line), or of three   *)
(* lines of up to one; and files of any bytes, valid UTF-8 or not.         *)
EXTENDS RoundTrip

MCByte == {"CR", "LF", "a", "lead", "cont"}
MCChar == {<<"CR">>, <<"LF">>, <<"a">>, <<"lead", "cont">>}
MCLine(n) == {FlattenSeq(l) : l \in BoundedSeq(MCChar, n)}
MCBuffers == BoundedSeq(MCLine(2), 2) \cup BoundedSeq(MCLine(1), 3)
MCFiles == BoundedSeq(MCByte, 6) \cup BoundedSeq({"CR", "LF", "a"}, 7)
=============================================================================
