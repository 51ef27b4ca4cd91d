--------------------------- MODULE MCLineBuffer ---------------------------
(* One source of each shape; z and w are not ASCII, and a caller rejects  *)
(* w.  Forks intern z, which the ASCII validator rejects.                  *)
EXTENDS LineBuffer

CONSTANTS x, z, w

MCNonAscii == {z, w}
MCRejects == {w}
MCSources == {<< >>, <<x, x>>, <<x, z>>, <<z, w>>, <<z, x>>}
MCValidators == {{z}}
=============================================================================
