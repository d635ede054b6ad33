-------------------------------- MODULE MCIpc --------------------------------
(* A small instance of the kernel objects on the kernel core.                *)
EXTENDS MCRhino, RhinoIpc

CONSTANT o1

\* Two flags: one task may ask for one or both, a set gives one or both.
Gets == {<<{1}, "RHINO_OR_CLEAR">>, <<{1, 2}, "RHINO_AND_CLEAR">>, <<{1, 2}, "RHINO_OR">>}
Sets == {<<{1}, "RHINO_OR">>, <<{1, 2}, "RHINO_OR">>, <<{2}, "RHINO_AND">>}

\* Bytes; a record of the ring is three or four bytes of six, so that two may
\* fill it, and the length and the data of one wrap at every place.
OneByte == {<<1>>, <<2>>}
TwoBytes == {<<1, 2>>}
Mixed == {<<1>>, <<2, 3>>}
=============================================================================
