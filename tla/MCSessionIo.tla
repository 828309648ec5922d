----------------------------- MODULE MCSessionIo -----------------------------
(* Instances of SessionIo for TLC.                                          *)
EXTENDS SessionIo

\* Lengths from nothing to one more than the limit, and one that does not parse.
Messages == {<<>>, <<1, 0>>, <<1>>, <<0, 0, 0>>}
DoNotParse == {<<1>>}

UpTo2 == UNION {[1..n -> Messages] : n \in 0..2}

==============================================================================
