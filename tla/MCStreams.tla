------------------------------- MODULE MCStreams -------------------------------
(* Streams on small instances: the first client sends packets of 2, 3, 5   *)
(* and 2 bytes, with a buffer as long as the longest; the other a login of *)
(* 5 bytes and moves of 3, 2 and 2 in a buffer of 8.                       *)
EXTENDS Streams

MCStart == <<0, 2, 5, 10, 12>>
MCLStart == <<0, 5, 8, 10, 12>>
=============================================================================
