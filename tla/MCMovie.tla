------------------------------ MODULE MCMovie ------------------------------
(***************************************************************************)
(* A movie of two groups of three pictures for TLC, with the sound of a    *)
(* frame behind its picture.  A seek to frame 2, 5 or 6 has to decode its  *)
(* group from the key frame on, which is 1 or 4.                           *)
(***************************************************************************)
EXTENDS Movie

Picture(n, isKey) == [stream |-> "video", frame |-> n, key |-> isKey]
Samples(n) == [stream |-> "audio", frame |-> n, key |-> FALSE]

TwoGroups ==
  << Picture(1, TRUE), Samples(1), Picture(2, FALSE), Samples(2),
     Picture(3, FALSE), Samples(3), Picture(4, TRUE), Samples(4),
     Picture(5, FALSE), Samples(5), Picture(6, FALSE), Samples(6) >>
==============================================================================
