------------------------------ MODULE MCBarrier ------------------------------
(***************************************************************************)
(* Instances of Barrier for TLC.  The loop barrier of an image with        *)
(* picture and sound has three parties (decode, video, audio).             *)
(***************************************************************************)
EXTENDS Barrier, TLC

CONSTANTS decode, video, audio

Symmetry == Permutations({decode, video, audio})
=============================================================================
