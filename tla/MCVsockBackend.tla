---------------------------- MODULE MCVsockBackend ----------------------------
(***************************************************************************)
(* Instances of the backend of one guest for TLC.  The streams are         *)
(* interchangeable: none is named, and only the safety runs use that.      *)
(***************************************************************************)
EXTENDS VsockBackend, TLC

StreamSymmetry == Permutations(Streams)
=============================================================================
