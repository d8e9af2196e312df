----------------------------- MODULE MCVsockFlow -----------------------------
(***************************************************************************)
(* Instances of one connection for TLC.  Every run names all bounds in its *)
(* configuration; the counters wrap after a few bytes.                     *)
(***************************************************************************)
EXTENDS VsockFlow
=============================================================================
