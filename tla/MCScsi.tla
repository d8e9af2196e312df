-------------------------------- MODULE MCScsi --------------------------------
(***************************************************************************)
(* One image of one block, and a guest that writes it, for TLC.            *)
(***************************************************************************)
EXTENDS Scsi

OneImage == <<1>>
Write ==
  [op |-> "Write10", addr |-> "unit", lun |-> 1, short |-> FALSE, odd |-> "no field",
   naca |-> FALSE, alloc |-> 0, room |-> 9, lba |-> 0, n |-> 1, fua |-> FALSE, val |-> 1,
   anchor |-> FALSE, page |-> "standard", rctd |-> FALSE, mode |-> "all", code |-> "Read10",
   action |-> FALSE]
OneWrite == {[Write EXCEPT !.val = v] : v \in ScsiValues}
=============================================================================
