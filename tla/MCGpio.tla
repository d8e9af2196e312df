-------------------------------- MODULE MCGpio --------------------------------
(***************************************************************************)
(* Instances of a GPIO chip for TLC: lines are model values.               *)
(***************************************************************************)
EXTENDS Gpio
=============================================================================
