-------------------------- MODULE MCMasterSlaveIO --------------------------
(* Runs of two lengths; the script's own are all of length 10^4, a hundredth *)
(* of a slot.                                                              *)
EXTENDS MasterSlaveIO

MCLength == [k \in Steps |-> 1 + (k % Slot)]
=============================================================================
