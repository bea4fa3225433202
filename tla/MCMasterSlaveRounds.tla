------------------------ MODULE MCMasterSlaveRounds ------------------------
(* Runs of the two lengths 1 and 2 in turn, for the script's 1, 10 and 100. *)
EXTENDS MasterSlaveRounds

MCSlave == 1..NSlaves
MCLength == [k \in Steps |-> 1 + (k % 2)]
=============================================================================
