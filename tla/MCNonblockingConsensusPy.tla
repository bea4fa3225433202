---------------------- MODULE MCNonblockingConsensusPy ----------------------
(* The Python program on two ranks with the script's own bound on the      *)
(* number of destinations, 2*nranks.                                       *)
EXTENDS NonblockingConsensusPy, RandomInRange

MCRank == 0..nranks-1
MCDraws == PyDraws(2*nranks, MCRank)
=============================================================================
