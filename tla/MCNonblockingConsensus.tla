----------------------- MODULE MCNonblockingConsensus -----------------------
(* The C++ program on a small world; main's bound of five destinations is  *)
(* scaled to Five so that the destination sets really differ.              *)
EXTENDS NonblockingConsensus, RandomInRange

CONSTANT Five

MCDraws == CppDraws(Five, Rank)
=============================================================================
