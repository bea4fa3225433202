--------------------------- MODULE RandomInRange ---------------------------
(***************************************************************************)
(* The two random choices of destinations, as the sets of their possible   *)
(* results.  A result is a vector: how many messages go to each rank.      *)
(***************************************************************************)
EXTENDS Integers, FiniteSets, Functions

\* random_in_range.C: draw values below nmax into a set until it has nentries
\* of them (it never returns when nentries exceeds the number of ranks).
random_in_range(nentries, Rank) ==
  {v \in [Rank -> {0, 1}] : SumFunction(v) = nentries}

\* main's use of it: five destinations, or every rank of a smaller world.
CppDraws(five, Rank) ==
  LET numprocs == Cardinality(Rank)
  IN  random_in_range(IF five < numprocs THEN five ELSE numprocs, Rank)

\* nonblocking_consensus.py: nentries draws with repetition.
random_rank_in_range(nentries, Rank) ==
  {v \in [Rank -> 0..nentries] : SumFunction(v) = nentries}

\* randint(0, 2*nranks) of them.
PyDraws(most, Rank) == UNION {random_rank_in_range(n, Rank) : n \in 0..most}
=============================================================================
