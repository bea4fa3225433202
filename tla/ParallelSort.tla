---------------------------- MODULE ParallelSort ----------------------------
(***************************************************************************)
(* parallel_sort.c: the sample sort of distributed data and the check for  *)
(* duplicates built on it.  Every rank contributes samples, all ranks pick *)
(* the same pivots from them, each cuts its data at the pivots and sends   *)
(* piece i to rank i, which sorts what it gets.  Duplicates are then       *)
(* looked for on each rank alone: that is enough if equal numbers always   *)
(* meet on one rank.                                                       *)
(*                                                                         *)
(* The allgathers and the allreduce return on a rank when all ranks have   *)
(* called them; ranks run at their own pace in between.  C arrays start at *)
(* 0, the sequences here at 1.                                             *)
(***************************************************************************)
EXTENDS Integers, Sequences, FiniteSets, Functions, Offsets

CONSTANTS
  size,      \* the number of ranks
  N,         \* 5000 / size, the numbers of a rank
  Values     \* what rand() returns

ASSUME SortAssumption ==
  size \in Nat \ {0} /\ N \in Nat \ {0, 1} /\ Values \subseteq Int

Rank == 0..size-1

VARIABLES
  pc,                 \* the collective a rank is in or goes to
  input,              \* input[r]: the numbers of r before parallel_sort
  v,                  \* v[r]: the array, cut in place
  samples,            \* samples[r]: what r draws and contributes
  local_pivots,       \* local_pivots[r]: the pivots r picks from all samples
  local_block_sizes,  \* local_block_sizes[r]: the sizes of r's pieces
  v2,                 \* v2[r]: what r receives, sorted
  i_have_dups,
  global_dups

psvars == <<pc, input, v, samples, local_pivots, local_block_sizes, v2,
            i_have_dups, global_dups>>

\* The last rank makes two of its numbers equal: v[0] = v[1].
Filled == {f \in [Rank -> [1..N -> Values]] : f[size-1][1] = f[size-1][2]}

SortInit ==
  /\ input \in Filled
  /\ v = input
  /\ pc = [r \in Rank |-> "sample"]
  /\ samples = [r \in Rank |-> <<>>]
  /\ local_pivots = [r \in Rank |-> <<>>]
  /\ local_block_sizes = [r \in Rank |-> <<>>]
  /\ v2 = [r \in Rank |-> <<>>]
  /\ i_have_dups = [r \in Rank |-> 0]
  /\ global_dups = [r \in Rank |-> 0]

\* The k-th of the sorted numbers: fewer than k are smaller, k or more are not
\* larger.
qsort(s) ==
  LET Smaller(x) == Cardinality({i \in DOMAIN s : s[i] < x})
      UpTo(x)    == Cardinality({i \in DOMAIN s : s[i] <= x})
  IN  [k \in 1..Len(s) |-> CHOOSE x \in Range(s) : Smaller(x) < k /\ k <= UpTo(x)]

-----------------------------------------------------------------------------
(* Cutting an array.                                                       *)

Swap(s, i, j) == [s EXCEPT ![i] = s[j], ![j] = s[i]]

\* An array, and where the part of it begins that is still to be cut.
Cuts == [data : [1..N -> Int], first : 1..N+1]

\* Mutant: the loop takes numbers equal to the pivot for smaller ones.
partitionNotAbove(pivot) == [c \in Cuts |->
  LET NotAbove(i) == [d \in Cuts |->
        IF d.data[i] <= pivot
        THEN [data |-> Swap(d.data, i, d.first), first |-> d.first + 1]
        ELSE d]
      loop[i \in c.first-1..N] == IF i = c.first-1 THEN c ELSE NotAbove(i)[loop[i-1]]
  IN  loop[N]]

\* The body of the loop in partition, for the i-th number.
Turn(i, pivot) == [d \in Cuts |->
  IF d.data[i] < pivot
  THEN [data |-> Swap(d.data, i, d.first), first |-> d.first + 1]
  ELSE d]

\* Swap every number below the pivot to the front of the part to be cut; the
\* result is the array and where the others begin.  (The numbers the first
\* loop of the code skips are swapped with themselves here.)
partition(pivot) == [c \in Cuts |->
  LET loop[i \in c.first-1..N] == IF i = c.first-1 THEN c ELSE Turn(i, pivot)[loop[i-1]]
  IN  loop[N]]

\* Cut s at every pivot in turn, each time from where the last cut ended; the
\* result has the array and the sizes of the pieces.
Cut(s, pivots) ==
  LET pivot_pos[i \in 0..size-1] ==
        IF i = 0 THEN [data |-> s, first |-> 1] ELSE partition(pivots[i])[pivot_pos[i-1]]
      Ends(i) == IF i = size THEN N + 1 ELSE pivot_pos[i].first
  IN  [data  |-> pivot_pos[size-1].data,
       sizes |-> [i \in 1..size |-> Ends(i) - pivot_pos[i-1].first]]

-----------------------------------------------------------------------------

\* size-1 samples of the local numbers, drawn with repetition.
Sample(r) ==
  /\ pc[r] = "sample"
  /\ \E draw \in [1..size-1 -> 1..N] :
       samples' = [samples EXCEPT ![r] = [i \in 1..size-1 |-> v[r][draw[i]]]]
  /\ pc' = [pc EXCEPT ![r] = "allgather pivots"]
  /\ UNCHANGED <<input, v, local_pivots, local_block_sizes, v2, i_have_dups, global_dups>>

\* The samples of all ranks, as MPI_Allgather puts them together.
Gathered ==
  [k \in 1..size*(size-1) |-> samples[(k-1) \div (size-1)][((k-1) % (size-1)) + 1]]

\* Every (size-1)-th of the sorted samples but the first.
PickedFrom(pivots) == [i \in 1..size-1 |-> pivots[i * (size-1) + 1]]

\* Mutant: without the allgather, every rank cuts at its own samples.
CutAtOwnSamples(r) ==
  /\ pc[r] = "allgather pivots"
  /\ \E picked \in {qsort(samples[r])} :
       /\ local_pivots' = [local_pivots EXCEPT ![r] = picked]
       /\ \E c \in {Cut(v[r], picked)} :
            /\ v' = [v EXCEPT ![r] = c.data]
            /\ local_block_sizes' = [local_block_sizes EXCEPT ![r] = c.sizes]
  /\ pc' = [pc EXCEPT ![r] = "allgather blocks"]
  /\ UNCHANGED <<input, samples, v2, i_have_dups, global_dups>>

\* The first allgather returns, and the rank picks pivots and cuts its array.
CutLocal(r) ==
  /\ pc[r] = "allgather pivots"
  /\ \A q \in Rank : pc[q] # "sample"
  /\ \E picked \in {PickedFrom(qsort(Gathered))} :
       /\ local_pivots' = [local_pivots EXCEPT ![r] = picked]
       /\ \E c \in {Cut(v[r], picked)} :
            /\ v' = [v EXCEPT ![r] = c.data]
            /\ local_block_sizes' = [local_block_sizes EXCEPT ![r] = c.sizes]
  /\ pc' = [pc EXCEPT ![r] = "allgather blocks"]
  /\ UNCHANGED <<input, samples, v2, i_have_dups, global_dups>>

\* The second allgather returns; counts and displacements follow from it.
Counted(r) ==
  /\ pc[r] = "allgather blocks"
  /\ \A q \in Rank : pc[q] \notin {"sample", "allgather pivots"}
  /\ pc' = [pc EXCEPT ![r] = "alltoallv"]
  /\ UNCHANGED <<input, v, samples, local_pivots, local_block_sizes, v2,
                 i_have_dups, global_dups>>

\* What q sends to rank i: sendcounts[i] numbers from sdispls[i].
Piece(q, i) ==
  LET sdispl == Before(local_block_sizes[q], i+1)
  IN  SubSeq(v[q], sdispl + 1, sdispl + local_block_sizes[q][i+1])

\* The pieces for r, in the order of the ranks that send them.
Received(r) ==
  LET upto[n \in 0..size] == IF n = 0 THEN <<>> ELSE upto[n-1] \o Piece(n-1, r)
  IN  upto[size]

\* MPI_Alltoallv returns once the ranks that have something for r have called
\* it; it need not wait for the others.
Redistribute(r) ==
  /\ pc[r] = "alltoallv"
  /\ \A q \in Rank : local_block_sizes[q][r+1] > 0 => pc[q] # "allgather blocks"
  /\ v2' = [v2 EXCEPT ![r] = qsort(Received(r))]
  /\ pc' = [pc EXCEPT ![r] = "check"]
  /\ UNCHANGED <<input, v, samples, local_pivots, local_block_sizes, i_have_dups, global_dups>>

\* Mutant: "i<v.N-1".
is_unique_but_last(s) == \A i \in 2..Len(s)-1 : s[i] # s[i-1]

is_unique(s) == \A i \in 2..Len(s) : s[i] # s[i-1]

CheckUnique(r) ==
  /\ pc[r] = "check"
  /\ i_have_dups' = [i_have_dups EXCEPT ![r] = IF is_unique(v2[r]) THEN 0 ELSE 1]
  /\ pc' = [pc EXCEPT ![r] = "allreduce"]
  /\ UNCHANGED <<input, v, samples, local_pivots, local_block_sizes, v2, global_dups>>

\* Mutant: the allreduce is only called by ranks that have duplicates.
ReduceWithDups(r) ==
  /\ pc[r] = "allreduce"
  /\ \A q \in Rank : pc[q] \in {"allreduce", "print"} /\ i_have_dups[q] = 1
  /\ global_dups' = [global_dups EXCEPT ![r] = 1]
  /\ pc' = [pc EXCEPT ![r] = "print"]
  /\ UNCHANGED <<input, v, samples, local_pivots, local_block_sizes, v2, i_have_dups>>

\* MPI_Allreduce with MPI_MAX; what follows only prints.
Reduce(r) ==
  /\ pc[r] = "allreduce"
  /\ \A q \in Rank : pc[q] \in {"allreduce", "print"}
  /\ global_dups' = [global_dups EXCEPT ![r] =
                       IF \E q \in Rank : i_have_dups[q] = 1 THEN 1 ELSE 0]
  /\ pc' = [pc EXCEPT ![r] = "print"]
  /\ UNCHANGED <<input, v, samples, local_pivots, local_block_sizes, v2, i_have_dups>>

SortStep(r) ==
  \/ Sample(r)
  \/ CutLocal(r)
  \/ Counted(r)
  \/ Redistribute(r)
  \/ CheckUnique(r)
  \/ Reduce(r)

AllPrint == \A r \in Rank : pc[r] = "print"

SortTerminating == AllPrint /\ UNCHANGED psvars

SortNext == (\E r \in Rank : SortStep(r)) \/ SortTerminating

SortSpec == SortInit /\ [][SortNext]_psvars

\* Ranks run, and a collective that all have called returns.
FairSortSpec == SortSpec /\ \A r \in Rank : WF_psvars(SortStep(r))

-----------------------------------------------------------------------------
(* Properties.                                                             *)

\* How often x occurs in the sequences of all ranks.
Count(a, x) ==
  Cardinality(UNION {{<<r, i>> : i \in {j \in DOMAIN a[r] : a[r][j] = x}} : r \in Rank})

(* Every rank cuts at the same pivots, whichever of its numbers are below, *)
(* equal or above: piece i has the numbers from pivot i-1 up to, not with, *)
(* pivot i, so that equal numbers of all ranks are in the same piece.      *)
PiecesBetweenPivots ==
  \A r \in Rank : local_block_sizes[r] # <<>> =>
    \A i, q \in Rank : \A x \in Range(Piece(r, i)) :
      local_pivots[q] # <<>> =>
        /\ i > 0 => local_pivots[q][i] <= x
        /\ i < size - 1 => x < local_pivots[q][i+1]

(* The data ends up sorted across the ranks, and it is the data there was, *)
(* with every number as often as before.                                   *)
SortsTheData ==
  AllPrint =>
    /\ \A q, r \in Rank : \A i \in DOMAIN v2[q], j \in DOMAIN v2[r] :
         (q < r \/ (q = r /\ i < j)) => v2[q][i] <= v2[r][j]
    /\ \A x \in Values : Count(v2, x) = Count(input, x)

(* The duplicates of the whole data are the duplicates that single ranks   *)
(* find, and all ranks come to the same conclusion.                        *)
FindsAllDuplicates ==
  AllPrint =>
    /\ \A r \in Rank : i_have_dups[r] = 1 <=>
         \E x \in Range(v2[r]) : Count(input, x) > 1
    /\ \A r \in Rank : global_dups[r] = 1 <=> \E x \in Values : Count(input, x) > 1

(* Every rank gets through the four collectives.                           *)
SortTerminates == <>AllPrint
=============================================================================
