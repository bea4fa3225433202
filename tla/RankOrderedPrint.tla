-------------------------- MODULE RankOrderedPrint --------------------------
(***************************************************************************)
(* The output loop shared by nonblocking_consensus, alltoall, one_sided    *)
(* and parallel_sort (in C) and nonblocking_consensus.py:                  *)
(*                                                                         *)
(*   for (proc=0; proc<numprocs; proc++)                                   *)
(*     { MPI_Barrier(MPI_COMM_WORLD); if (proc == procid) print; }         *)
(*                                                                         *)
(* Nothing orders the ranks but the barriers, one per turn, and a rank may *)
(* already wait in the next barrier while another is still in its body.    *)
(***************************************************************************)
EXTENDS Integers, Sequences

CONSTANT N       \* numprocs, at least 1

VARIABLES
  proc,    \* proc[r]: r's loop variable
  at,      \* at[r]: "loop" before the barrier, "barrier" in it, "body" after it
  out      \* the ranks whose line has been printed, in order

pvars == <<proc, at, out>>

Ranks == 0..N-1

PrintInit ==
  /\ proc = [r \in Ranks |-> 0]
  /\ at = [r \in Ranks |-> "loop"]
  /\ out = <<>>

EnterBarrier(r) ==
  /\ at[r] = "loop"
  /\ proc[r] < N
  /\ at' = [at EXCEPT ![r] = "barrier"]
  /\ UNCHANGED <<proc, out>>

\* Rank q has called the barrier of turn k.
Arrived(q, k) == proc[q] > k \/ (proc[q] = k /\ at[q] # "loop")

\* Mutant: no barrier in the loop.
LeaveAtOnce(r) ==
  /\ at[r] = "barrier"
  /\ at' = [at EXCEPT ![r] = "body"]
  /\ UNCHANGED <<proc, out>>

LeaveBarrier(r) ==
  /\ at[r] = "barrier"
  /\ \A q \in Ranks : Arrived(q, proc[r])
  /\ at' = [at EXCEPT ![r] = "body"]
  /\ UNCHANGED <<proc, out>>

Body(r) ==
  /\ at[r] = "body"
  /\ out' = IF proc[r] = r THEN Append(out, r) ELSE out
  /\ proc' = [proc EXCEPT ![r] = @ + 1]
  /\ at' = [at EXCEPT ![r] = "loop"]

PrintStep(r) == EnterBarrier(r) \/ LeaveBarrier(r) \/ Body(r)

LoopOver(r) == proc[r] = N

PrintNext == \E r \in Ranks : PrintStep(r)

PrintSpec == PrintInit /\ [][PrintNext]_pvars

(* The lines come out in the order of the ranks, each once: what the       *)
(* barriers in the loop are there for.                                     *)
PrintedInRankOrder == out = [i \in 1..Len(out) |-> i - 1]

(* A rank that has left the loop leaves it to a complete listing but for   *)
(* the last rank's line, which no barrier follows.                         *)
ListingComplete == \A r \in Ranks : LoopOver(r) => Len(out) >= N - 1
=============================================================================
