----------------------------- MODULE AlltoallAvg -----------------------------
(***************************************************************************)
(* The averaging loop of alltoall_avg.C.  Ranks call MPI_Alltoall again    *)
(* and again.  A rank whose clock says that the time is up joins a         *)
(* nonblocking barrier, tests it once per step, and leaves the loop when   *)
(* the test succeeds, or after maxstep steps; then all ranks reduce their  *)
(* results.                                                                *)
(*                                                                         *)
(* MPI matches the collective calls of a communicator in the order of the  *)
(* calls.  Here a call of MPI_Alltoall or MPI_Allreduce returns when every *)
(* rank has made the call that has the same number and is of the same      *)
(* kind; if one is of another kind (an error in MPI) it never returns.     *)
(* MPI_Ibarrier is not counted: it has requests and calls of its own.      *)
(***************************************************************************)
EXTENDS Integers, Sequences

CONSTANTS
  Rank,
  maxstep    \* 10^5 in the program

ASSUME MaxstepAssumption == maxstep \in Nat \ {0}

VARIABLES
  pc,        \* "while", "alltoall", "test", "allreduce" (twice), "finalize"
  step,      \* the loop's counter
  late,      \* late[r]: r has seen elapsedtime_global > maxtime_global
  barrier,   \* "null", "active", or "null again" after a successful test
  all_done,  \* the flag MPI_Test sets
  calls      \* calls[r]: the kinds of blocking collectives r has called

avars == <<pc, step, late, barrier, all_done, calls>>

AvgInit ==
  /\ pc = [r \in Rank |-> "while"]
  /\ step = [r \in Rank |-> 0]
  /\ late = [r \in Rank |-> FALSE]
  /\ barrier = [r \in Rank |-> "null"]
  /\ all_done = [r \in Rank |-> FALSE]
  /\ calls = [r \in Rank |-> <<>>]

\* Call a blocking collective and wait in it.
Call(r, kind, where) ==
  /\ calls' = [calls EXCEPT ![r] = Append(@, kind)]
  /\ pc' = [pc EXCEPT ![r] = where]

\* The collective r waits in returns.
Returns(r) ==
  \A q \in Rank : /\ Len(calls[q]) >= Len(calls[r])
                  /\ calls[q][Len(calls[r])] = calls[r][Len(calls[r])]

\* Mutant: while ((step++ < maxstep) && (all_done == 0))
WhilePostIncrement(r) ==
  /\ pc[r] = "while"
  /\ step' = [step EXCEPT ![r] = @ + 1]
  /\ IF step[r] < maxstep /\ ~all_done[r]
     THEN Call(r, "Alltoall", "alltoall")
     ELSE Call(r, "Allreduce", "allreduce")
  /\ UNCHANGED <<late, barrier, all_done>>

\* while ((++step < maxstep) && (all_done == 0))
While(r) ==
  /\ pc[r] = "while"
  /\ step' = [step EXCEPT ![r] = @ + 1]
  /\ IF step'[r] < maxstep /\ ~all_done[r]
     THEN Call(r, "Alltoall", "alltoall")
     ELSE Call(r, "Allreduce", "allreduce")
  /\ UNCHANGED <<late, barrier, all_done>>

\* Mutant: MPI_Alltoall returns without the data of all ranks.
AlltoallDoneEarly(r) ==
  /\ pc[r] = "alltoall"
  /\ pc' = [pc EXCEPT ![r] = "while"]
  /\ UNCHANGED <<step, late, barrier, all_done, calls>>

\* MPI_Alltoall returns; the time is not up, by this rank's clock.
AlltoallDone(r) ==
  /\ pc[r] = "alltoall"
  /\ Returns(r)
  /\ ~late[r]
  /\ pc' = [pc EXCEPT ![r] = "while"]
  /\ UNCHANGED <<step, late, barrier, all_done, calls>>

\* MPI_Alltoall returns and the time is up, now or before; start the barrier
\* unless it is started.  The clock only goes forward.
AlltoallDoneLate(r) ==
  /\ pc[r] = "alltoall"
  /\ Returns(r)
  /\ late' = [late EXCEPT ![r] = TRUE]
  /\ barrier' = [barrier EXCEPT ![r] = IF @ = "null" THEN "active" ELSE @]
  /\ pc' = [pc EXCEPT ![r] = "test"]
  /\ UNCHANGED <<step, all_done, calls>>

\* Mutant: MPI_Test of a request that was never started succeeds at once.
TestSucceedsAlone(r) ==
  /\ pc[r] = "test"
  /\ all_done' = [all_done EXCEPT ![r] = TRUE]
  /\ barrier' = [barrier EXCEPT ![r] = "null again"]
  /\ pc' = [pc EXCEPT ![r] = "while"]
  /\ UNCHANGED <<step, late, calls>>

\* MPI_Test finds the barrier complete, which takes all ranks.
TestSucceeds(r) ==
  /\ pc[r] = "test"
  /\ \A q \in Rank : barrier[q] # "null"
  /\ all_done' = [all_done EXCEPT ![r] = TRUE]
  /\ barrier' = [barrier EXCEPT ![r] = "null again"]
  /\ pc' = [pc EXCEPT ![r] = "while"]
  /\ UNCHANGED <<step, late, calls>>

\* Mutant: MPI_Wait for MPI_Test.
NoTestFails(r) ==
  /\ pc[r] = "test"
  /\ \A q \in Rank : barrier[q] # "null"
  /\ pc' = [pc EXCEPT ![r] = "while"]
  /\ UNCHANGED <<step, late, barrier, all_done, calls>>

\* MPI_Test does not, though the last rank may just have joined.
TestFails(r) ==
  /\ pc[r] = "test"
  /\ pc' = [pc EXCEPT ![r] = "while"]
  /\ UNCHANGED <<step, late, barrier, all_done, calls>>

\* The minimum's reduction returns and the maximum's is called.
AllreduceMin(r) ==
  /\ pc[r] = "allreduce"
  /\ Returns(r)
  /\ Call(r, "Allreduce", "allreduce max")
  /\ UNCHANGED <<step, late, barrier, all_done>>

AllreduceMax(r) ==
  /\ pc[r] = "allreduce max"
  /\ Returns(r)
  /\ pc' = [pc EXCEPT ![r] = "finalize"]
  /\ UNCHANGED <<step, late, barrier, all_done, calls>>

AvgStep(r) ==
  \/ While(r)
  \/ AlltoallDone(r)
  \/ AlltoallDoneLate(r)
  \/ TestSucceeds(r)
  \/ TestFails(r)
  \/ AllreduceMin(r)
  \/ AllreduceMax(r)

AvgNext == \E r \in Rank : AvgStep(r)

AvgSpec == AvgInit /\ [][AvgNext]_avars

\* Ranks run.  Nothing is assumed of the clock or of MPI_Test.
FairAvgSpec == AvgSpec /\ \A r \in Rank : WF_avars(AvgStep(r))

-----------------------------------------------------------------------------
(* Properties.                                                             *)

InLoop(r) == pc[r] \in {"while", "alltoall", "test"}

(* Types, and the number of a rank's blocking collectives, which its step  *)
(* counts: the two reductions come one behind the other.                   *)
AvgInv ==
  /\ pc \in [Rank -> {"while", "alltoall", "test", "allreduce", "allreduce max", "finalize"}]
  /\ step \in [Rank -> 0..maxstep]
  /\ late \in [Rank -> BOOLEAN]
  /\ barrier \in [Rank -> {"null", "active", "null again"}]
  /\ all_done \in [Rank -> BOOLEAN]
  /\ calls \in [Rank -> Seq({"Alltoall", "Allreduce"})]
  /\ \A r \in Rank : Len(calls[r]) = IF pc[r] \in {"allreduce max", "finalize"}
                                     THEN step[r] + 1 ELSE step[r]

(* A rank gives up for lack of time only when the clocks of all ranks say  *)
(* that the time is up.                                                    *)
StopsOnlyWhenAllLate == \A r, q \in Rank : all_done[r] => late[q]

(* Ranks that leave the loop leave it with the same number of steps, so    *)
(* that the averages are averages over the same steps; and no rank is more *)
(* than a step ahead of another one.                                       *)
LeaversAgree ==
  \A r, q \in Rank :
    /\ ~InLoop(r) /\ ~InLoop(q) => step[r] = step[q]
    /\ step[r] <= step[q] + 1

\* Two ranks wait in different collectives that MPI takes for the same.
Split ==
  \E r, q \in Rank :
    /\ pc[r] = "allreduce" /\ pc[q] = "alltoall"
    /\ Len(calls[r]) = Len(calls[q])

(* The loop ends for all ranks, or some have left it in a step in which    *)
(* others have not: nothing else keeps the program from finishing.         *)
FinishOrSplit == <>(Split \/ \A r \in Rank : pc[r] = "finalize")

(* The collectives of all ranks are the same in the same order.  The loop  *)
(* needs it, as it tests for the end of the time with a call that may      *)
(* succeed on one rank and not yet on another one.                         *)
CollectivesMatch ==
  \A r, q \in Rank : \A i \in 1..Len(calls[r]) :
    i <= Len(calls[q]) => calls[r][i] = calls[q][i]
=============================================================================
