------------------------ MODULE NonblockingConsensus ------------------------
(***************************************************************************)
(* nonblocking_consensus.C: every rank sends to a few ranks nobody else    *)
(* knows of.  It posts synchronous sends, then loops: probe for a message  *)
(* and receive it; once all its own sends are matched enter a nonblocking  *)
(* barrier; once in the barrier test it; leave when the test succeeds.     *)
(* The exchange is repeated NRep times with the same destinations and the  *)
(* same tag, and nothing but the barrier separates the repetitions.        *)
(*                                                                         *)
(* What MPI is assumed to do (external, from the calls the code makes):    *)
(*  - an Issend completes only after its receive has started, so a send is *)
(*    complete exactly when it is no longer counted in pending;            *)
(*  - the k-th Ibarrier completes only after every rank has called it;     *)
(*  - MPI_Iprobe, MPI_Testall and MPI_Test may report "not yet" for a      *)
(*    message in transit or an operation that has just completed, but do   *)
(*    not do so for ever (the progress rule; see Fairness).                *)
(***************************************************************************)
EXTENDS Integers, Functions

CONSTANTS
  Rank,      \* 0 .. numprocs-1; no arithmetic is done on ranks here
  NRep,      \* nrep, the command line's -n
  Draws      \* the destination vectors random_in_range may return

ASSUME NRepAssumption == NRep \in Nat
ASSUME DrawsAssumption == Draws \subseteq [Rank -> Nat]

VARIABLES
  dests,     \* dests[s][d]: messages s sends to d in each repetition
  pc,        \* "send", then "probe"/"test" in turn, then "report"
  cnt,       \* cnt[r]: the repetition r is in
  pending,   \* pending[s][d]: Issends of s to d not yet matched by a receive
  recvd,     \* recvd[r][s]: the part of r's recv_cnt that came from s
  barrier    \* barrier[r]: r's request is not MPI_REQUEST_NULL

vars == <<dests, pc, cnt, pending, recvd, barrier>>

None == [d \in Rank |-> 0]

Init ==
  /\ dests \in [Rank -> Draws]
  /\ cnt = [r \in Rank |-> 0]
  /\ pc = [r \in Rank |-> IF NRep = 0 THEN "report" ELSE "send"]
  /\ pending = [r \in Rank |-> None]
  /\ recvd = [r \in Rank |-> None]
  /\ barrier = [r \in Rank |-> FALSE]

-----------------------------------------------------------------------------
(* One repetition of one rank.                                             *)

\* recv_cnt and the barrier request are reset and all sends are posted.
StartSends(r) ==
  /\ pc[r] = "send"
  /\ pending' = [pending EXCEPT ![r] = dests[r]]
  /\ recvd' = [recvd EXCEPT ![r] = None]
  /\ barrier' = [barrier EXCEPT ![r] = FALSE]
  /\ pc' = [pc EXCEPT ![r] = "probe"]
  /\ UNCHANGED <<dests, cnt>>

\* Mutant: the loop stops probing once its own barrier is entered.
ReceiveOutsideBarrier(r) ==
  /\ pc[r] = "probe"
  /\ ~barrier[r]
  /\ \E s \in Rank :
       /\ pending[s][r] > 0
       /\ pending' = [pending EXCEPT ![s][r] = @ - 1]
       /\ recvd' = [recvd EXCEPT ![r][s] = @ + 1]
  /\ pc' = [pc EXCEPT ![r] = "test"]
  /\ UNCHANGED <<dests, cnt, barrier>>

\* Iprobe sees a message, Recv from MPI_ANY_SOURCE takes one that is there.
\* The tag is the same in every repetition, so the sender's is not looked at.
Receive(r) ==
  /\ pc[r] = "probe"
  /\ \E s \in Rank :
       /\ pending[s][r] > 0
       /\ pending' = [pending EXCEPT ![s][r] = @ - 1]
       /\ recvd' = [recvd EXCEPT ![r][s] = @ + 1]
  /\ pc' = [pc EXCEPT ![r] = "test"]
  /\ UNCHANGED <<dests, cnt, barrier>>

\* Iprobe sees nothing, although a message may be on its way.
ProbeMiss(r) ==
  /\ pc[r] = "probe"
  /\ pc' = [pc EXCEPT ![r] = "test"]
  /\ UNCHANGED <<dests, cnt, pending, recvd, barrier>>

\* Mutant: Isend for Issend, which is complete before it is received.
AllBuffered(r) ==
  /\ pc[r] = "test"
  /\ ~barrier[r]
  /\ barrier' = [barrier EXCEPT ![r] = TRUE]
  /\ pc' = [pc EXCEPT ![r] = "probe"]
  /\ UNCHANGED <<dests, cnt, pending, recvd>>

\* Mutant: Testany for Testall.
AnySent(r) ==
  /\ pc[r] = "test"
  /\ ~barrier[r]
  /\ \E d \in Rank : pending[r][d] < dests[r][d]
  /\ barrier' = [barrier EXCEPT ![r] = TRUE]
  /\ pc' = [pc EXCEPT ![r] = "probe"]
  /\ UNCHANGED <<dests, cnt, pending, recvd>>

\* Testall succeeds: every send is matched, so join the barrier.
AllSent(r) ==
  /\ pc[r] = "test"
  /\ ~barrier[r]
  /\ pending[r] = None
  /\ barrier' = [barrier EXCEPT ![r] = TRUE]
  /\ pc' = [pc EXCEPT ![r] = "probe"]
  /\ UNCHANGED <<dests, cnt, pending, recvd>>

\* The rank's Ibarrier of repetition k has been called.
Entered(q, k) == cnt[q] > k \/ (cnt[q] = k /\ barrier[q])

\* Mutant: leave the loop on having entered the barrier, without testing it.
OwnBarrierDone(r) ==
  /\ pc[r] = "test"
  /\ barrier[r]
  /\ barrier' = [barrier EXCEPT ![r] = FALSE]
  /\ cnt' = [cnt EXCEPT ![r] = @ + 1]
  /\ pc' = [pc EXCEPT ![r] = IF cnt[r] + 1 < NRep THEN "send" ELSE "report"]
  /\ UNCHANGED <<dests, pending, recvd>>

\* Mutant: the end of the repetition leaves the request and the flag set.
BarrierNotReset(r) ==
  /\ pc[r] = "test"
  /\ barrier[r]
  /\ \A q \in Rank : Entered(q, cnt[r])
  /\ cnt' = [cnt EXCEPT ![r] = @ + 1]
  /\ pc' = [pc EXCEPT ![r] = IF cnt[r] + 1 < NRep THEN "send" ELSE "report"]
  /\ UNCHANGED <<dests, pending, recvd, barrier>>

\* Test on the barrier succeeds: the repetition is over for this rank.
BarrierDone(r) ==
  /\ pc[r] = "test"
  /\ barrier[r]
  /\ \A q \in Rank : Entered(q, cnt[r])
  /\ barrier' = [barrier EXCEPT ![r] = FALSE]
  /\ cnt' = [cnt EXCEPT ![r] = @ + 1]
  /\ pc' = [pc EXCEPT ![r] = IF cnt[r] + 1 < NRep THEN "send" ELSE "report"]
  /\ UNCHANGED <<dests, pending, recvd>>

\* Testall, or Test on the barrier, reports "not yet".
TestMiss(r) ==
  /\ pc[r] = "test"
  /\ pc' = [pc EXCEPT ![r] = "probe"]
  /\ UNCHANGED <<dests, cnt, pending, recvd, barrier>>

Step(r) ==
  \/ StartSends(r)
  \/ Receive(r)
  \/ ProbeMiss(r)
  \/ AllSent(r)
  \/ BarrierDone(r)
  \/ TestMiss(r)

Finished == \A r \in Rank : pc[r] = "report"

Terminating == Finished /\ UNCHANGED vars

Next == (\E r \in Rank : Step(r)) \/ Terminating

\* What brings the exchange forward, as opposed to another turn of the loop.
Advance(r) == Receive(r) \/ AllSent(r) \/ BarrierDone(r)

\* Every rank keeps running, and probes and tests that could succeed again and
\* again do so in the end: MPI's progress rule for repeated calls.
Fairness == \A r \in Rank : WF_vars(Step(r)) /\ SF_vars(Advance(r))

Spec == Init /\ [][Next]_vars

FairSpec == Spec /\ Fairness

-----------------------------------------------------------------------------
(* Properties.                                                             *)

\* The value printed as "received recv_cnt values".
recv_cnt(r) == SumFunction(recvd[r])

\* How many messages the ranks address to r in one repetition.
Addressed(r) == SumFunction([s \in Rank |-> dests[s][r]])

TypeOK ==
  /\ dests \in [Rank -> Draws]
  /\ pc \in [Rank -> {"send", "probe", "test", "report"}]
  /\ cnt \in [Rank -> 0..NRep]
  /\ pending \in [Rank -> [Rank -> Nat]]
  /\ recvd \in [Rank -> [Rank -> Nat]]
  /\ barrier \in [Rank -> BOOLEAN]

(* A rank outside the loop of its repetition has no barrier request, and   *)
(* one that is not in the loop, or is in the barrier, has no open send.    *)
LocalInv ==
  \A r \in Rank :
    /\ pc[r] \in {"send", "report"} => ~barrier[r] /\ pending[r] = None
    /\ barrier[r] => pending[r] = None
    /\ pc[r] = "report" <=> cnt[r] = NRep

(* Whoever concluded a repetition saw every rank enter its barrier.        *)
BarrierInv ==
  \A r, q \in Rank : cnt[r] > 0 => Entered(q, cnt[r] - 1)

IInv == TypeOK /\ LocalInv /\ BarrierInv

(* The consensus: once any rank has left repetition k, no rank has an      *)
(* unreceived message of repetition k.  The code relies on it to leave the *)
(* loop without knowing how many messages it was sent: none waits for a    *)
(* rank that has stopped receiving.                                        *)
NoSendOutlivesRepetition ==
  \A r, s, d \in Rank : cnt[r] > cnt[s] => pending[s][d] = 0

(* A receive takes a message of the receiver's own repetition or of the    *)
(* next one, never an older one: the ranks drift by one repetition at most *)
(* although nothing but the nonblocking barrier holds them together.       *)
ReceivesFromThisOrNextRepetition ==
  [][\A r, s \in Rank :
       pending'[s][r] < pending[s][r] => cnt[s] - cnt[r] \in {0, 1}]_vars

(* Every rank gets through all repetitions: neither the loop without a     *)
(* count nor a message taken early by the previous repetition blocks it.   *)
Termination == <>Finished

(* When the exchange is over each rank has counted the messages addressed  *)
(* to it.  mpi4py/nonblocking_consensus.py:104 asserts it of the same      *)
(* algorithm; the C++ program prints the count as "received".              *)
CountsWhatWasSent ==
  \A r \in Rank : pc[r] = "report" => recv_cnt(r) = Addressed(r)

\* The program implements the detection of quiescence, round by round.
Detection == INSTANCE QuiescenceDetection WITH
  round <- cnt,
  atWork <- {r \in Rank : pc[r] \in {"probe", "test"}},
  outstanding <- pending

ImplementsDetection == Detection!Spec
=============================================================================
