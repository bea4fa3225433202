------------------------ MODULE QuiescenceDetection ------------------------
(***************************************************************************)
(* What a nonblocking consensus promises, with no probe, test or barrier   *)
(* in sight.  Ranks work in rounds.  In a round a rank addresses some      *)
(* messages to others and concludes the round knowing nothing about who    *)
(* addresses messages to it.  The promise: nobody concludes a round while  *)
(* a message of that round, of any rank, is undelivered, and a message is  *)
(* delivered only to a rank that is still at work in a round no later      *)
(* than the message's own.                                                 *)
(***************************************************************************)
EXTENDS Integers

CONSTANTS
  Rank,      \* the ranks of MPI_COMM_WORLD
  NRep,      \* how many rounds are run
  Draws      \* the vectors of message counts a rank may address to the others

VARIABLES
  round,        \* round[r]: the rounds rank r has concluded
  atWork,       \* the ranks that have addressed the messages of their round
  outstanding   \* outstanding[s][d]: undelivered messages of s's round to d

vars == <<round, atWork, outstanding>>

Nothing == [d \in Rank |-> 0]

Init ==
  /\ round = [r \in Rank |-> 0]
  /\ atWork = {}
  /\ outstanding = [r \in Rank |-> Nothing]

Begin(r) ==
  /\ r \notin atWork
  /\ round[r] < NRep
  /\ atWork' = atWork \union {r}
  /\ \E v \in Draws : outstanding' = [outstanding EXCEPT ![r] = v]
  /\ UNCHANGED round

Deliver(s, d) ==
  /\ outstanding[s][d] > 0
  /\ d \in atWork
  /\ round[d] <= round[s]
  /\ outstanding' = [outstanding EXCEPT ![s][d] = @ - 1]
  /\ UNCHANGED <<round, atWork>>

\* Rank q has nothing undelivered in round k, and never will have.
Quiet(q, k) ==
  \/ round[q] > k
  \/ round[q] = k /\ q \in atWork /\ outstanding[q] = Nothing

Conclude(r) ==
  /\ r \in atWork
  /\ \A q \in Rank : Quiet(q, round[r])
  /\ round' = [round EXCEPT ![r] = @ + 1]
  /\ atWork' = atWork \ {r}
  /\ UNCHANGED outstanding

Next ==
  \/ \E r \in Rank : Begin(r) \/ Conclude(r)
  \/ \E s, d \in Rank : Deliver(s, d)

Spec == Init /\ [][Next]_vars
=============================================================================
