----------------------- MODULE NonblockingConsensusPy -----------------------
(***************************************************************************)
(* nonblocking_consensus.py: the same exchange, run once, between two      *)
(* checks the C++ program does not make.  Before it an allreduce tells     *)
(* every rank how many messages it will be sent (send_map); after it each  *)
(* rank asserts that it received that many.  The exchange itself is        *)
(* NonblockingConsensus with one repetition; the loops that print before   *)
(* and after it are two RankOrderedPrint.                                  *)
(***************************************************************************)
EXTENDS NonblockingConsensus, Sequences

CONSTANT nranks

ASSUME RankAssumption == nranks \in Nat \ {0} /\ Rank = 0..nranks-1
ASSUME OneRepetition == NRep = 1

VARIABLES
  stage,             \* stage[r]: the part of nonblocking_consensus() r is in
  send_map,          \* send_map[r]: r's copy of the counts
  sproc, sat, sout,  \* the loop that prints the start messages
  eproc, eat, eout   \* the loop that prints the end messages

StartMsg == INSTANCE RankOrderedPrint
  WITH N <- nranks, proc <- sproc, at <- sat, out <- sout
EndMsg == INSTANCE RankOrderedPrint
  WITH N <- nranks, proc <- eproc, at <- eat, out <- eout

printing == <<sproc, sat, sout, eproc, eat, eout>>
pyvars == <<vars, stage, send_map, printing>>

Stages == {"start", "allreduce", "print start", "exchange", "reduce steps",
           "print end", "AssertionError"}

PyInit ==
  /\ Init
  /\ StartMsg!PrintInit
  /\ EndMsg!PrintInit
  /\ stage = [r \in Rank |-> "start"]
  /\ send_map = [r \in Rank |-> None]

Goto(r, from, to) ==
  /\ stage[r] = from
  /\ stage' = [stage EXCEPT ![r] = to]

\* Mutant: "send_map[dests] = 1", which counts a repeated destination once.
DistinctSends(r) == [d \in Rank |-> IF dests[r][d] > 0 THEN 1 ELSE 0]

\* "for dest in dests: send_map[dest] += 1".
Contribution(r) == dests[r]

\* Count the destinations and call allreduce(send_map, SUM).
CountSends(r) ==
  /\ Goto(r, "start", "allreduce")
  /\ send_map' = [send_map EXCEPT ![r] = Contribution(r)]
  /\ UNCHANGED <<vars, printing>>

\* Mutant: reduce to rank 0 only; the others keep their own counts.
SendMapAtRootOnly(r) ==
  /\ Goto(r, "allreduce", "print start")
  /\ \A q \in Rank : stage[q] # "start"
  /\ send_map' = IF r # 0 THEN send_map ELSE
       [send_map EXCEPT ![r] =
          [d \in Rank |-> SumFunction([s \in Rank |-> Contribution(s)[d]])]]
  /\ UNCHANGED <<vars, printing>>

\* The allreduce returns once every rank has called it; it adds up what the
\* ranks contributed.
SendMapKnown(r) ==
  /\ Goto(r, "allreduce", "print start")
  /\ \A q \in Rank : stage[q] # "start"
  /\ send_map' = [send_map EXCEPT ![r] =
                    [d \in Rank |-> SumFunction([s \in Rank |-> Contribution(s)[d]])]]
  /\ UNCHANGED <<vars, printing>>

PrintStart(r) ==
  /\ stage[r] = "print start"
  /\ StartMsg!PrintStep(r)
  /\ UNCHANGED <<vars, stage, send_map, eproc, eat, eout>>

StartExchange(r) ==
  /\ Goto(r, "print start", "exchange")
  /\ StartMsg!LoopOver(r)
  /\ UNCHANGED <<vars, printing, send_map>>

Exchange(r) ==
  /\ stage[r] = "exchange"
  /\ Step(r)
  /\ UNCHANGED <<printing, stage, send_map>>

\* assert recv_cnt == send_map[rank], then call allreduce(recv_loop, MAX).
CheckCount(r) ==
  /\ pc[r] = "report"
  /\ Goto(r, "exchange", IF recv_cnt(r) = send_map[r][r]
                         THEN "reduce steps" ELSE "AssertionError")
  /\ UNCHANGED <<vars, printing, send_map>>

MaxStepsKnown(r) ==
  /\ Goto(r, "reduce steps", "print end")
  /\ \A q \in Rank : stage[q] \in {"reduce steps", "print end"}
  /\ UNCHANGED <<vars, printing, send_map>>

PrintEnd(r) ==
  /\ stage[r] = "print end"
  /\ EndMsg!PrintStep(r)
  /\ UNCHANGED <<vars, stage, send_map, sproc, sat, sout>>

PyStep(r) ==
  \/ CountSends(r)
  \/ SendMapKnown(r)
  \/ PrintStart(r)
  \/ StartExchange(r)
  \/ Exchange(r)
  \/ CheckCount(r)
  \/ MaxStepsKnown(r)
  \/ PrintEnd(r)

Returned(r) == stage[r] = "print end" /\ EndMsg!LoopOver(r)

PyTerminating == (\A r \in Rank : Returned(r)) /\ UNCHANGED pyvars

PyNext == (\E r \in Rank : PyStep(r)) \/ PyTerminating

\* As in NonblockingConsensus: ranks run, and repeated calls make progress.
PyFairness ==
  \A r \in Rank :
    /\ WF_pyvars(PyStep(r))
    /\ SF_pyvars(stage[r] = "exchange" /\ Advance(r)
                 /\ UNCHANGED <<printing, stage, send_map>>)

PySpec == PyInit /\ [][PyNext]_pyvars

FairPySpec == PySpec /\ PyFairness

-----------------------------------------------------------------------------
(* Properties.                                                             *)

PyTypeOK ==
  /\ TypeOK
  /\ stage \in [Rank -> Stages]
  /\ DOMAIN send_map = Rank

(* A rank is in the exchange exactly between the announcement and the      *)
(* assertion, and send_map then holds the sums over all ranks.             *)
StageInv ==
  \A r \in Rank :
    /\ stage[r] \in {"start", "allreduce", "print start"} => pc[r] = "send"
    /\ stage[r] \notin {"start", "allreduce"} =>
         send_map[r] = [d \in Rank |-> Addressed(d)]

(* Every message is accounted for: one that s has posted to r is counted   *)
(* by r or still open, and nobody counts before it has begun itself.       *)
Accounting ==
  \A r, s \in Rank :
    /\ pc[s] = "send" => recvd[r][s] = 0
    /\ pc[s] # "send" => recvd[r][s] + pending[s][r] = dests[s][r]
    /\ pc[r] = "send" => recvd[r] = None

PyInv == PyTypeOK /\ StageInv /\ Accounting

(* "assert recv_cnt == send_map[rank]" does not fire: the exchange, which  *)
(* stops without being told how much to expect, stops having received all  *)
(* that the ranks together announced beforehand.                           *)
NoAssertionError == \A r \in Rank : stage[r] # "AssertionError"

(* Source by source, when a rank has left the loop it has received exactly *)
(* what each rank sent it, repeated destinations included.                 *)
ReceivedEverything ==
  \A r \in Rank : pc[r] = "report" => recvd[r] = [s \in Rank |-> dests[s][r]]

(* The start messages of all ranks precede every message of the exchange,  *)
(* and the end messages follow all of them: no send is posted before the   *)
(* listing of destinations is out but for the last rank's line, and no end *)
(* line is printed while a message is unreceived.                          *)
ListingsFrameTheExchange ==
  /\ StartMsg!PrintedInRankOrder /\ EndMsg!PrintedInRankOrder
  /\ (\E r \in Rank : pc[r] # "send") => Len(sout) >= nranks - 1
  /\ eout # <<>> => \A r \in Rank : pending[r] = None

(* Every rank returns from nonblocking_consensus().                        *)
AllReturn == <>(\A r \in Rank : Returned(r))
=============================================================================
