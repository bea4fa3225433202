-------------------- MODULE NonblockingConsensusPyProof --------------------
(***************************************************************************)
(* Proofs about nonblocking_consensus.py for any number of ranks and any   *)
(* destinations.  The exchange keeps the invariant of NonblockingConsensus *)
(* because a step of the script either is a step of the exchange or leaves *)
(* it alone; what is added here is the accounting of every message, which  *)
(* with the consensus makes the script's assertion hold, and the two       *)
(* listings around the exchange.                                           *)
(***************************************************************************)
EXTENDS NonblockingConsensusPy, NonblockingConsensusProof

PyIInv == IInv /\ PyInv

\* Around the exchange the script changes none of its variables.
LEMMA PyStepSimulates == [PyNext]_pyvars => [Next]_vars
<1>1. ASSUME NEW r \in Rank, PyStep(r) PROVE [Next]_vars
  BY <1>1 DEF PyStep, CountSends, SendMapKnown, PrintStart, StartExchange,
     Exchange, CheckCount, MaxStepsKnown, PrintEnd, Next
<1> QED
  BY <1>1 DEF PyNext, PyTerminating, pyvars

LEMMA PyInit_PyIInv == PyInit => PyIInv
<1> SUFFICES ASSUME PyInit PROVE PyIInv
  OBVIOUS
<1>1. Init /\ IInv
  BY InitIInv DEF PyInit
<1>2. PyTypeOK
  BY <1>1 DEF PyInit, PyTypeOK, Stages, IInv
<1>3. StageInv
  BY <1>1, OneRepetition DEF PyInit, StageInv, Init
<1>4. Accounting
  BY <1>1, OneRepetition DEF Init, Accounting, None
<1> QED
  BY <1>1, <1>2, <1>3, <1>4 DEF PyIInv, PyInv

\* Whoever leaves the exchange has received what every rank sent it: all have
\* entered the barrier, so all have begun and have no message open.
LEMMA LeaverReceivedAll == PyIInv => ReceivedEverything
<1> SUFFICES ASSUME PyIInv, NEW r \in Rank, pc[r] = "report"
             PROVE  recvd[r] = [s \in Rank |-> dests[s][r]]
  BY DEF ReceivedEverything
<1> USE DEF PyIInv, IInv, TypeOK
<1>1. cnt[r] = 1
  BY OneRepetition DEF LocalInv
<1>2. ASSUME NEW s \in Rank PROVE recvd[r][s] = dests[s][r]
  <2>1. Entered(s, 0)
    BY <1>1 DEF BarrierInv
  <2>2. pc[s] # "send" /\ pending[s] = None
    <3>1. CASE cnt[s] > 0
      <4>1. cnt[s] = NRep
        BY <3>1, OneRepetition
      <4> QED
        BY <4>1 DEF LocalInv
    <3>2. CASE barrier[s]
      BY <3>2 DEF LocalInv
    <3> QED
      BY <2>1, <3>1, <3>2 DEF Entered
  <2>3. recvd[r][s] + pending[s][r] = dests[s][r] /\ pending[s][r] = 0
    BY <2>2 DEF PyInv, Accounting, None
  <2>4. recvd[r][s] \in Nat
    OBVIOUS
  <2> QED
    BY <2>3, <2>4
<1>3. recvd[r] \in [Rank -> Nat]
  OBVIOUS
<1> QED
  BY <1>2, <1>3

\* The two sides of the script's assertion are sums of the same numbers.
LEMMA CountsAgree ==
  ASSUME PyIInv, NEW r \in Rank, pc[r] = "report", stage[r] = "exchange"
  PROVE  recv_cnt(r) = send_map[r][r]
<1>1. recvd[r] = [s \in Rank |-> dests[s][r]]
  BY LeaverReceivedAll DEF ReceivedEverything
<1>2. send_map[r] = [d \in Rank |-> Addressed(d)]
  BY DEF PyIInv, PyInv, StageInv
<1> QED
  BY <1>1, <1>2 DEF recv_cnt, Addressed

LEMMA NextPyTypeOK == PyTypeOK /\ TypeOK' /\ [PyNext]_pyvars => PyTypeOK'
<1> SUFFICES ASSUME PyTypeOK, TypeOK', [PyNext]_pyvars PROVE PyTypeOK'
  OBVIOUS
<1> USE DEF PyTypeOK, Stages, Goto
<1>1. ASSUME NEW r \in Rank, CountSends(r) \/ SendMapKnown(r) PROVE PyTypeOK'
  BY <1>1 DEF CountSends, SendMapKnown
<1>2. ASSUME NEW r \in Rank, StartExchange(r) \/ CheckCount(r) \/ MaxStepsKnown(r)
      PROVE  PyTypeOK'
  BY <1>2 DEF StartExchange, CheckCount, MaxStepsKnown
<1>3. ASSUME NEW r \in Rank, PrintStart(r) \/ Exchange(r) \/ PrintEnd(r)
      PROVE  PyTypeOK'
  BY <1>3 DEF PrintStart, Exchange, PrintEnd
<1>4. CASE UNCHANGED pyvars
  BY <1>4 DEF pyvars
<1> QED
  BY <1>1, <1>2, <1>3, <1>4 DEF PyNext, PyStep, PyTerminating

LEMMA NextStageInv == PyIInv /\ [PyNext]_pyvars => StageInv'
<1> SUFFICES ASSUME PyIInv, [PyNext]_pyvars PROVE StageInv'
  OBVIOUS
<1>sums. dests' = dests => \A d \in Rank : Addressed(d)' = Addressed(d)
  BY DEF Addressed
<1> DEFINE Totals == [d \in Rank |-> Addressed(d)]
<1>totals. dests' = dests => Totals' = Totals
  BY <1>sums
<1>now. StageInv <=>
         \A r \in Rank :
           /\ stage[r] \in {"start", "allreduce", "print start"} => pc[r] = "send"
           /\ stage[r] \notin {"start", "allreduce"} => send_map[r] = Totals
  BY DEF StageInv
<1>next. StageInv' <=>
         \A r \in Rank :
           /\ stage'[r] \in {"start", "allreduce", "print start"} => pc'[r] = "send"
           /\ stage'[r] \notin {"start", "allreduce"} => send_map'[r] = Totals'
  BY DEF StageInv
<1> USE <1>totals, <1>now, <1>next DEF PyIInv, PyInv, PyTypeOK, Goto
<1>1. ASSUME NEW r \in Rank, CountSends(r) PROVE StageInv'
  BY <1>1 DEF CountSends, vars
<1>2. ASSUME NEW r \in Rank, SendMapKnown(r) PROVE StageInv'
  <2>1. send_map' = [send_map EXCEPT ![r] = Totals]
    BY <1>2 DEF SendMapKnown, Contribution, Addressed
  <2> HIDE DEF Totals
  <2> QED
    BY <1>2, <2>1 DEF SendMapKnown, vars
<1>3. ASSUME NEW r \in Rank, StartExchange(r) \/ CheckCount(r) \/ MaxStepsKnown(r)
      PROVE  StageInv'
  <2> HIDE DEF Totals
  <2> QED
    BY <1>3 DEF StartExchange, CheckCount, MaxStepsKnown, vars
<1>4. ASSUME NEW r \in Rank, PrintStart(r) \/ PrintEnd(r) PROVE StageInv'
  BY <1>4 DEF PrintStart, PrintEnd, vars
<1>5. ASSUME NEW r \in Rank, Exchange(r) PROVE StageInv'
  <2>1. \A q \in Rank : q # r => pc'[q] = pc[q]
    BY <1>5 DEF Exchange, Step, StartSends, Receive, ProbeMiss, AllSent,
       BarrierDone, TestMiss, IInv, TypeOK
  <2>2. dests' = dests /\ stage' = stage /\ send_map' = send_map /\ stage[r] = "exchange"
    BY <1>5 DEF Exchange, Step, StartSends, Receive, ProbeMiss, AllSent,
       BarrierDone, TestMiss
  <2> QED
    BY <2>1, <2>2
<1>6. CASE UNCHANGED pyvars
  BY <1>6 DEF pyvars, vars
<1> QED
  BY <1>1, <1>2, <1>3, <1>4, <1>5, <1>6 DEF PyNext, PyStep, PyTerminating

\* With a single repetition no receive happens before the receiver's start
\* and no start happens after a receive, so nothing is counted and forgotten.
LEMMA NextAccounting ==
  IInv /\ TypeOK' /\ Accounting /\ [Next]_vars => Accounting'
<1> SUFFICES ASSUME IInv, TypeOK', Accounting, [Next]_vars PROVE Accounting'
  OBVIOUS
<1> USE DEF IInv, TypeOK, Accounting, None
<1>1. ASSUME NEW p \in Rank, StartSends(p) PROVE Accounting'
  <2>1. pending[p] = None /\ recvd[p] = None
    BY <1>1 DEF StartSends, LocalInv
  <2>2. recvd' = recvd
    BY <1>1, <2>1 DEF StartSends
  <2>3. dests \in [Rank -> [Rank -> Nat]]
    BY DrawsAssumption
  <2>4. ASSUME NEW r \in Rank, NEW s \in Rank, pc'[s] # "send"
        PROVE  recvd'[r][s] + pending'[s][r] = dests'[s][r]
    <3>1. CASE s = p
      <4>1. recvd[r][s] = 0 /\ pending'[s][r] = dests[s][r] /\ dests' = dests
        BY <1>1, <3>1 DEF StartSends
      <4>2. dests[s][r] \in Nat
        BY <2>3
      <4> QED
        BY <2>2, <4>1, <4>2
    <3>2. CASE s # p
      BY <1>1, <2>2, <2>4, <3>2 DEF StartSends
    <3> QED
      BY <3>1, <3>2
  <2>5. \A s \in Rank : pc'[s] = "send" => pc[s] = "send"
    BY <1>1 DEF StartSends
  <2> QED
    BY <2>2, <2>4, <2>5
<1>2. ASSUME NEW d \in Rank, Receive(d) PROVE Accounting'
  <2>1. PICK p \in Rank : /\ pending[p][d] > 0
                          /\ pending' = [pending EXCEPT ![p][d] = @ - 1]
                          /\ recvd' = [recvd EXCEPT ![d][p] = @ + 1]
    BY <1>2 DEF Receive
  <2>2. pc[d] = "probe" /\ pc' = [pc EXCEPT ![d] = "test"] /\ dests' = dests
    BY <1>2 DEF Receive
  <2>3. pc[p] # "send"
    BY <2>1 DEF LocalInv
  <2>4. ASSUME NEW r \in Rank, NEW s \in Rank
        PROVE  /\ pc'[s] = "send" => recvd'[r][s] = 0
               /\ pc'[s] # "send" => recvd'[r][s] + pending'[s][r] = dests'[s][r]
    <3>1. CASE r = d /\ s = p
      <4>1. recvd'[r][s] = recvd[r][s] + 1 /\ pending'[s][r] = pending[s][r] - 1
        BY <2>1, <3>1
      <4>2. recvd[r][s] \in Nat /\ pending[s][r] \in Nat
        OBVIOUS
      <4> QED
        BY <2>2, <2>3, <3>1, <4>1, <4>2
    <3>2. CASE ~(r = d /\ s = p)
      <4>1. recvd'[r][s] = recvd[r][s] /\ pending'[s][r] = pending[s][r]
        BY <2>1, <3>2
      <4>2. pc'[s] = "send" <=> pc[s] = "send"
        BY <2>2
      <4> QED
        BY <2>2, <4>1, <4>2
    <3> QED
      BY <3>1, <3>2
  <2>5. ASSUME NEW r \in Rank, pc'[r] = "send" PROVE recvd'[r] = [q \in Rank |-> 0]
    BY <2>1, <2>2, <2>5
  <2> QED
    BY <2>4, <2>5
<1>3. ASSUME NEW p \in Rank, ProbeMiss(p) \/ AllSent(p) \/ TestMiss(p)
      PROVE  Accounting'
  BY <1>3 DEF ProbeMiss, AllSent, TestMiss
<1>4. ASSUME NEW p \in Rank, BarrierDone(p) PROVE Accounting'
  <2>1. cnt[p] = 0
    BY <1>4, OneRepetition DEF BarrierDone, LocalInv
  <2>2. pc' = [pc EXCEPT ![p] = "report"]
    BY <1>4, <2>1, OneRepetition DEF BarrierDone
  <2> QED
    BY <1>4, <2>2 DEF BarrierDone
<1>5. CASE UNCHANGED vars
  BY <1>5 DEF vars
<1> QED
  BY <1>1, <1>2, <1>3, <1>4, <1>5 DEF Next, Step, Terminating

\* The inductive invariant of the script.
THEOREM PyInvariance == PySpec => []PyIInv
<1>1. ASSUME PyIInv, [PyNext]_pyvars PROVE PyIInv'
  <2>1. [Next]_vars
    BY <1>1, PyStepSimulates
  <2>2. IInv'
    BY <1>1, <2>1, NextTypeOK, NextLocalInv, NextBarrierInv DEF PyIInv, IInv
  <2>3. PyTypeOK'
    BY <1>1, <2>2, NextPyTypeOK DEF PyIInv, PyInv, IInv
  <2>4. StageInv'
    BY <1>1, NextStageInv
  <2>5. Accounting'
    BY <1>1, <2>1, <2>2, NextAccounting DEF PyIInv, PyInv, IInv
  <2> QED
    BY <2>2, <2>3, <2>4, <2>5 DEF PyIInv, PyInv
<1> QED
  BY <1>1, PyInit_PyIInv, PTL DEF PySpec

\* In particular the script's own part of it, the accounting of messages.
COROLLARY PyInvAlways == PySpec => []PyInv
<1>1. PyIInv => PyInv
  BY DEF PyIInv
<1> QED
  BY <1>1, PyInvariance, PTL

\* What the loop counts, source by source, is what was sent.
THEOREM ReceivesAll == PySpec => []ReceivedEverything
  BY PyInvariance, LeaverReceivedAll, PTL

\* nonblocking_consensus.py:104, "assert recv_cnt == send_map[rank]", never
\* fires, whatever the destinations and the number of ranks.
THEOREM AssertionHolds == PySpec => []NoAssertionError
<1>1. PyInit => NoAssertionError
  BY DEF PyInit, NoAssertionError
<1>2. ASSUME PyIInv, NoAssertionError, [PyNext]_pyvars PROVE NoAssertionError'
  <2> USE <1>2 DEF NoAssertionError, Goto
  <2>1. DOMAIN stage = Rank
    BY DEF PyIInv, PyInv, PyTypeOK
  <2>2. ASSUME NEW r \in Rank, CheckCount(r) PROVE NoAssertionError'
    <3>1. recv_cnt(r) = send_map[r][r]
      BY <2>2, CountsAgree DEF CheckCount
    <3> QED
      BY <2>1, <2>2, <3>1 DEF CheckCount
  <2>3. ASSUME NEW r \in Rank,
               \/ CountSends(r) \/ SendMapKnown(r)
               \/ StartExchange(r) \/ MaxStepsKnown(r)
        PROVE  NoAssertionError'
    BY <2>1, <2>3 DEF CountSends, SendMapKnown, StartExchange, MaxStepsKnown
  <2>4. ASSUME NEW r \in Rank, PrintStart(r) \/ Exchange(r) \/ PrintEnd(r)
        PROVE  NoAssertionError'
    BY <2>4 DEF PrintStart, Exchange, PrintEnd
  <2>5. CASE UNCHANGED pyvars
    BY <2>5 DEF pyvars
  <2> QED
    BY <2>2, <2>3, <2>4, <2>5 DEF PyNext, PyStep, PyTerminating
<1> QED
  BY <1>1, <1>2, PyInvariance, PTL DEF PySpec

-----------------------------------------------------------------------------
(* The listings.                                                           *)

\* r has passed the barrier of turn k, q has called it.
Past(p, a, r, k) == p[r] > k \/ (p[r] = k /\ a[r] = "body")
Come(p, a, q, k) == p[q] > k \/ (p[q] = k /\ a[q] # "loop")

\* A loop of RankOrderedPrint with proc, at and out: nobody is past a barrier
\* that some rank has not called, and who has had its turn has its line out.
Listing(p, a, o) ==
  /\ p \in [Rank -> 0..nranks] /\ a \in [Rank -> {"loop", "barrier", "body"}]
  /\ o \in Seq(Int) /\ \A i \in 1..Len(o) : o[i] = i-1
  /\ \A r \in Rank : p[r] = nranks => a[r] = "loop"
  /\ \A r, q \in Rank : \A k \in Rank : Past(p, a, r, k) => Come(p, a, q, k)
  /\ \A r \in Rank : p[r] > r <=> r < Len(o)

\* Where the two loops are in the script.
Frame ==
  \A r \in Rank :
    /\ stage[r] \notin {"start", "allreduce", "print start"} => sproc[r] = nranks
    /\ stage[r] # "print end" => eproc[r] = 0
    /\ stage[r] \in {"reduce steps", "print end"} => pc[r] = "report"
    /\ stage[r] = "print end" => \A q \in Rank : stage[q] \in {"reduce steps", "print end"}

Listings == Listing(sproc, sat, sout) /\ Listing(eproc, eat, eout) /\ Frame

\* A step of such a loop.
Turn(r, p, a, o, p2, a2, o2) ==
  \/ /\ a[r] = "loop" /\ p[r] < nranks
     /\ a2 = [a EXCEPT ![r] = "barrier"] /\ p2 = p /\ o2 = o
  \/ /\ a[r] = "barrier" /\ \A q \in Rank : Come(p, a, q, p[r])
     /\ a2 = [a EXCEPT ![r] = "body"] /\ p2 = p /\ o2 = o
  \/ /\ a[r] = "body" /\ o2 = IF p[r] = r THEN Append(o, r) ELSE o
     /\ p2 = [p EXCEPT ![r] = @ + 1] /\ a2 = [a EXCEPT ![r] = "loop"]

LEMMA LoopsAreListings ==
  /\ StartMsg!PrintInit => sproc = [r \in Rank |-> 0] /\ sat = [r \in Rank |-> "loop"] /\ sout = <<>>
  /\ EndMsg!PrintInit => eproc = [r \in Rank |-> 0] /\ eat = [r \in Rank |-> "loop"] /\ eout = <<>>
  /\ \A r \in Rank : StartMsg!PrintStep(r) => Turn(r, sproc, sat, sout, sproc', sat', sout')
  /\ \A r \in Rank : EndMsg!PrintStep(r) => Turn(r, eproc, eat, eout, eproc', eat', eout')
<1> USE RankAssumption DEF StartMsg!Ranks, EndMsg!Ranks
<1>1. StartMsg!PrintInit => sproc = [r \in Rank |-> 0] /\ sat = [r \in Rank |-> "loop"] /\ sout = <<>>
  BY DEF StartMsg!PrintInit
<1>2. EndMsg!PrintInit => eproc = [r \in Rank |-> 0] /\ eat = [r \in Rank |-> "loop"] /\ eout = <<>>
  BY DEF EndMsg!PrintInit
<1>3. ASSUME NEW r \in Rank, StartMsg!PrintStep(r)
      PROVE  Turn(r, sproc, sat, sout, sproc', sat', sout')
  BY <1>3 DEF StartMsg!PrintStep, StartMsg!EnterBarrier, StartMsg!LeaveBarrier, StartMsg!Body,
              StartMsg!Arrived, Turn, Come
<1>4. ASSUME NEW r \in Rank, EndMsg!PrintStep(r)
      PROVE  Turn(r, eproc, eat, eout, eproc', eat', eout')
  BY <1>4 DEF EndMsg!PrintStep, EndMsg!EnterBarrier, EndMsg!LeaveBarrier, EndMsg!Body,
              EndMsg!Arrived, Turn, Come
<1> QED
  BY <1>1, <1>2, <1>3, <1>4

LEMMA ListingStarts ==
  Listing([r \in Rank |-> 0], [r \in Rank |-> "loop"], <<>>)
BY RankAssumption DEF Listing, Past, Come

LEMMA TurnKeepsListing ==
  ASSUME NEW p, NEW a, NEW o, Listing(p, a, o), NEW r \in Rank,
         NEW p2, NEW a2, NEW o2, Turn(r, p, a, o, p2, a2, o2)
  PROVE  Listing(p2, a2, o2)
<1>1. /\ p \in [Rank -> 0..nranks] /\ a \in [Rank -> {"loop", "barrier", "body"}]
      /\ o \in Seq(Int) /\ Len(o) \in Nat /\ \A i \in 1..Len(o) : o[i] = i-1
      /\ \A q \in Rank : p[q] = nranks => a[q] = "loop"
      /\ \A q, s \in Rank : \A k \in Rank : Past(p, a, q, k) => Come(p, a, s, k)
      /\ \A q \in Rank : p[q] > q <=> q < Len(o)
  BY DEF Listing
<1>2. Rank = 0..nranks-1 /\ nranks \in Nat
  BY RankAssumption
<1>3. \A q \in Rank : p[q] \in Int /\ a[q] \in {"loop", "barrier", "body"}
  BY <1>1, <1>2
<1>4. CASE /\ a[r] = "loop" /\ p[r] < nranks
           /\ a2 = [a EXCEPT ![r] = "barrier"] /\ p2 = p /\ o2 = o
  <2>1. \A q, k \in Rank : Past(p2, a2, q, k) => Past(p, a, q, k)
    BY <1>1, <1>4 DEF Past
  <2>2. \A q, k \in Rank : Come(p, a, q, k) => Come(p2, a2, q, k)
    BY <1>1, <1>4 DEF Come
  <2>3. \A q, s \in Rank : \A k \in Rank : Past(p2, a2, q, k) => Come(p2, a2, s, k)
    BY <1>1, <2>1, <2>2
  <2>4. /\ a2 \in [Rank -> {"loop", "barrier", "body"}]
        /\ \A q \in Rank : p2[q] = nranks => a2[q] = "loop"
    BY <1>1, <1>4
  <2> QED
    BY <1>1, <1>4, <2>3, <2>4 DEF Listing
<1>5. CASE /\ a[r] = "barrier" /\ \A q \in Rank : Come(p, a, q, p[r])
           /\ a2 = [a EXCEPT ![r] = "body"] /\ p2 = p /\ o2 = o
  <2>1. \A q, k \in Rank : Past(p2, a2, q, k) => Past(p, a, q, k) \/ k = p[r]
    BY <1>1, <1>5 DEF Past
  <2>2. \A q, k \in Rank : Come(p, a, q, k) => Come(p2, a2, q, k)
    BY <1>1, <1>5 DEF Come
  <2>3. \A q, s \in Rank : \A k \in Rank : Past(p2, a2, q, k) => Come(p2, a2, s, k)
    BY <1>1, <1>5, <2>1, <2>2
  <2>4. /\ a2 \in [Rank -> {"loop", "barrier", "body"}]
        /\ \A q \in Rank : p2[q] = nranks => a2[q] = "loop"
    BY <1>1, <1>5
  <2> QED
    BY <1>1, <1>5, <2>3, <2>4 DEF Listing
<1>6. CASE /\ a[r] = "body" /\ o2 = IF p[r] = r THEN Append(o, r) ELSE o
           /\ p2 = [p EXCEPT ![r] = @ + 1] /\ a2 = [a EXCEPT ![r] = "loop"]
  <2>1. p[r] \in 0..nranks-1 /\ p[r] \in Rank
    BY <1>1, <1>2, <1>3, <1>6
  <2>2. p2[r] = p[r] + 1 /\ a2[r] = "loop" /\ \A q \in Rank \ {r} : p2[q] = p[q] /\ a2[q] = a[q]
    BY <1>1, <1>6
  <2>3. \A q, k \in Rank : Past(p2, a2, q, k) => Past(p, a, q, k)
    <3> SUFFICES ASSUME NEW q \in Rank, NEW k \in Rank, Past(p2, a2, q, k)
                 PROVE  Past(p, a, q, k)
      OBVIOUS
    <3>1. CASE q = r
      BY <1>2, <1>3, <1>6, <2>1, <2>2, <3>1 DEF Past
    <3>2. CASE q # r
      BY <2>2, <3>2 DEF Past
    <3> QED
      BY <3>1, <3>2
  <2>4. \A q, k \in Rank : Come(p, a, q, k) => Come(p2, a2, q, k)
    <3> SUFFICES ASSUME NEW q \in Rank, NEW k \in Rank, Come(p, a, q, k)
                 PROVE  Come(p2, a2, q, k)
      OBVIOUS
    <3>1. CASE q = r
      BY <1>2, <1>3, <1>6, <2>1, <2>2, <3>1 DEF Come
    <3>2. CASE q # r
      BY <2>2, <3>2 DEF Come
    <3> QED
      BY <3>1, <3>2
  <2>5. \A q, s \in Rank : \A k \in Rank : Past(p2, a2, q, k) => Come(p2, a2, s, k)
    BY <1>1, <2>3, <2>4
  <2>6. /\ p2 \in [Rank -> 0..nranks] /\ a2 \in [Rank -> {"loop", "barrier", "body"}]
        /\ \A q \in Rank : p2[q] = nranks => a2[q] = "loop"
    <3>1. p[r] + 1 \in 0..nranks
      BY <1>2, <2>1
    <3> QED
      BY <1>1, <1>6, <2>2, <3>1
  <2>7. CASE p[r] = r
    <3>1. Past(p, a, r, r)
      BY <1>6, <2>7 DEF Past
    <3>2. \A q \in Rank : q < r => p[q] > q
      BY <1>1, <1>2, <1>3, <3>1 DEF Come
    <3>3. Len(o) = r
      <4>1. ~ (r < Len(o))
        BY <1>1, <1>3, <2>7
      <4>2. ASSUME Len(o) < r
            PROVE  FALSE
        <5>1. Len(o) \in Rank
          BY <1>1, <1>2, <4>2
        <5> QED
          BY <1>1, <3>2, <4>2, <5>1
      <4> QED
        BY <1>1, <1>2, <4>1, <4>2
    <3>4. o2 = Append(o, r) /\ r \in Int
      BY <1>2, <1>6, <2>7
    <3>5. o2 \in Seq(Int) /\ Len(o2) = r + 1 /\ \A i \in 1..Len(o2) : o2[i] = i-1
      BY <1>1, <3>3, <3>4
    <3>6. ASSUME NEW q \in Rank
          PROVE  p2[q] > q <=> q < Len(o2)
      <4>1. CASE q = r
        BY <1>2, <2>2, <2>7, <3>5, <4>1
      <4>2. CASE q # r
        <5>1. p2[q] = p[q] /\ (p[q] > q <=> q < r)
          BY <1>1, <2>2, <3>3, <4>2
        <5> QED
          BY <1>2, <3>5, <4>2, <5>1
      <4> QED
        BY <4>1, <4>2
    <3> QED
      BY <2>5, <2>6, <3>5, <3>6 DEF Listing
  <2>8. CASE p[r] # r
    <3>1. o2 = o
      BY <1>6, <2>8
    <3>2. ASSUME NEW q \in Rank
          PROVE  p2[q] > q <=> p[q] > q
      <4>1. CASE q = r
        BY <1>2, <1>3, <2>2, <2>8, <4>1
      <4>2. CASE q # r
        BY <2>2, <4>2
      <4> QED
        BY <4>1, <4>2
    <3> QED
      BY <1>1, <2>5, <2>6, <3>1, <3>2 DEF Listing
  <2> QED
    BY <2>7, <2>8
<1> QED
  BY <1>4, <1>5, <1>6 DEF Turn

\* A rank that is through has left at most the last line to come.
LEMMA ListingEnds ==
  ASSUME NEW p, NEW a, NEW o, Listing(p, a, o)
  PROVE  /\ o = [i \in 1..Len(o) |-> i-1]
         /\ \A r \in Rank : p[r] = nranks => Len(o) >= nranks-1
         /\ o # <<>> => \E r \in Rank : p[r] # 0
<1>1. /\ p \in [Rank -> 0..nranks]
      /\ o \in Seq(Int) /\ Len(o) \in Nat /\ \A i \in 1..Len(o) : o[i] = i-1
      /\ \A r, q \in Rank : \A k \in Rank : Past(p, a, r, k) => Come(p, a, q, k)
      /\ \A r \in Rank : p[r] > r <=> r < Len(o)
  BY DEF Listing
<1>2. Rank = 0..nranks-1 /\ nranks \in Nat \ {0}
  BY RankAssumption
<1>3. o = [i \in 1..Len(o) |-> i-1]
  BY <1>1
<1>4. ASSUME NEW r \in Rank, p[r] = nranks, Len(o) < nranks-1
      PROVE  FALSE
  <2>1. Len(o) \in Rank /\ nranks-1 \in Rank
    BY <1>1, <1>2, <1>4
  <2>2. Past(p, a, r, nranks-1)
    BY <1>2, <1>4 DEF Past
  <2>3. Come(p, a, Len(o), nranks-1)
    BY <1>1, <2>1, <2>2
  <2>4. p[Len(o)] \in Int /\ p[Len(o)] > Len(o)
    BY <1>1, <1>2, <1>4, <2>1, <2>3 DEF Come
  <2> QED
    BY <1>1, <2>1, <2>4
<1>5. ASSUME o # <<>>
      PROVE  \E r \in Rank : p[r] # 0
  <2>1. Len(o) > 0 /\ 0 \in Rank
    BY <1>1, <1>2, <1>5
  <2>2. p[0] > 0
    BY <1>1, <2>1
  <2> QED
    BY <2>1, <2>2
<1> QED
  BY <1>1, <1>2, <1>3, <1>4, <1>5

LEMMA ListingsStart == PyInit => Listings
<1> SUFFICES ASSUME PyInit
             PROVE  Listings
  OBVIOUS
<1>1. Listing(sproc, sat, sout) /\ Listing(eproc, eat, eout)
  BY LoopsAreListings, ListingStarts DEF PyInit
<1>2. \A r \in Rank : eproc[r] = 0
  BY LoopsAreListings DEF PyInit
<1>3. Frame
  BY <1>2 DEF Frame, PyInit
<1> QED
  BY <1>1, <1>3 DEF Listings

LEMMA NextListings == PyIInv /\ Listings /\ [PyNext]_pyvars => Listings'
<1> SUFFICES ASSUME PyIInv, Listings, [PyNext]_pyvars
             PROVE  Listings'
  OBVIOUS
<1>1. stage \in [Rank -> Stages]
  BY DEF PyIInv, PyInv, PyTypeOK
<1>2. Listing(sproc, sat, sout) /\ Listing(eproc, eat, eout) /\ Frame
  BY DEF Listings
<1>3. ASSUME UNCHANGED printing
      PROVE  Listing(sproc, sat, sout)' /\ Listing(eproc, eat, eout)'
  BY <1>2, <1>3 DEF printing, Listing, Past, Come
<1>4. ASSUME NEW r \in Rank, CountSends(r) \/ SendMapKnown(r)
      PROVE  Listings'
  <2>1. /\ UNCHANGED printing /\ pc' = pc
        /\ stage[r] \in {"start", "allreduce"} /\ stage'[r] \in {"allreduce", "print start"}
        /\ \A q \in Rank \ {r} : stage'[q] = stage[q]
    BY <1>1, <1>4 DEF CountSends, SendMapKnown, Goto, vars
  <2>2. Frame'
    BY <1>2, <2>1 DEF Frame, printing
  <2> QED
    BY <1>3, <2>1, <2>2 DEF Listings
<1>5. ASSUME NEW r \in Rank, PrintStart(r)
      PROVE  Listings'
  <2>1. /\ stage[r] = "print start" /\ UNCHANGED <<pc, stage, eproc, eat, eout>>
        /\ Turn(r, sproc, sat, sout, sproc', sat', sout')
    BY <1>5, LoopsAreListings DEF PrintStart, vars
  <2>2. Listing(sproc', sat', sout')
    BY <1>2, <2>1, TurnKeepsListing
  <2>3. Listing(eproc, eat, eout)'
    <3>1. UNCHANGED <<eproc, eat, eout>>
      BY <2>1
    <3> QED
      BY <1>2, <3>1 DEF Listing, Past, Come
  <2>4. \A q \in Rank \ {r} : sproc'[q] = sproc[q]
    BY <1>2, <2>1 DEF Turn, Listing
  <2>5. Frame'
    BY <1>2, <2>1, <2>4 DEF Frame
  <2> QED
    BY <2>2, <2>3, <2>5 DEF Listings, Listing, Past, Come
<1>6. ASSUME NEW r \in Rank, StartExchange(r)
      PROVE  Listings'
  <2>1. /\ UNCHANGED printing /\ pc' = pc
        /\ stage[r] = "print start" /\ stage'[r] = "exchange" /\ sproc[r] = nranks
        /\ \A q \in Rank \ {r} : stage'[q] = stage[q]
    BY <1>1, <1>6 DEF StartExchange, Goto, vars, StartMsg!LoopOver
  <2>2. Frame'
    BY <1>2, <2>1 DEF Frame, printing
  <2> QED
    BY <1>3, <2>1, <2>2 DEF Listings
<1>7. ASSUME NEW r \in Rank, Exchange(r)
      PROVE  Listings'
  <2>1. UNCHANGED printing /\ stage' = stage /\ stage[r] = "exchange"
    BY <1>7 DEF Exchange
  <2>2. \A q \in Rank : q # r => pc'[q] = pc[q]
    BY <1>7 DEF Exchange, Step, StartSends, Receive, ProbeMiss, AllSent,
       BarrierDone, TestMiss, PyIInv, IInv, TypeOK
  <2>3. Frame'
    BY <1>2, <2>1, <2>2 DEF Frame, printing
  <2> QED
    BY <1>3, <2>1, <2>3 DEF Listings
<1>8. ASSUME NEW r \in Rank, CheckCount(r)
      PROVE  Listings'
  <2>1. /\ UNCHANGED printing /\ pc' = pc /\ pc[r] = "report"
        /\ stage[r] = "exchange" /\ stage'[r] \in {"reduce steps", "AssertionError"}
        /\ \A q \in Rank \ {r} : stage'[q] = stage[q]
    BY <1>1, <1>8 DEF CheckCount, Goto, vars
  <2>2. Frame'
    BY <1>2, <2>1 DEF Frame, printing
  <2> QED
    BY <1>3, <2>1, <2>2 DEF Listings
<1>9. ASSUME NEW r \in Rank, MaxStepsKnown(r)
      PROVE  Listings'
  <2>1. /\ UNCHANGED printing /\ pc' = pc
        /\ stage[r] = "reduce steps" /\ stage'[r] = "print end"
        /\ \A q \in Rank : stage[q] \in {"reduce steps", "print end"}
        /\ \A q \in Rank \ {r} : stage'[q] = stage[q]
    BY <1>1, <1>9 DEF MaxStepsKnown, Goto, vars
  <2>2. Frame'
    BY <1>2, <2>1 DEF Frame, printing
  <2> QED
    BY <1>3, <2>1, <2>2 DEF Listings
<1>10. ASSUME NEW r \in Rank, PrintEnd(r)
       PROVE  Listings'
  <2>1. /\ stage[r] = "print end" /\ UNCHANGED <<pc, stage, sproc, sat, sout>>
        /\ Turn(r, eproc, eat, eout, eproc', eat', eout')
    BY <1>10, LoopsAreListings DEF PrintEnd, vars
  <2>2. Listing(eproc', eat', eout')
    BY <1>2, <2>1, TurnKeepsListing
  <2>3. Listing(sproc, sat, sout)'
    <3>1. UNCHANGED <<sproc, sat, sout>>
      BY <2>1
    <3> QED
      BY <1>2, <3>1 DEF Listing, Past, Come
  <2>4. \A q \in Rank \ {r} : eproc'[q] = eproc[q]
    BY <1>2, <2>1 DEF Turn, Listing
  <2>5. Frame'
    BY <1>2, <2>1, <2>4 DEF Frame
  <2> QED
    BY <2>2, <2>3, <2>5 DEF Listings, Listing, Past, Come
<1>11. CASE UNCHANGED pyvars
  <2>1. Frame'
    BY <1>2, <1>11 DEF Frame, pyvars, vars, printing
  <2> QED
    BY <1>3, <1>11, <2>1 DEF pyvars, Listings
<1> QED
  BY <1>4, <1>5, <1>6, <1>7, <1>8, <1>9, <1>10, <1>11 DEF PyNext, PyStep, PyTerminating

\* Both listings come out in order, and the exchange lies between them: it
\* begins when the first is out but for its last line, and no line of the
\* second is printed before every message has been received.
THEOREM ListingsForAll == PySpec => []ListingsFrameTheExchange
<1>1. PyIInv /\ Listings => ListingsFrameTheExchange
  <2> SUFFICES ASSUME PyIInv, Listings
               PROVE  ListingsFrameTheExchange
    OBVIOUS
  <2>1. Listing(sproc, sat, sout) /\ Listing(eproc, eat, eout) /\ Frame
    BY DEF Listings
  <2>2. StartMsg!PrintedInRankOrder /\ EndMsg!PrintedInRankOrder
    BY <2>1, ListingEnds DEF StartMsg!PrintedInRankOrder, EndMsg!PrintedInRankOrder
  <2>3. ASSUME NEW r \in Rank, pc[r] # "send"
        PROVE  Len(sout) >= nranks - 1
    <3>1. stage[r] \notin {"start", "allreduce", "print start"}
      BY <2>3 DEF PyIInv, PyInv, StageInv
    <3>2. sproc[r] = nranks
      BY <2>1, <3>1 DEF Frame
    <3> QED
      BY <2>1, <3>2, ListingEnds
  <2>4. ASSUME eout # <<>>, NEW r \in Rank
        PROVE  pending[r] = None
    <3>1. PICK q \in Rank : eproc[q] # 0
      BY <2>1, <2>4, ListingEnds
    <3>2. pc[r] = "report"
      BY <2>1, <3>1 DEF Frame
    <3> QED
      BY <3>2 DEF PyIInv, IInv, LocalInv
  <2> QED
    BY <2>2, <2>3, <2>4 DEF ListingsFrameTheExchange
<1> QED
  BY <1>1, ListingsStart, NextListings, PyInvariance, PTL DEF PySpec
=============================================================================
