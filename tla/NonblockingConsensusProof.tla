--------------------- MODULE NonblockingConsensusProof ---------------------
(***************************************************************************)
(* Proofs about NonblockingConsensus for any set of ranks, any number of   *)
(* repetitions and any destination vectors.  IInv is inductive; the        *)
(* consensus, the bound on the drift of the ranks and the refinement of    *)
(* QuiescenceDetection follow from it.                                     *)
(***************************************************************************)
EXTENDS NonblockingConsensus, TLAPS

\* A rank ahead of another one by a repetition has seen it enter the barrier
\* of the repetition it is in; a rank is never two repetitions ahead.
LEMMA DriftLemma ==
  ASSUME IInv, NEW r \in Rank, NEW s \in Rank, cnt[r] > cnt[s]
  PROVE  cnt[r] = cnt[s] + 1 /\ barrier[s] /\ pending[s] = None
<1>1. cnt[r] \in Nat /\ cnt[s] \in Nat
  BY NRepAssumption DEF IInv, TypeOK
<1>2. Entered(s, cnt[r] - 1)
  BY <1>1 DEF IInv, BarrierInv
<1>3. cnt[r] = cnt[s] + 1 /\ barrier[s]
  BY <1>1, <1>2 DEF Entered
<1> QED
  BY <1>3 DEF IInv, LocalInv

LEMMA InitIInv == Init => IInv
<1> SUFFICES ASSUME Init PROVE IInv
  OBVIOUS
<1>1. TypeOK
  BY NRepAssumption DEF Init, TypeOK, None
<1>2. LocalInv
  BY NRepAssumption DEF Init, LocalInv
<1>3. BarrierInv
  BY DEF Init, BarrierInv
<1> QED
  BY <1>1, <1>2, <1>3 DEF IInv

\* Type correctness is kept by every step of every rank.
LEMMA NextTypeOK == TypeOK /\ LocalInv /\ [Next]_vars => TypeOK'
<1> SUFFICES ASSUME TypeOK, LocalInv, [Next]_vars PROVE TypeOK'
  OBVIOUS
<1> USE DEF TypeOK
<1>1. ASSUME NEW r \in Rank, StartSends(r) PROVE TypeOK'
  <2>1. dests[r] \in [Rank -> Nat] /\ None \in [Rank -> Nat]
    BY DrawsAssumption DEF None
  <2> QED
    BY <1>1, <2>1 DEF StartSends
<1>2. ASSUME NEW r \in Rank, Receive(r) PROVE TypeOK'
  <2>1. PICK s \in Rank : /\ pending[s][r] > 0
                          /\ pending' = [pending EXCEPT ![s][r] = @ - 1]
                          /\ recvd' = [recvd EXCEPT ![r][s] = @ + 1]
    BY <1>2 DEF Receive
  <2>2. pending[s][r] - 1 \in Nat /\ recvd[r][s] + 1 \in Nat
    BY <2>1
  <2>3. pending' \in [Rank -> [Rank -> Nat]] /\ recvd' \in [Rank -> [Rank -> Nat]]
    BY <2>1, <2>2
  <2> QED
    BY <1>2, <2>3 DEF Receive
<1>3. ASSUME NEW r \in Rank, ProbeMiss(r) PROVE TypeOK'
  BY <1>3 DEF ProbeMiss
<1>4. ASSUME NEW r \in Rank, AllSent(r) PROVE TypeOK'
  BY <1>4 DEF AllSent
<1>5. ASSUME NEW r \in Rank, BarrierDone(r) PROVE TypeOK'
  <2>1. pc[r] # "report" /\ cnt[r] # NRep
    BY <1>5 DEF BarrierDone, LocalInv
  <2>2. cnt[r] \in 0..NRep
    OBVIOUS
  <2>3. cnt[r] + 1 \in 0..NRep
    <3> HIDE DEF TypeOK
    <3>1. \A k \in 0..NRep : k # NRep => k + 1 \in 0..NRep
      BY NRepAssumption
    <3> QED
      BY <2>1, <2>2, <3>1
  <2> QED
    BY <1>5, <2>3 DEF BarrierDone
<1>6. ASSUME NEW r \in Rank, TestMiss(r) PROVE TypeOK'
  BY <1>6 DEF TestMiss
<1>7. CASE UNCHANGED vars
  BY <1>7 DEF vars
<1> QED
  BY <1>1, <1>2, <1>3, <1>4, <1>5, <1>6, <1>7 DEF Next, Step, Terminating

\* The local facts about one rank are kept: only its own steps change its
\* control, and a receive only makes a vector of open sends smaller.
LEMMA NextLocalInv ==
  TypeOK /\ TypeOK' /\ LocalInv /\ [Next]_vars => LocalInv'
<1> SUFFICES ASSUME TypeOK, TypeOK', LocalInv, [Next]_vars PROVE LocalInv'
  OBVIOUS
<1> USE DEF TypeOK, LocalInv
<1>1. ASSUME NEW r \in Rank, StartSends(r) PROVE LocalInv'
  BY <1>1 DEF StartSends
<1>2. ASSUME NEW r \in Rank, Receive(r) PROVE LocalInv'
  <2>1. PICK s \in Rank : /\ pending[s][r] > 0
                          /\ pending' = [pending EXCEPT ![s][r] = @ - 1]
    BY <1>2 DEF Receive
  <2>2. pending[s] # None
    BY <2>1 DEF None
  <2>3. \A q \in Rank : q # s => pending'[q] = pending[q]
    BY <2>1
  <2>4. pc[s] \notin {"send", "report"} /\ ~barrier[s]
    BY <2>2
  <2>5. pc' = [pc EXCEPT ![r] = "test"] /\ pc[r] = "probe" /\ UNCHANGED <<cnt, barrier>>
    BY <1>2 DEF Receive
  <2>6. ASSUME NEW q \in Rank
        PROVE  /\ pc'[q] \in {"send", "report"} => ~barrier'[q] /\ pending'[q] = None
               /\ barrier'[q] => pending'[q] = None
               /\ pc'[q] = "report" <=> cnt'[q] = NRep
    <3>1. CASE q = s
      BY <2>4, <2>5, <3>1
    <3>2. CASE q # s
      BY <2>3, <2>5, <3>2
    <3> QED
      BY <3>1, <3>2
  <2> QED
    BY <2>6
<1>3. ASSUME NEW r \in Rank, ProbeMiss(r) PROVE LocalInv'
  BY <1>3 DEF ProbeMiss
<1>4. ASSUME NEW r \in Rank, AllSent(r) PROVE LocalInv'
  BY <1>4 DEF AllSent
<1>5. ASSUME NEW r \in Rank, BarrierDone(r) PROVE LocalInv'
  <2>1. cnt'[r] = NRep <=> ~(cnt[r] + 1 < NRep)
    BY <1>5, NRepAssumption DEF BarrierDone
  <2> QED
    BY <1>5, <2>1 DEF BarrierDone
<1>6. ASSUME NEW r \in Rank, TestMiss(r) PROVE LocalInv'
  BY <1>6 DEF TestMiss
<1>7. CASE UNCHANGED vars
  BY <1>7 DEF vars
<1> QED
  BY <1>1, <1>2, <1>3, <1>4, <1>5, <1>6, <1>7 DEF Next, Step, Terminating

\* Nobody leaves the barrier before all have entered it, and having entered
\* it is stable.
LEMMA NextBarrierInv == IInv /\ [Next]_vars => BarrierInv'
<1> SUFFICES ASSUME IInv, [Next]_vars, NEW r \in Rank, NEW q \in Rank, cnt'[r] > 0
             PROVE  Entered(q, cnt[r] - 1)'
  BY DEF BarrierInv
<1> USE NRepAssumption DEF IInv, TypeOK
<1>1. ASSUME UNCHANGED <<cnt, barrier>> PROVE Entered(q, cnt[r] - 1)'
  BY <1>1 DEF BarrierInv, Entered
<1>2. ASSUME NEW p \in Rank, StartSends(p) PROVE Entered(q, cnt[r] - 1)'
  <2>1. ~barrier[p] /\ barrier' = barrier /\ cnt' = cnt
    BY <1>2 DEF StartSends, LocalInv
  <2> QED
    BY <1>1, <2>1
<1>3. ASSUME NEW p \in Rank, AllSent(p) PROVE Entered(q, cnt[r] - 1)'
  BY <1>3 DEF AllSent, BarrierInv, Entered
<1>4. ASSUME NEW p \in Rank, BarrierDone(p) PROVE Entered(q, cnt[r] - 1)'
  <2>1. \A k \in Int : Entered(q, k) => Entered(q, k)'
    BY <1>4 DEF BarrierDone, Entered
  <2>2. CASE p = r
    <3>1. cnt'[r] - 1 = cnt[r]
      BY <1>4, <2>2 DEF BarrierDone
    <3>2. Entered(q, cnt[r])
      BY <1>4, <2>2 DEF BarrierDone
    <3>3. cnt[r] \in Int
      OBVIOUS
    <3> QED
      BY <1>4, <2>2, <3>1, <3>2, <3>3 DEF BarrierDone, Entered
  <2>3. CASE p # r
    <3>1. cnt'[r] = cnt[r] /\ cnt[r] - 1 \in Int
      BY <1>4, <2>3 DEF BarrierDone
    <3>2. Entered(q, cnt[r] - 1)
      BY <3>1 DEF BarrierInv
    <3> QED
      BY <1>4, <3>1, <3>2 DEF BarrierDone, Entered
  <2> QED
    BY <2>2, <2>3
<1>5. CASE UNCHANGED vars
  BY <1>1, <1>5 DEF vars
<1>6. ASSUME NEW p \in Rank, Receive(p) \/ ProbeMiss(p) \/ TestMiss(p)
      PROVE  Entered(q, cnt[r] - 1)'
  BY <1>1, <1>6 DEF Receive, ProbeMiss, TestMiss
<1> QED
  BY <1>2, <1>3, <1>4, <1>5, <1>6 DEF Next, Step, Terminating

\* The inductive invariant: types, the local control facts and the barrier
\* bookkeeping hold in every reachable state of nonblocking_consensus.C.
THEOREM Invariance == Spec => []IInv
<1>1. IInv /\ [Next]_vars => IInv'
  BY NextTypeOK, NextLocalInv, NextBarrierInv DEF IInv
<1> QED
  BY InitIInv, <1>1, PTL DEF Spec

\* Once any rank has left a repetition, no rank has an unreceived message of
\* it: the loop may be left without knowing how many messages were sent.
THEOREM Consensus == Spec => []NoSendOutlivesRepetition
<1>1. IInv => NoSendOutlivesRepetition
  BY DriftLemma DEF NoSendOutlivesRepetition, None
<1> QED
  BY Invariance, <1>1, PTL

\* A receive takes a message of the receiver's repetition or the next one.
THEOREM DriftBound == Spec => ReceivesFromThisOrNextRepetition
<1>1. ASSUME IInv, [Next]_vars, NEW r \in Rank, NEW s \in Rank,
             pending'[s][r] < pending[s][r]
      PROVE  cnt[s] - cnt[r] \in {0, 1}
  <2>1. cnt[r] \in Nat /\ cnt[s] \in Nat /\ pending[s][r] \in Nat
    BY <1>1, NRepAssumption DEF IInv, TypeOK
  <2>2. pending'[s][r] \in Nat
    BY <1>1, NextTypeOK DEF IInv, TypeOK
  <2>3. pending[s] # None
    BY <1>1, <2>1, <2>2 DEF None
  <2>4. ~(cnt[r] > cnt[s])
    BY <1>1, <2>3, DriftLemma
  <2>5. cnt[s] > cnt[r] => cnt[s] = cnt[r] + 1
    BY <1>1, DriftLemma
  <2> QED
    BY <2>1, <2>4, <2>5
<1>2. IInv /\ [Next]_vars =>
        [\A r, s \in Rank :
           pending'[s][r] < pending[s][r] => cnt[s] - cnt[r] \in {0, 1}]_vars
  BY <1>1
<1> QED
  BY Invariance, <1>2, PTL DEF Spec, ReceivesFromThisOrNextRepetition

-----------------------------------------------------------------------------
(* The program implements the abstract detection of quiescence.            *)

\* Every run of nonblocking_consensus.C is a run of QuiescenceDetection.
THEOREM Refinement == Spec => ImplementsDetection
<1> USE DEF Detection!Nothing, None
<1>1. Init => Detection!Init
  BY DEF Init, Detection!Init
<1>2. ASSUME IInv, [Next]_vars
      PROVE  [Detection!Next]_(Detection!vars)
  <2>0. TypeOK /\ TypeOK'
    BY <1>2, NextTypeOK DEF IInv
  <2> USE <2>0
  <2>1. ASSUME NEW r \in Rank, StartSends(r) PROVE Detection!Begin(r)
    <3>1. cnt[r] < NRep
      <4>1. cnt[r] \in 0..NRep
        BY DEF TypeOK
      <4>2. cnt[r] # NRep
        BY <1>2, <2>1 DEF StartSends, IInv, LocalInv
      <4> QED
        BY <4>1, <4>2, NRepAssumption
    <3>2. dests[r] \in Draws
      BY DEF TypeOK
    <3>3. /\ r \notin {q \in Rank : pc[q] \in {"probe", "test"}}
          /\ {q \in Rank : pc[q] \in {"probe", "test"}}'
               = {q \in Rank : pc[q] \in {"probe", "test"}} \union {r}
      BY <2>1 DEF StartSends, TypeOK
    <3> QED
      BY <2>1, <3>1, <3>2, <3>3 DEF StartSends, Detection!Begin
  <2>2. ASSUME NEW r \in Rank, Receive(r) PROVE \E s \in Rank : Detection!Deliver(s, r)
    <3>1. PICK s \in Rank : /\ pending[s][r] > 0
                            /\ pending' = [pending EXCEPT ![s][r] = @ - 1]
      BY <2>2 DEF Receive
    <3>2. cnt[r] <= cnt[s]
      <4>1. pending[s] # None
        BY <3>1
      <4>2. cnt[r] \in Nat /\ cnt[s] \in Nat
        BY NRepAssumption DEF TypeOK
      <4> QED
        BY <1>2, <4>1, <4>2, DriftLemma
    <3>3. pc[r] = "probe" /\ pc' = [pc EXCEPT ![r] = "test"] /\ cnt' = cnt
      BY <2>2 DEF Receive
    <3>5. {q \in Rank : pc[q] \in {"probe", "test"}}'
            = {q \in Rank : pc[q] \in {"probe", "test"}}
      BY <3>3 DEF TypeOK
    <3> QED
      BY <3>1, <3>2, <3>3, <3>5 DEF Detection!Deliver
  <2>3. ASSUME NEW r \in Rank, BarrierDone(r) PROVE Detection!Conclude(r)
    <3>1. \A q \in Rank : Detection!Quiet(q, cnt[r])
      <4> SUFFICES ASSUME NEW q \in Rank, ~(cnt[q] > cnt[r])
                   PROVE  /\ cnt[q] = cnt[r]
                          /\ pc[q] \in {"probe", "test"}
                          /\ pending[q] = None
        BY DEF Detection!Quiet
      <4>1. cnt[q] = cnt[r] /\ barrier[q]
        BY <2>3 DEF BarrierDone, Entered
      <4> QED
        BY <1>2, <4>1 DEF IInv, LocalInv, TypeOK
    <3>2. PICK c \in {"send", "report"} : pc' = [pc EXCEPT ![r] = c]
      BY <2>3 DEF BarrierDone
    <3> QED
      BY <2>3, <3>1, <3>2 DEF BarrierDone, Detection!Conclude, TypeOK
  <2>4. ASSUME NEW r \in Rank, ProbeMiss(r) \/ AllSent(r) \/ TestMiss(r)
        PROVE  UNCHANGED Detection!vars
    <3>2. {q \in Rank : pc[q] \in {"probe", "test"}}'
            = {q \in Rank : pc[q] \in {"probe", "test"}}
      BY <2>4 DEF ProbeMiss, AllSent, TestMiss, TypeOK
    <3> QED
      BY <2>4, <3>2 DEF ProbeMiss, AllSent, TestMiss, Detection!vars
  <2>5. CASE UNCHANGED vars
    BY <2>5 DEF vars, Detection!vars
  <2> QED
    BY <1>2, <2>1, <2>2, <2>3, <2>4, <2>5 DEF Next, Step, Terminating, Detection!Next
<1> QED
  BY <1>1, <1>2, Invariance, PTL DEF Spec, ImplementsDetection, Detection!Spec
=============================================================================
