-------------------------- MODULE AlltoallAvgProof --------------------------
(***************************************************************************)
(* Proofs about the averaging loop for any set of ranks and any limit on   *)
(* the steps.  Although the collectives of two ranks may fail to match in  *)
(* the end, the calls that have returned to a rank do match, and that is   *)
(* enough for the ranks to agree on when they stop.                        *)
(***************************************************************************)
EXTENDS AlltoallAvg, TLAPS

Kinds == {"Alltoall", "Allreduce"}

\* How many of r's calls have returned.
Past(r) ==
  IF pc[r] \in {"alltoall", "allreduce", "allreduce max"}
  THEN Len(calls[r]) - 1 ELSE Len(calls[r])

\* A rank joins the barrier when its time is up, and a test succeeds only when
\* all have joined.
LateInv ==
  /\ \A q \in Rank : barrier[q] # "null" => late[q]
  /\ \A r, q \in Rank : all_done[r] => barrier[q] # "null"

\* A rank in the loop has a step left; it has stepped unless it is at the top.
StepInv ==
  \A r \in Rank : /\ InLoop(r) => step[r] < maxstep
                  /\ pc[r] # "while" => step[r] > 0

\* A rank calls MPI_Alltoall in the loop and MPI_Allreduce behind it.
KindInv ==
  \A r \in Rank : \A i \in 1..Len(calls[r]) :
    calls[r][i] = "Alltoall" <=> (i < step[r] \/ InLoop(r))

\* What has returned to a rank matches the calls of all ranks.
PastInv ==
  \A r, q \in Rank : \A i \in 1..Past(r) :
    i <= Len(calls[q]) /\ calls[q][i] = calls[r][i]

AvgIInv == AvgInv /\ LateInv /\ StepInv /\ KindInv /\ PastInv

-----------------------------------------------------------------------------

LEMMA InitAvg == AvgInit => AvgIInv
<1> SUFFICES ASSUME AvgInit PROVE AvgIInv
  OBVIOUS
<1> USE DEF AvgInit
<1>1. AvgInv
  BY MaxstepAssumption DEF AvgInv
<1>2. LateInv /\ StepInv
  BY MaxstepAssumption DEF LateInv, StepInv
<1>3. KindInv /\ PastInv
  BY DEF KindInv, PastInv, Past
<1> QED
  BY <1>1, <1>2, <1>3 DEF AvgIInv

\* A call adds to the caller's sequence and leaves what was there.
LEMMA CallLemma ==
  ASSUME calls \in [Rank -> Seq(Kinds)], NEW r \in Rank, NEW kind \in Kinds,
         calls' = [calls EXCEPT ![r] = Append(@, kind)]
  PROVE  /\ calls' \in [Rank -> Seq(Kinds)]
         /\ Len(calls'[r]) = Len(calls[r]) + 1
         /\ calls'[r][Len(calls[r]) + 1] = kind
         /\ \A q \in Rank : q # r => calls'[q] = calls[q]
         /\ \A q \in Rank : Len(calls[q]) \in Nat
         /\ \A q \in Rank : \A i \in 1..Len(calls[q]) : i \in 1..Len(calls'[q]) /\ calls'[q][i] = calls[q][i]
<1>1. calls[r] \in Seq(Kinds) /\ calls'[r] = Append(calls[r], kind)
  OBVIOUS
<1>2. Append(calls[r], kind) \in Seq(Kinds)
  BY <1>1
<1>3. /\ Len(calls'[r]) = Len(calls[r]) + 1
      /\ calls'[r][Len(calls[r]) + 1] = kind
      /\ \A i \in 1..Len(calls[r]) : calls'[r][i] = calls[r][i]
  BY <1>1
<1>4. \A q \in Rank : q # r => calls'[q] = calls[q]
  OBVIOUS
<1>5. calls' \in [Rank -> Seq(Kinds)]
  BY <1>2
<1>6. \A q \in Rank : Len(calls[q]) \in Nat
  OBVIOUS
<1> QED
  BY <1>3, <1>4, <1>5, <1>6

\* The lengths of the sequences of calls are numbers.
LEMMA LenLemma ==
  ASSUME NEW c \in [Rank -> Seq(Kinds)]
  PROVE  \A q \in Rank : Len(c[q]) \in Nat
<1> SUFFICES ASSUME NEW q \in Rank PROVE Len(c[q]) \in Nat
  OBVIOUS
<1>1. c[q] \in Seq(Kinds)
  OBVIOUS
<1> QED
  BY <1>1

\* What the type invariant says of the numbers of steps and of calls.
LEMMA TypeLemma ==
  ASSUME AvgInv
  PROVE  /\ calls \in [Rank -> Seq(Kinds)]
         /\ \A q \in Rank : /\ step[q] \in Nat
                            /\ step[q] <= maxstep
                            /\ Len(calls[q]) \in Nat
                            /\ Len(calls[q]) = IF pc[q] \in {"allreduce max", "finalize"}
                                               THEN step[q] + 1 ELSE step[q]
<1>1. calls \in [Rank -> Seq(Kinds)]
  BY DEF AvgInv, Kinds
<1>2. \A q \in Rank : Len(calls[q]) \in Nat
  BY <1>1, LenLemma
<1>3. \A q \in Rank : step[q] \in 0..maxstep
  BY DEF AvgInv
<1>4. ASSUME NEW q \in Rank PROVE step[q] \in Nat /\ step[q] <= maxstep
  BY <1>3, MaxstepAssumption
<1> QED
  BY <1>1, <1>2, <1>4 DEF AvgInv

\* What a step does to the calls and to how many of them have returned: calls
\* are only added, and what returns to a rank matches the calls of all ranks.
LEMMA PastLemma ==
  ASSUME AvgInv, PastInv, NEW r \in Rank,
         calls' \in [Rank -> Seq(Kinds)],
         \A q \in Rank : \A i \in 1..Len(calls[q]) : i \in 1..Len(calls'[q]) /\ calls'[q][i] = calls[q][i],
         \A q \in Rank : q # r => Past(q)' = Past(q),
         \/ Past(r)' = Past(r)
         \/ Past(r)' = Len(calls[r]) /\ Past(r) = Len(calls[r]) - 1 /\ Returns(r)
  PROVE  PastInv'
<1>1. \A q \in Rank : Len(calls[q]) \in Nat /\ Len(calls'[q]) \in Nat
  BY LenLemma, TypeLemma
<1>2. ASSUME NEW q \in Rank PROVE Past(q) \in Int /\ Past(q) <= Len(calls[q])
  <2>1. Len(calls[q]) \in Int
    BY <1>1
  <2>2. CASE pc[q] \in {"alltoall", "allreduce", "allreduce max"}
    <3>1. Past(q) = Len(calls[q]) - 1
      BY <2>2 DEF Past
    <3> QED
      BY <2>1, <3>1
  <2>3. CASE pc[q] \notin {"alltoall", "allreduce", "allreduce max"}
    <3>1. Past(q) = Len(calls[q])
      BY <2>3 DEF Past
    <3> QED
      BY <2>1, <3>1
  <2> QED
    BY <2>2, <2>3
<1> SUFFICES ASSUME NEW p \in Rank, NEW q \in Rank, NEW i \in 1..(Past(p)')
             PROVE  i <= Len(calls'[q]) /\ calls'[q][i] = calls'[p][i]
  BY DEF PastInv
<1>3. i \in 1..Len(calls[p])
  <2>1. Past(p)' = Past(p) \/ Past(p)' = Len(calls[p])
    OBVIOUS
  <2>2. Past(p) \in Int /\ Past(p) <= Len(calls[p]) /\ Len(calls[p]) \in Int
    BY <1>1, <1>2
  <2> QED
    BY <2>1, <2>2
<1>4. i <= Len(calls[q]) /\ calls[q][i] = calls[p][i]
  <2>1. CASE i \in 1..Past(p)
    BY <2>1 DEF PastInv
  <2>2. CASE i \notin 1..Past(p)
    <3>1. p = r /\ i = Len(calls[r]) /\ Returns(r)
      BY <1>1, <1>2, <2>2
    <3> QED
      BY <3>1 DEF Returns
  <2> QED
    BY <2>1, <2>2
<1>5. i \in 1..Len(calls[q])
  BY <1>1, <1>3, <1>4
<1> QED
  BY <1>1, <1>3, <1>4, <1>5

\* The top of the loop: a call of MPI_Alltoall, or of the first reduction.
LEMMA WhileLemma ==
  ASSUME AvgIInv, NEW r \in Rank, While(r)
  PROVE  AvgIInv'
<1> USE DEF AvgIInv
<1>1. PICK kind \in Kinds, where \in {"alltoall", "allreduce"} :
        /\ Call(r, kind, where)
        /\ kind = "Alltoall" <=> where = "alltoall"
        /\ where = "alltoall" => step[r] + 1 < maxstep
  BY DEF While, Kinds, AvgInv
<1>2. pc[r] = "while" /\ Len(calls[r]) = step[r] /\ step[r] < maxstep /\ step[r] \in Nat
  BY TypeLemma DEF While, StepInv, InLoop
<1>3. step' = [step EXCEPT ![r] = step[r] + 1] /\ UNCHANGED <<late, barrier, all_done>>
  BY DEF While
<1>4. pc' = [pc EXCEPT ![r] = where] /\ calls' = [calls EXCEPT ![r] = Append(@, kind)]
  BY <1>1 DEF Call
<1>5. calls \in [Rank -> Seq(Kinds)]
  BY DEF AvgInv, Kinds
<1>6. /\ calls' \in [Rank -> Seq(Kinds)]
      /\ Len(calls'[r]) = Len(calls[r]) + 1
      /\ calls'[r][Len(calls[r]) + 1] = kind
      /\ \A q \in Rank : q # r => calls'[q] = calls[q]
      /\ \A q \in Rank : Len(calls[q]) \in Nat
      /\ \A q \in Rank : \A i \in 1..Len(calls[q]) : i \in 1..Len(calls'[q]) /\ calls'[q][i] = calls[q][i]
  BY <1>4, <1>5, CallLemma
<1>7. pc'[r] = where /\ step'[r] = step[r] + 1
  BY <1>3, <1>4 DEF AvgInv
<1>8. \A q \in Rank : q # r => pc'[q] = pc[q] /\ step'[q] = step[q]
  BY <1>3, <1>4 DEF AvgInv
<1>9. AvgInv'
  <2>1. pc' \in [Rank -> {"while", "alltoall", "test", "allreduce", "allreduce max", "finalize"}]
    BY <1>4 DEF AvgInv
  <2>2. step' \in [Rank -> 0..maxstep]
    <3>1. step[r] + 1 \in 0..maxstep
      BY <1>2, MaxstepAssumption
    <3> QED
      BY <1>3, <3>1 DEF AvgInv
  <2>3. calls' \in [Rank -> Seq({"Alltoall", "Allreduce"})]
    BY <1>6 DEF Kinds
  <2>4. ASSUME NEW q \in Rank
        PROVE Len(calls'[q]) = IF pc'[q] \in {"allreduce max", "finalize"}
                               THEN step'[q] + 1 ELSE step'[q]
    BY <1>2, <1>6, <1>7, <1>8 DEF AvgInv
  <2> QED
    BY <1>3, <2>1, <2>2, <2>3, <2>4 DEF AvgInv
<1>10. LateInv'
  BY <1>3 DEF LateInv
<1>11. StepInv'
  BY <1>1, <1>2, <1>7, <1>8 DEF StepInv, InLoop
<1>12. KindInv'
  <2> SUFFICES ASSUME NEW q \in Rank, NEW i \in 1..Len(calls'[q])
               PROVE  calls'[q][i] = "Alltoall" <=> (i < step'[q] \/ InLoop(q)')
    BY DEF KindInv
  <2>1. CASE q # r
    <3>1. calls'[q] = calls[q] /\ step'[q] = step[q] /\ pc'[q] = pc[q]
      BY <1>6, <1>8, <2>1
    <3>2. i \in 1..Len(calls[q])
      BY <3>1
    <3>3. calls[q][i] = "Alltoall" <=> (i < step[q] \/ InLoop(q))
      BY <3>2 DEF KindInv
    <3> QED
      BY <3>1, <3>3 DEF InLoop
  <2>2. CASE q = r /\ i \in 1..Len(calls[r])
    <3>1. calls'[r][i] = "Alltoall"
      BY <1>2, <1>6, <2>2 DEF KindInv, InLoop
    <3> QED
      BY <1>2, <1>7, <2>2, <3>1
  <2>3. CASE q = r /\ i = Len(calls[r]) + 1
    <3>1. calls'[r][i] = kind
      BY <1>6, <2>3
    <3>2. ~(i < step'[r])
      BY <1>2, <1>7, <2>3
    <3>3. InLoop(r)' <=> where = "alltoall"
      BY <1>7 DEF InLoop
    <3> QED
      BY <1>1, <2>3, <3>1, <3>2, <3>3
  <2> QED
    BY <1>6, <2>1, <2>2, <2>3
<1>13. PastInv'
  <2>1. Past(r)' = Past(r)
    <3>1. Past(r) = Len(calls[r])
      BY <1>2 DEF Past
    <3>2. Past(r)' = Len(calls'[r]) - 1
      BY <1>7 DEF Past
    <3> QED
      BY <1>6, <3>1, <3>2
  <2>2. \A q \in Rank : q # r => Past(q)' = Past(q)
    BY <1>6, <1>8 DEF Past
  <2> QED
    BY <1>6, <2>1, <2>2, PastLemma
<1> QED
  BY <1>9, <1>10, <1>11, <1>12, <1>13

\* The invariant without what it says of the clock and the barrier.
LoopInv ==
  /\ pc \in [Rank -> {"while", "alltoall", "test", "allreduce", "allreduce max", "finalize"}]
  /\ \A q \in Rank : Len(calls[q]) = IF pc[q] \in {"allreduce max", "finalize"}
                                     THEN step[q] + 1 ELSE step[q]
  /\ StepInv /\ KindInv /\ PastInv

\* A step of one rank that makes no call and does not count: the invariant is
\* left to the states of the rank and to what has returned to it.
LEMMA QuietLemma ==
  ASSUME AvgIInv, NEW r \in Rank,
         NEW where \in {"while", "test", "finalize"},
         UNCHANGED <<step, calls>>,
         pc' = [pc EXCEPT ![r] = where],
         \/ pc[r] \in {"alltoall", "test"} /\ where \in {"while", "test"}
         \/ pc[r] = "allreduce max" /\ where = "finalize",
         pc[r] # "test" => Returns(r)
  PROVE  LoopInv'
<1>1. pc \in [Rank -> {"while", "alltoall", "test", "allreduce", "allreduce max", "finalize"}]
  BY DEF AvgIInv, AvgInv
<1>2. /\ calls \in [Rank -> Seq(Kinds)]
      /\ \A q \in Rank : /\ step[q] \in Nat
                         /\ step[q] <= maxstep
                         /\ Len(calls[q]) \in Nat
                         /\ Len(calls[q]) = IF pc[q] \in {"allreduce max", "finalize"}
                                            THEN step[q] + 1 ELSE step[q]
  BY TypeLemma DEF AvgIInv
<1>3. pc'[r] = where /\ \A q \in Rank : q # r => pc'[q] = pc[q]
  BY <1>1
<1>4. pc' \in [Rank -> {"while", "alltoall", "test", "allreduce", "allreduce max", "finalize"}]
  BY <1>1
<1>5. ASSUME NEW q \in Rank
      PROVE Len(calls'[q]) = IF pc'[q] \in {"allreduce max", "finalize"}
                             THEN step'[q] + 1 ELSE step'[q]
  <2>1. pc'[q] \in {"allreduce max", "finalize"} <=> pc[q] \in {"allreduce max", "finalize"}
    BY <1>3
  <2> QED
    BY <1>2, <2>1
<1>6. \A q \in Rank : InLoop(q)' <=> InLoop(q)
  BY <1>3 DEF InLoop
<1>7. StepInv'
  <2>1. pc[r] # "while"
    OBVIOUS
  <2> QED
    BY <1>3, <1>6, <2>1 DEF AvgIInv, StepInv
<1>8. KindInv'
  BY <1>6 DEF AvgIInv, KindInv
<1>9. PastInv'
  <2>0. /\ calls' \in [Rank -> Seq(Kinds)]
        /\ \A q \in Rank : \A i \in 1..Len(calls[q]) : i \in 1..Len(calls'[q]) /\ calls'[q][i] = calls[q][i]
    BY <1>2
  <2>1. ASSUME NEW q \in Rank, q # r PROVE Past(q)' = Past(q)
    BY <1>3, <2>1 DEF Past
  <2>2. Past(r)' = Len(calls[r])
    BY <1>3 DEF Past
  <2>3. CASE pc[r] = "test"
    <3>1. Past(r)' = Past(r)
      BY <2>2, <2>3 DEF Past
    <3> QED
      BY <2>0, <2>1, <3>1, PastLemma DEF AvgIInv
  <2>4. CASE pc[r] # "test"
    <3>1. Past(r) = Len(calls[r]) - 1
      BY <2>4 DEF Past
    <3> QED
      BY <2>0, <2>1, <2>2, <2>4, <3>1, PastLemma DEF AvgIInv
  <2> QED
    BY <2>3, <2>4
<1> QED
  BY <1>4, <1>5, <1>7, <1>8, <1>9 DEF LoopInv

\* The steps that return from a collective, and the tests of the barrier.
LEMMA QuietSteps ==
  ASSUME AvgIInv, NEW r \in Rank,
         \/ AlltoallDone(r)
         \/ AlltoallDoneLate(r)
         \/ TestSucceeds(r)
         \/ TestFails(r)
         \/ AllreduceMax(r)
  PROVE  AvgIInv'
<1> USE DEF AvgIInv
<1>1. CASE AlltoallDone(r)
  <2>0. /\ pc[r] = "alltoall" /\ Returns(r)
        /\ pc' = [pc EXCEPT ![r] = "while"] /\ UNCHANGED <<step, calls>>
    BY <1>1 DEF AlltoallDone
  <2>1. LoopInv'
    BY <2>0, QuietLemma
  <2>2. LateInv'
    BY <1>1 DEF AlltoallDone, LateInv
  <2> QED
    BY <1>1, <2>1, <2>2 DEF AlltoallDone, LoopInv, AvgInv
<1>2. CASE AlltoallDoneLate(r)
  <2>0. /\ pc[r] = "alltoall" /\ Returns(r)
        /\ pc' = [pc EXCEPT ![r] = "test"] /\ UNCHANGED <<step, calls>>
    BY <1>2 DEF AlltoallDoneLate
  <2>1. LoopInv'
    BY <2>0, QuietLemma
  <2>2. LateInv'
    BY <1>2 DEF AlltoallDoneLate, LateInv, AvgInv
  <2> QED
    BY <1>2, <2>1, <2>2 DEF AlltoallDoneLate, LoopInv, AvgInv
<1>3. CASE TestSucceeds(r)
  <2>0. /\ pc[r] = "test"
        /\ pc' = [pc EXCEPT ![r] = "while"] /\ UNCHANGED <<step, calls>>
    BY <1>3 DEF TestSucceeds
  <2>1. LoopInv'
    BY <2>0, QuietLemma
  <2>2. LateInv'
    BY <1>3 DEF TestSucceeds, LateInv, AvgInv
  <2> QED
    BY <1>3, <2>1, <2>2 DEF TestSucceeds, LoopInv, AvgInv
<1>4. CASE TestFails(r)
  <2>0. /\ pc[r] = "test"
        /\ pc' = [pc EXCEPT ![r] = "while"] /\ UNCHANGED <<step, calls>>
    BY <1>4 DEF TestFails
  <2>1. LoopInv'
    BY <2>0, QuietLemma
  <2>2. LateInv'
    BY <1>4 DEF TestFails, LateInv
  <2> QED
    BY <1>4, <2>1, <2>2 DEF TestFails, LoopInv, AvgInv
<1>5. CASE AllreduceMax(r)
  <2>1. LoopInv'
    BY <1>5, QuietLemma DEF AllreduceMax
  <2>2. LateInv'
    BY <1>5 DEF AllreduceMax, LateInv
  <2> QED
    BY <1>5, <2>1, <2>2 DEF AllreduceMax, LoopInv, AvgInv
<1> QED
  BY <1>1, <1>2, <1>3, <1>4, <1>5

\* The second reduction is called when the first has returned.
LEMMA AllreduceMinLemma ==
  ASSUME AvgIInv, NEW r \in Rank, AllreduceMin(r)
  PROVE  AvgIInv'
<1> USE DEF AvgIInv
<1>1. /\ pc[r] = "allreduce" /\ Returns(r)
      /\ pc' = [pc EXCEPT ![r] = "allreduce max"]
      /\ calls' = [calls EXCEPT ![r] = Append(@, "Allreduce")]
      /\ UNCHANGED <<step, late, barrier, all_done>>
  BY DEF AllreduceMin, Call
<1>2. /\ calls \in [Rank -> Seq(Kinds)]
      /\ Len(calls[r]) = step[r] /\ step[r] \in Nat
  BY <1>1, TypeLemma
<1>3. /\ calls' \in [Rank -> Seq(Kinds)]
      /\ Len(calls'[r]) = Len(calls[r]) + 1
      /\ calls'[r][Len(calls[r]) + 1] = "Allreduce"
      /\ \A q \in Rank : q # r => calls'[q] = calls[q]
      /\ \A q \in Rank : Len(calls[q]) \in Nat
      /\ \A q \in Rank : \A i \in 1..Len(calls[q]) : i \in 1..Len(calls'[q]) /\ calls'[q][i] = calls[q][i]
  <2>1. "Allreduce" \in Kinds
    BY DEF Kinds
  <2> QED
    BY <1>1, <1>2, <2>1, CallLemma
<1>4. pc'[r] = "allreduce max" /\ \A q \in Rank : q # r => pc'[q] = pc[q]
  BY <1>1 DEF AvgInv
<1>5. AvgInv'
  <2>1. pc' \in [Rank -> {"while", "alltoall", "test", "allreduce", "allreduce max", "finalize"}]
    BY <1>1 DEF AvgInv
  <2>2. calls' \in [Rank -> Seq({"Alltoall", "Allreduce"})]
    BY <1>3 DEF Kinds
  <2>3. ASSUME NEW q \in Rank
        PROVE Len(calls'[q]) = IF pc'[q] \in {"allreduce max", "finalize"}
                               THEN step'[q] + 1 ELSE step'[q]
    BY <1>1, <1>2, <1>3, <1>4 DEF AvgInv
  <2> QED
    BY <1>1, <2>1, <2>2, <2>3 DEF AvgInv
<1>6. LateInv'
  BY <1>1 DEF LateInv
<1>7. \A q \in Rank : InLoop(q)' <=> InLoop(q)
  BY <1>1, <1>4 DEF InLoop
<1>8. StepInv'
  BY <1>1, <1>4, <1>7 DEF StepInv
<1>9. KindInv'
  <2> SUFFICES ASSUME NEW q \in Rank, NEW i \in 1..Len(calls'[q])
               PROVE  calls'[q][i] = "Alltoall" <=> (i < step'[q] \/ InLoop(q)')
    BY DEF KindInv
  <2>1. CASE i \in 1..Len(calls[q])
    <3>1. calls'[q][i] = calls[q][i]
      BY <1>3, <2>1
    <3>2. calls[q][i] = "Alltoall" <=> (i < step[q] \/ InLoop(q))
      BY <2>1 DEF KindInv
    <3> QED
      BY <1>1, <1>7, <3>1, <3>2
  <2>2. CASE i \notin 1..Len(calls[q])
    <3>1. q = r /\ i = Len(calls[r]) + 1
      BY <1>3, <2>2
    <3>2. calls'[q][i] = "Allreduce"
      BY <1>3, <3>1
    <3>3. ~(i < step'[q])
      <4>1. step'[q] = step[r] /\ i = step[r] + 1
        BY <1>1, <1>2, <3>1
      <4> QED
        BY <1>2, <4>1
    <3>4. ~InLoop(q)'
      BY <1>4, <3>1 DEF InLoop
    <3> QED
      BY <3>2, <3>3, <3>4
  <2> QED
    BY <2>1, <2>2
<1>10. PastInv'
  <2>1. ASSUME NEW q \in Rank, q # r PROVE Past(q)' = Past(q)
    BY <1>3, <1>4, <2>1 DEF Past
  <2>2. Past(r)' = Len(calls'[r]) - 1
    BY <1>4 DEF Past
  <2>3. Past(r) = Len(calls[r]) - 1
    BY <1>1 DEF Past
  <2>4. Past(r)' = Len(calls[r])
    BY <1>2, <1>3, <2>2
  <2> QED
    BY <1>1, <1>3, <2>1, <2>3, <2>4, PastLemma
<1> QED
  BY <1>5, <1>6, <1>8, <1>9, <1>10

\* The invariant is kept by every step, and by steps that change nothing.
LEMMA NextAvg == AvgIInv /\ [AvgNext]_avars => AvgIInv'
<1> SUFFICES ASSUME AvgIInv, [AvgNext]_avars PROVE AvgIInv'
  OBVIOUS
<1>1. ASSUME NEW r \in Rank, AvgStep(r) PROVE AvgIInv'
  BY <1>1, WhileLemma, AllreduceMinLemma, QuietSteps DEF AvgStep
<1>2. CASE UNCHANGED avars
  <2>1. AvgInv' /\ LateInv'
    BY <1>2 DEF avars, AvgIInv, AvgInv, LateInv
  <2>2. \A r \in Rank : (InLoop(r)' <=> InLoop(r)) /\ Past(r)' = Past(r)
    BY <1>2 DEF avars, InLoop, Past
  <2>3. StepInv' /\ KindInv'
    BY <1>2, <2>2 DEF avars, AvgIInv, StepInv, KindInv
  <2>4. PastInv'
    BY <1>2, <2>2 DEF avars, AvgIInv, PastInv
  <2> QED
    BY <2>1, <2>3, <2>4 DEF AvgIInv
<1> QED
  BY <1>1, <1>2 DEF AvgNext

\* The inductive invariant holds throughout.
THEOREM AvgInductive == AvgSpec => []AvgIInv
<1> QED
  BY InitAvg, NextAvg, PTL DEF AvgSpec

-----------------------------------------------------------------------------

\* Types, and a rank's step counts its blocking collectives.
THEOREM AvgInvariance == AvgSpec => []AvgInv
<1>1. AvgIInv => AvgInv
  BY DEF AvgIInv
<1> QED
  BY <1>1, AvgInductive, PTL

\* A rank gives up for lack of time only when all ranks are out of time.
THEOREM AllLate == AvgSpec => []StopsOnlyWhenAllLate
<1>1. AvgIInv => StopsOnlyWhenAllLate
  BY DEF AvgIInv, LateInv, StopsOnlyWhenAllLate
<1> QED
  BY <1>1, AvgInductive, PTL

\* How the calls that a rank has made, and the ones that have returned to it,
\* follow from its steps.
LEMMA CountLemma ==
  ASSUME AvgIInv, NEW r \in Rank
  PROVE  /\ step[r] \in Nat
         /\ Len(calls[r]) = step[r] \/ (Len(calls[r]) = step[r] + 1 /\ ~InLoop(r))
         /\ Past(r) \in Int /\ Past(r) >= step[r] - 1
<1>1. /\ step[r] \in Nat
      /\ Len(calls[r]) = IF pc[r] \in {"allreduce max", "finalize"} THEN step[r] + 1 ELSE step[r]
  BY TypeLemma DEF AvgIInv
<1>2. CASE pc[r] \in {"allreduce max", "finalize"}
  <2>1. Len(calls[r]) = step[r] + 1 /\ ~InLoop(r)
    BY <1>1, <1>2 DEF InLoop
  <2>2. Past(r) = Len(calls[r]) - 1 \/ Past(r) = Len(calls[r])
    BY DEF Past
  <2>3. step[r] \in Nat
    BY <1>1
  <2>4. Past(r) \in Int /\ Past(r) >= step[r] - 1
    BY <2>1, <2>2, <2>3
  <2> QED
    BY <2>1, <2>3, <2>4
<1>3. CASE pc[r] \notin {"allreduce max", "finalize"}
  <2>1. Len(calls[r]) = step[r]
    BY <1>1, <1>3
  <2>2. Past(r) = Len(calls[r]) - 1 \/ Past(r) = Len(calls[r])
    BY DEF Past
  <2>3. step[r] \in Nat
    BY <1>1
  <2>4. Past(r) \in Int /\ Past(r) >= step[r] - 1
    BY <2>1, <2>2, <2>3
  <2> QED
    BY <2>1, <2>3, <2>4
<1> QED
  BY <1>2, <1>3

\* A rank out of the loop is no more steps ahead: the last call of MPI_Alltoall
\* would have had to match its reduction.
LEMMA LeaveLemma ==
  ASSUME AvgIInv, NEW r \in Rank, NEW q \in Rank, ~InLoop(r), ~InLoop(q)
  PROVE  step[q] <= step[r]
<1>1. step[r] \in Nat /\ step[q] \in Nat /\ step[r] > 0
  BY CountLemma DEF AvgIInv, StepInv, InLoop
<1> SUFFICES ASSUME step[q] > step[r] PROVE FALSE
  BY <1>1
<1>2. step[r] \in 1..Past(q)
  <2>1. Past(q) \in Int /\ Past(q) >= step[q] - 1
    BY CountLemma
  <2> QED
    BY <1>1, <2>1
<1>3. calls[r][step[r]] = calls[q][step[r]]
  BY <1>2 DEF AvgIInv, PastInv
<1>4. step[r] \in 1..Len(calls[r]) /\ step[r] \in 1..Len(calls[q])
  <2>1. /\ Len(calls[q]) = step[q] \/ Len(calls[q]) = step[q] + 1
        /\ Len(calls[r]) = step[r] \/ Len(calls[r]) = step[r] + 1
    BY CountLemma
  <2> QED
    BY <1>1, <2>1
<1>5. calls[q][step[r]] = "Alltoall"
  BY <1>4 DEF AvgIInv, KindInv
<1>6. calls[r][step[r]] # "Alltoall"
  BY <1>1, <1>4 DEF AvgIInv, KindInv
<1> QED
  BY <1>3, <1>5, <1>6

\* Ranks leave the loop with the same number of steps and are never more than
\* a step apart.
THEOREM Agree == AvgSpec => []LeaversAgree
<1>1. AvgIInv => LeaversAgree
  <2> SUFFICES ASSUME AvgIInv, NEW r \in Rank, NEW q \in Rank
               PROVE  /\ ~InLoop(r) /\ ~InLoop(q) => step[r] = step[q]
                      /\ step[r] <= step[q] + 1
    BY DEF LeaversAgree
  <2>1. step[r] \in Nat /\ step[q] \in Nat
    BY CountLemma
  <2>2. ASSUME ~InLoop(r), ~InLoop(q) PROVE step[r] = step[q]
    <3>1. step[r] <= step[q] /\ step[q] <= step[r]
      BY <2>2, LeaveLemma
    <3> QED
      BY <2>1, <3>1
  <2>3. ASSUME step[r] > step[q] + 1 PROVE FALSE
    <3>1. Past(r) >= step[r] - 1 /\ Past(r) \in Int
      BY <2>1, CountLemma
    <3>2. step[r] - 1 \in 1..Past(r)
      BY <2>1, <2>3, <3>1
    <3>3. step[r] - 1 <= Len(calls[q])
      BY <3>2 DEF AvgIInv, PastInv
    <3>4. Len(calls[q]) = step[q] + 1 /\ ~InLoop(q)
      <4>1. Len(calls[q]) = step[q] \/ (Len(calls[q]) = step[q] + 1 /\ ~InLoop(q))
        BY CountLemma
      <4> QED
        BY <2>1, <2>3, <3>3, <4>1
    <3>5. calls[q][step[q] + 1] # "Alltoall"
      <4>1. step[q] + 1 \in 1..Len(calls[q]) /\ ~(step[q] + 1 < step[q])
        BY <2>1, <3>4
      <4> QED
        BY <3>4, <4>1 DEF AvgIInv, KindInv
    <3>6. step[q] + 1 \in 1..Past(r) /\ step[q] + 1 \in 1..Len(calls[r])
      <4>1. Len(calls[r]) = step[r] \/ Len(calls[r]) = step[r] + 1
        BY CountLemma
      <4> QED
        BY <2>1, <2>3, <3>1, <4>1
    <3>7. calls[q][step[q] + 1] = calls[r][step[q] + 1]
      BY <3>6 DEF AvgIInv, PastInv
    <3>8. calls[r][step[q] + 1] = "Alltoall"
      BY <2>3, <3>6 DEF AvgIInv, KindInv
    <3> QED
      BY <3>5, <3>7, <3>8
  <2> QED
    BY <2>1, <2>2, <2>3
<1> QED
  BY <1>1, AvgInductive, PTL
=============================================================================
