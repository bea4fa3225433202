------------------------ MODULE MasterSlaveRoundsProof ------------------------
(***************************************************************************)
(* Proofs about mpi_io_master_slave_write.py and _read.py for any number   *)
(* of slaves and runs and arrays of any length.                            *)
(*                                                                         *)
(* The rounds come from counting.  A slave that asks for a step has ended  *)
(* all its rounds, so that all slaves have joined these; if the next step  *)
(* belonged to a later round than the slave's next one, that round would   *)
(* already be full, with one slave missing.  The places in the file come   *)
(* from adding up sizes: slaves that have ended equally many rounds have   *)
(* the same last_offset, and in a round the places lie one behind the      *)
(* other.  In the reader a step is ahead of one slave, or read, and its    *)
(* array is in the record of what was read just once.                      *)
(***************************************************************************)
EXTENDS MasterSlaveRounds, OffsetsProof

NSteps == Padded(NRuns)
Step == 0..NSteps-1
Result == -1..NSteps-1
Job == {"write", "written", "read", "return"}

Writing == job[Master] \in {"write", "written"}

LoopTypes ==
  /\ mpc \in {"recv", "sending", "final", "waitall", "over"}
  /\ nsteps = NSteps /\ next \in 0..NSteps /\ nstopped \in Nat /\ caught \subseteq Step
  /\ spc \in [Slave -> {"ready", "wait", "work", "over"}]
  /\ task \in [Slave -> Int] /\ result \in [Slave -> Result]
  /\ mq \in [Slave -> Seq(Result)] /\ sq \in [Slave -> Seq(Result)]

RoundTypes ==
  /\ job \in [Proc -> Job]
  /\ stage \in [Slave -> {"begin", "allgather", "reading", "IndexError"}]
  /\ joined \in [Slave -> Seq(Step)]
  /\ last_offset \in [Slave -> Nat]
  /\ lengths \in [Steps -> Nat]
  /\ dfile \in [0..End-1 -> Int]
  /\ calls \in [Slave -> Nat]

\* A slave and the messages between it and the master.
Places ==
  \A s \in Slave :
    \/ spc[s] \in {"ready", "over"} /\ mq[s] = <<>> /\ sq[s] = <<>>
    \/ spc[s] = "work" /\ mq[s] = <<>> /\ sq[s] = <<>> /\ task[s] \in Step
    \/ spc[s] = "wait" /\ sq[s] = <<>> /\ \E x \in Result : mq[s] = <<x>>
    \/ spc[s] = "wait" /\ mq[s] = <<>> /\ \E x \in Result : sq[s] = <<x>>

\* What the slave s owes, place by place.
Owes ==
  \A s \in Slave :
    /\ spc[s] = "ready" => Owed(s) = result[s]
    /\ spc[s] = "work" => Owed(s) = task[s]
    /\ spc[s] = "over" => Owed(s) = None
    /\ \A x \in Result : mq[s] = <<x>> \/ sq[s] = <<x>> => Owed(s) = x

\* The master has sent its terminate tag to s.
Stopped(s) == sq[s] = <<Terminate>> \/ spc[s] = "over"

Loop ==
  /\ mpc = "recv" => next < NSteps
  /\ mpc \in {"final", "waitall", "over"} => next = NSteps
  /\ mpc \in {"waitall", "over"} => \A s \in Slave : Stopped(s)
  /\ nstopped = Cardinality({s \in Slave : Stopped(s)})

\* No result gets lost.
Sharing == \A k \in 0..next-1 : k \in caught \/ \E s \in Slave : Owed(s) = k

Dispatching == LoopTypes /\ Places /\ Loop /\ Sharing

\* The two jobs are one behind the other, and end behind the loops.
Jobs ==
  /\ \/ \A p \in Proc : job[p] \in {"write", "written"}
     \/ \A p \in Proc : job[p] \in {"read", "return"}
  /\ job[Master] \in {"written", "return"} => mpc = "over"
  /\ \A s \in Slave :
       /\ job[s] \in {"written", "return"} => spc[s] = "over"
       /\ stage[s] # "begin" => spc[s] = "work"
       /\ stage[s] = "allgather" => job[s] = "write"
       /\ stage[s] \in {"reading", "IndexError"} => job[s] = "read"


Header ==
  /\ Writing => \A k \in Steps : k \in caught => lengths[k] = Length[k]
  /\ HeaderComplete

Batch(r) == (r-1)*NSlaves .. r*NSlaves - 1

\* The steps s got in the writer, the one it has not joined a round with last.
Turns(s) ==
  IF sq[s] # <<>> /\ Head(sq[s]) # Terminate THEN Append(joined[s], Head(sq[s]))
  ELSE IF spc[s] = "work" /\ stage[s] = "begin" THEN Append(joined[s], task[s])
  ELSE joined[s]

Rounds(s) == 1..Len(Turns(s))

\* The r-th step of a slave is in the r-th batch; each step sent is one slave's.
Batches ==
  /\ \A s \in Slave : \A r \in Rounds(s) : Turns(s)[r] \in 0..next-1 /\ Turns(s)[r] \in Batch(r)
  /\ \A s, t \in Slave : s # t => \A r \in Rounds(s) \cap Rounds(t) : Turns(s)[r] # Turns(t)[r]
  /\ \A k \in 0..next-1 : \E s \in Slave : \E r \in Rounds(s) : Turns(s)[r] = k

\* How many rounds s has ended.
Done(s) == IF stage[s] = "allgather" THEN Len(joined[s]) - 1 ELSE Len(joined[s])

Lockstep ==
  /\ \A s, t \in Slave : Done(s) <= Len(joined[t])
  /\ \A s \in Slave : stage[s] = "allgather" =>
       Len(joined[s]) > 0 /\ joined[s][Len(joined[s])] = task[s]

RoundSizes(r) == [t \in Slave |-> Size(joined[t][r])]

\* The first place of q's array of round r, for a slave s that is at round r.
From(s, q, r) == last_offset[s] + Before(RoundSizes(r), q) * FSize

Offset ==
  \A s, t \in Slave :
    /\ Done(s) = Done(t) => last_offset[s] = last_offset[t]
    /\ Done(t) = Done(s) + 1 =>
         last_offset[t] = last_offset[s] + SumFunction(RoundSizes(Done(t)))

\* A place in the file, by the round that wrote it last.
Stored(i) ==
  \/ dfile[i] = Hole
  \/ \E q \in Slave : \E r \in 1..Done(q) :
       /\ joined[q][r] = dfile[i]
       /\ \A s \in Slave : Done(s) = r-1 =>
            i \in From(s, q, r)..From(s, q, r) + Size(joined[q][r])*FSize - 1

Written == Batches /\ Lockstep /\ Offset /\ \A i \in DOMAIN dfile : Stored(i)

\* The step that s has been handed and has not done, if any.
Ahead(s) ==
  IF sq[s] # <<>> THEN Head(sq[s]) ELSE IF spc[s] = "work" THEN task[s] ELSE None

\* What is read when all steps handed out are done but those that are ahead.
ReadSoFar ==
  [k \in Steps |-> IF k < next /\ \A s \in Slave : Ahead(s) # k THEN <<InFile(k)>> ELSE <<>>]

\* No two slaves have the same step ahead.
Apart ==
  /\ \A s \in Slave : Ahead(s) \in -1..next-1
  /\ \A s, t \in Slave : s # t /\ Ahead(s) = Ahead(t) => Ahead(s) = None

Reads ==
  /\ Writing => got = [k \in Steps |-> <<>>]
  /\ ~Writing => lengths = Length /\ got = ReadSoFar /\ Apart

RoundsInv ==
  /\ Dispatching /\ RoundTypes /\ Jobs /\ Header /\ Reads /\ RoundsAreBatches
  /\ Writing => Written

-----------------------------------------------------------------------------
(* Numbers.                                                                *)

LEMMA Numbers ==
  /\ NSlaves \in Nat \ {0} /\ NRuns \in Nat /\ FSize \in Nat \ {0}
  /\ NSteps \in Nat /\ NRuns <= NSteps
  /\ None = -1 /\ Terminate = -1 /\ Master \notin Slave
  /\ IsFiniteSet(Slave) /\ Cardinality(Slave) = NSlaves /\ Slave = 1..NSlaves
<1>1. NSlaves \in Nat \ {0} /\ NRuns \in Nat /\ FSize \in Nat \ {0} /\ Slave = 1..NSlaves
  BY RoundsAssumption
<1>2. IsFiniteSet(Slave) /\ Cardinality(Slave) = NSlaves
  BY <1>1, FS_Interval
<1>3. NSteps \in Nat /\ NRuns <= NSteps
  <2> DEFINE d == NRuns \div NSlaves
             m == NRuns % NSlaves
  <2>1. d \in Nat /\ m \in 0..NSlaves-1 /\ NRuns = d * NSlaves + m
    BY <1>1
  <2>2. (d + 1) * NSlaves = d * NSlaves + NSlaves /\ d * NSlaves \in Nat
    BY <1>1, <2>1
  <2>3. NSteps = IF m = 0 THEN NRuns ELSE (d + 1) * NSlaves
    BY DEF NSteps, Padded
  <2> HIDE DEF d, m
  <2> QED
    BY <1>1, <2>1, <2>2, <2>3
<1> QED
  BY <1>1, <1>2, <1>3 DEF None, Terminate, Master

LEMMA BatchAfter ==
  ASSUME NEW r \in Nat
  PROVE  r*NSlaves \in Nat /\ Batch(r+1) = r*NSlaves .. r*NSlaves + NSlaves - 1
<1> DEFINE x == r*NSlaves
           l == (r+1-1)*NSlaves
           u == (r+1)*NSlaves
           n == NSlaves
<1>1. n \in Nat /\ x \in Nat /\ u = x + n
  BY Numbers
<1>2. r+1-1 = r
  OBVIOUS
<1>3. l = x
  BY <1>2
<1>4. Batch(r+1) = l..u-1
  BY DEF Batch
<1> HIDE DEF x, l, u, n
<1>5. Batch(r+1) = x..x+n-1
  BY <1>1, <1>3, <1>4
<1> QED
  BY <1>1, <1>5 DEF x, n

\* A step is in one batch.
LEMMA OneBatch ==
  ASSUME NEW r \in Nat \ {0}, NEW k \in Batch(r)
  PROVE  /\ k \in Nat /\ k \div NSlaves = r-1
         /\ \A q \in Nat \ {0} : k \in Batch(q) => q = r
<1> DEFINE n == NSlaves
<1>1. n \in Nat \ {0}
  BY Numbers
<1>2. \A q \in Nat \ {0} : (q-1)*n \in Nat /\ q*n = (q-1)*n + n /\ (q-1)*NSlaves = (q-1)*n
  BY <1>1
<1>3. k \in Nat /\ \A q \in Nat \ {0} : k \in Batch(q) <=> (q-1)*n <= k /\ k < (q-1)*n + n
  <2> DEFINE F(q) == (q-1)*n
  <2>1. ASSUME NEW q \in Nat \ {0}
        PROVE  F(q) \in Nat /\ Batch(q) = F(q)..F(q)+n-1
    <3>1. F(q) \in Nat /\ q*NSlaves = F(q) + n /\ (q-1)*NSlaves = F(q)
      BY <1>2
    <3>2. Batch(q) = (q-1)*NSlaves..q*NSlaves-1
      BY DEF Batch
    <3> DEFINE u == q*NSlaves
               l == (q-1)*NSlaves
    <3>3. u = F(q) + n /\ l = F(q) /\ Batch(q) = l..u-1
      BY <3>1, <3>2
    <3>0. n \in Int
      BY <1>1
    <3> HIDE DEF u, l, F, n
    <3>4. Batch(q) = F(q)..F(q)+n-1
      BY <3>0, <3>1, <3>3
    <3> QED
      BY <3>1, <3>4
  <2>2. n \in Nat /\ k \in Batch(r)
    BY <1>1
  <2> HIDE DEF F, n
  <2>3. k \in Nat
    BY <2>1, <2>2
  <2>4. ASSUME NEW q \in Nat \ {0}
        PROVE  k \in Batch(q) <=> F(q) <= k /\ k < F(q) + n
    BY <2>1, <2>2, <2>3
  <2> QED
    BY <2>3, <2>4 DEF F
<1>4. \A d \in Nat, e \in Nat : d*n <= k /\ k < e*n + n => d <= e
  <2> SUFFICES ASSUME NEW d \in Nat, NEW e \in Nat, d*n <= k, k < e*n + n, e+1 <= d
               PROVE  FALSE
    BY <1>1
  <2>1. (e+1)*n <= d*n
    BY <1>1
  <2>2. (e+1)*n = e*n + n /\ e*n \in Nat /\ d*n \in Nat
    BY <1>1
  <2> QED
    BY <1>1, <1>3, <2>1, <2>2
<1>5. \A q \in Nat \ {0} : k \in Batch(q) => q = r
  <2> SUFFICES ASSUME NEW q \in Nat \ {0}, k \in Batch(q)
               PROVE  q = r
    OBVIOUS
  <2>1. q-1 \in Nat /\ r-1 \in Nat
    OBVIOUS
  <2>2. q-1 <= r-1 /\ r-1 <= q-1
    BY <1>3, <1>4, <2>1
  <2> QED
    BY <2>2
<1>6. k \div n = r-1
  <2> DEFINE d == k \div n
             m == k % n
  <2>1. d \in Nat /\ m \in 0..n-1 /\ k = d*n + m
    BY <1>1, <1>3
  <2>2. r-1 \in Nat /\ (r-1)*n <= k /\ k < (r-1)*n + n
    BY <1>3
  <2>3. d*n <= k /\ k < d*n + n
    <3>1. d*n \in Nat
      BY <1>1, <2>1
    <3> HIDE DEF d, m
    <3> QED
      BY <1>1, <2>1, <3>1
  <2>4. d <= r-1 /\ r-1 <= d
    BY <1>4, <2>1, <2>2, <2>3
  <2> HIDE DEF d
  <2>5. d = r-1
    BY <2>1, <2>2, <2>4
  <2> QED
    BY <2>5 DEF d
<1> QED
  BY <1>3, <1>5, <1>6

LEMMA BatchSize ==
  ASSUME NEW r \in Nat \ {0}
  PROVE  IsFiniteSet(Batch(r)) /\ Cardinality(Batch(r)) = NSlaves
<1> DEFINE a == (r-1)*NSlaves
           b == r*NSlaves - 1
<1>1. a \in Int /\ b = a + NSlaves - 1
  BY Numbers
<1>2. Batch(r) = a..b
  BY DEF Batch
<1> HIDE DEF a, b
<1> QED
  BY <1>1, <1>2, Numbers, FS_Interval

\* NSlaves different steps of one batch are the whole batch.
LEMMA FullBatch ==
  ASSUME NEW r \in Nat \ {0}, NEW f \in [Slave -> Batch(r)],
         \A s, t \in Slave : s # t => f[s] # f[t]
  PROVE  {f[s] : s \in Slave} = Batch(r)
<1>1. f \in Injection(Slave, Batch(r))
  BY DEF Injection, IsInjective
<1>2. f \in Surjection(Slave, Batch(r))
  BY <1>1, BatchSize, Numbers, FS_Injection
<1> QED
  BY <1>2 DEF Surjection

\* The steps of a batch do not fit on fewer slaves, one for each.
LEMMA NotWithout ==
  ASSUME NEW r \in Nat \ {0}, NEW s \in Slave, NEW f \in [Batch(r) -> Slave \ {s}]
  PROVE  \E x, y \in Batch(r) : x # y /\ f[x] = f[y]
<1>1. IsFiniteSet(Slave \ {s}) /\ Cardinality(Slave \ {s}) = NSlaves - 1
  BY Numbers, FS_RemoveElement
<1>2. Cardinality(Slave \ {s}) < Cardinality(Batch(r))
  BY <1>1, BatchSize, Numbers
<1> QED
  BY <1>1, <1>2, BatchSize, FS_PigeonHole

-----------------------------------------------------------------------------
(* The message loop, whichever job it is in.                               *)

LEMMA OwedLemma == Places => Owes
<1> SUFFICES ASSUME Places, NEW s \in Slave
    PROVE  /\ spc[s] = "ready" => Owed(s) = result[s]
           /\ spc[s] = "work" => Owed(s) = task[s]
           /\ spc[s] = "over" => Owed(s) = None
           /\ \A x \in Result : mq[s] = <<x>> \/ sq[s] = <<x>> => Owed(s) = x
  BY DEF Owes
<1>1. CASE spc[s] \in {"ready", "over", "work"} /\ mq[s] = <<>> /\ sq[s] = <<>>
  BY <1>1 DEF Owed
<1>2. CASE spc[s] = "wait" /\ sq[s] = <<>> /\ \E x \in Result : mq[s] = <<x>>
  BY <1>2 DEF Owed
<1>3. CASE spc[s] = "wait" /\ mq[s] = <<>> /\ \E x \in Result : sq[s] = <<x>>
  BY <1>3 DEF Owed
<1> QED
  BY <1>1, <1>2, <1>3 DEF Places

\* A message on its way to the master, and nothing else of its sender.
LEMMA InMessage ==
  ASSUME LoopTypes, Places, NEW s \in Slave, mq[s] # <<>>
  PROVE  /\ spc[s] = "wait" /\ sq[s] = <<>>
         /\ Head(mq[s]) \in Result /\ mq[s] = <<Head(mq[s])>> /\ Tail(mq[s]) = <<>>
         /\ Owed(s) = Head(mq[s])
<1>1. PICK x \in Result : spc[s] = "wait" /\ sq[s] = <<>> /\ mq[s] = <<x>>
  BY DEF Places
<1>2. Head(mq[s]) = x /\ Tail(mq[s]) = <<>>
  BY <1>1
<1>3. Owed(s) = x
  BY <1>1, OwedLemma DEF Owes
<1> QED
  BY <1>1, <1>2, <1>3

\* An instruction on its way to the slave.
LEMMA InInstruction ==
  ASSUME LoopTypes, Places, NEW s \in Slave, sq[s] # <<>>
  PROVE  /\ spc[s] = "wait" /\ mq[s] = <<>>
         /\ Head(sq[s]) \in Result /\ sq[s] = <<Head(sq[s])>> /\ Tail(sq[s]) = <<>>
         /\ Owed(s) = Head(sq[s])
<1>1. PICK x \in Result : spc[s] = "wait" /\ mq[s] = <<>> /\ sq[s] = <<x>>
  BY DEF Places
<1>2. Head(sq[s]) = x /\ Tail(sq[s]) = <<>>
  BY <1>1
<1>3. Owed(s) = x
  BY <1>1, OwedLemma DEF Owes
<1> QED
  BY <1>1, <1>2, <1>3

\* What s owes only depends on where it is; the others are left alone.
OthersStay(s) ==
  \A t \in Slave \ {s} : /\ spc'[t] = spc[t] /\ task'[t] = task[t] /\ result'[t] = result[t]
                         /\ mq'[t] = mq[t] /\ sq'[t] = sq[t]

LEMMA OthersOwe ==
  ASSUME NEW s \in Slave, OthersStay(s)
  PROVE  \A t \in Slave \ {s} : Owed(t)' = Owed(t) /\ (Stopped(t)' <=> Stopped(t))
BY DEF OthersStay, Owed, Stopped

\* The slave and its messages, in the master's answer: answer is a step or the tag.
LEMMA Answered ==
  ASSUME LoopTypes, Places, NEW s \in Slave, mq[s] # <<>>, NEW x \in Result,
         mq' = [mq EXCEPT ![s] = Tail(@)], sq' = [sq EXCEPT ![s] = Append(@, x)],
         UNCHANGED <<spc, task, result>>
  PROVE  /\ spc[s] = "wait" /\ sq[s] = <<>> /\ mq'[s] = <<>> /\ sq'[s] = <<x>>
         /\ mq' \in [Slave -> Seq(Result)] /\ sq' \in [Slave -> Seq(Result)]
         /\ OthersStay(s) /\ Places'
         /\ Head(mq[s]) = Owed(s) /\ Owed(s) \in Result
<1>1. /\ spc[s] = "wait" /\ sq[s] = <<>> /\ Tail(mq[s]) = <<>>
      /\ Head(mq[s]) = Owed(s) /\ Owed(s) \in Result
  BY InMessage
<1>2. Append(sq[s], x) = <<x>>
  BY <1>1
<1>3. mq' = [mq EXCEPT ![s] = <<>>] /\ sq' = [sq EXCEPT ![s] = <<x>>]
  BY <1>1, <1>2
<1>4. /\ mq'[s] = <<>> /\ sq'[s] = <<x>>
      /\ \A t \in Slave \ {s} : mq'[t] = mq[t] /\ sq'[t] = sq[t]
  BY <1>3 DEF LoopTypes
<1>5. mq' \in [Slave -> Seq(Result)] /\ sq' \in [Slave -> Seq(Result)]
  <2>1. <<>> \in Seq(Result) /\ <<x>> \in Seq(Result)
    OBVIOUS
  <2> QED
    BY <1>3, <2>1 DEF LoopTypes
<1>6. OthersStay(s)
  BY <1>4 DEF OthersStay
<1>7. Places'
  BY <1>1, <1>4 DEF Places
<1> QED
  BY <1>1, <1>4, <1>5, <1>6, <1>7

LEMMA DispatchKeeps ==
  ASSUME Dispatching, NEW s \in Slave, Dispatch(s)
  PROVE  /\ Dispatching'
         /\ spc[s] = "wait" /\ sq[s] = <<>> /\ sq'[s] = <<next>> /\ OthersStay(s)
         /\ next \in Step /\ next' = next + 1 /\ UNCHANGED spc
         /\ caught' = caught \union ({Head(mq[s])} \ {None}) /\ Head(mq[s]) \in Result
         /\ mpc = "recv"
<1> USE DEF Dispatching
<1>1. next \in Step /\ next + 1 \in 0..NSteps /\ next \in Result /\ next # Terminate
  BY Numbers DEF Dispatch, Loop, LoopTypes, Step, Result
<1>2. /\ spc[s] = "wait" /\ sq[s] = <<>> /\ mq'[s] = <<>> /\ sq'[s] = <<next>>
      /\ mq' \in [Slave -> Seq(Result)] /\ sq' \in [Slave -> Seq(Result)]
      /\ OthersStay(s) /\ Places'
      /\ Head(mq[s]) = Owed(s) /\ Owed(s) \in Result
  BY <1>1, Answered DEF Dispatch, svars
<1>3. /\ caught' = caught \union ({Owed(s)} \ {None})
      /\ next' = next + 1 /\ mpc = "recv" /\ mpc' = "sending"
      /\ UNCHANGED <<nsteps, nstopped, spc, task, result>>
  BY <1>2 DEF Dispatch, Catch, svars
<1>4. LoopTypes'
  <2>1. Owed(s) # None => Owed(s) \in Step
    BY <1>2, Numbers DEF Result, Step
  <2>2. caught' \subseteq Step
    BY <1>3, <2>1 DEF LoopTypes
  <2> QED
    BY <1>1, <1>2, <1>3, <2>2 DEF LoopTypes
<1>5. \A t \in Slave \ {s} : Owed(t)' = Owed(t) /\ (Stopped(t)' <=> Stopped(t))
  BY <1>2, OthersOwe
<1>6. Loop'
  <2>1. Stopped(s)' <=> Stopped(s)
    <3>1. sq[s] # <<Terminate>> /\ sq'[s] # <<Terminate>>
      BY <1>1, <1>2
    <3> QED
      BY <1>3, <3>1 DEF Stopped
  <2>2. {t \in Slave : Stopped(t)}' = {t \in Slave : Stopped(t)}
    BY <1>5, <2>1
  <2> QED
    BY <1>3, <2>2 DEF Loop
<1>7. Sharing'
  <2>1. Owed(s)' = next
    <3>1. Places' => Owes'
      BY OwedLemma, PTL
    <3> QED
      BY <1>1, <1>2, <1>4, <3>1 DEF Owes
  <2>2. ASSUME NEW k \in 0..next'-1
        PROVE  k \in caught' \/ \E t \in Slave : Owed(t)' = k
    <3>1. CASE k = next
      BY <2>1, <3>1
    <3>2. CASE k # next
      <4>1. k \in 0..next-1 /\ k # None
        BY <1>3, <3>2, Numbers DEF LoopTypes
      <4>2. CASE k \in caught
        BY <1>3, <4>2
      <4>3. CASE \E t \in Slave : Owed(t) = k
        <5>1. PICK t \in Slave : Owed(t) = k
          BY <4>3
        <5>2. CASE t = s
          BY <1>3, <4>1, <5>1, <5>2
        <5>3. CASE t # s
          BY <1>5, <5>1, <5>3
        <5> QED
          BY <5>2, <5>3
      <4> QED
        BY <4>1, <4>2, <4>3 DEF Sharing
    <3> QED
      BY <3>1, <3>2
  <2> QED
    BY <2>2 DEF Sharing
<1> QED
  BY <1>1, <1>2, <1>3, <1>4, <1>6, <1>7

LEMMA StopKeeps ==
  ASSUME Dispatching, NEW s \in Slave, Stop(s)
  PROVE  /\ Dispatching'
         /\ spc[s] = "wait" /\ sq[s] = <<>> /\ sq'[s] = <<Terminate>> /\ OthersStay(s)
         /\ UNCHANGED <<next, spc>>
         /\ caught' = caught \union ({Head(mq[s])} \ {None}) /\ Head(mq[s]) \in Result
         /\ mpc = "final"
<1> USE DEF Dispatching
<1>1. next = NSteps /\ Terminate \in Result
  BY Numbers DEF Stop, Loop, Result
<1>2. /\ spc[s] = "wait" /\ sq[s] = <<>> /\ mq'[s] = <<>> /\ sq'[s] = <<Terminate>>
      /\ mq' \in [Slave -> Seq(Result)] /\ sq' \in [Slave -> Seq(Result)]
      /\ OthersStay(s) /\ Places'
      /\ Head(mq[s]) = Owed(s) /\ Owed(s) \in Result
  BY <1>1, Answered DEF Stop, svars
<1>3. /\ caught' = caught \union ({Owed(s)} \ {None})
      /\ nstopped' = nstopped + 1 /\ mpc = "final"
      /\ mpc' = IF nstopped' = Cardinality(Slave) THEN "waitall" ELSE "final"
      /\ UNCHANGED <<nsteps, next, spc, task, result>>
  BY <1>2 DEF Stop, Catch, svars
<1>4. LoopTypes'
  <2>1. Owed(s) # None => Owed(s) \in Step
    BY <1>2, Numbers DEF Result, Step
  <2>2. caught' \subseteq Step
    BY <1>3, <2>1 DEF LoopTypes
  <2> QED
    BY <1>2, <1>3, <2>2 DEF LoopTypes
<1>5. \A t \in Slave \ {s} : Owed(t)' = Owed(t) /\ (Stopped(t)' <=> Stopped(t))
  BY <1>2, OthersOwe
<1>6. Loop'
  <2> DEFINE S == {t \in Slave : Stopped(t)}
             SP == {t \in Slave : Stopped(t)'}
  <2>1. SP = S \union {s} /\ s \notin S /\ S \subseteq Slave /\ SP \subseteq Slave
    <3>1. sq[s] # <<Terminate>>
      BY <1>2
    <3>2. ~Stopped(s) /\ Stopped(s)'
      BY <1>2, <1>3, <3>1 DEF Stopped
    <3> QED
      BY <1>5, <3>2
  <2>2. IsFiniteSet(S)
    BY <2>1, SlaveAssumption, FS_Subset
  <2>3. Cardinality(SP) = Cardinality(S) + 1
    BY <2>1, <2>2, FS_AddElement
  <2>4. nstopped' = Cardinality(SP)
    BY <1>3, <2>3 DEF Loop
  <2>5. Cardinality(SP) = Cardinality(Slave) => SP = Slave
    BY <2>1, SlaveAssumption, FS_Subset
  <2>6. mpc' \in {"waitall", "over"} => \A t \in Slave : Stopped(t)'
    BY <1>3, <2>4, <2>5
  <2> QED
    BY <1>1, <1>3, <2>4, <2>6 DEF Loop
<1>7. Sharing'
  <2>1. ASSUME NEW k \in 0..next'-1
        PROVE  k \in caught' \/ \E t \in Slave : Owed(t)' = k
    <3>1. k \in 0..next-1 /\ k # None
      BY <1>3, Numbers DEF LoopTypes
    <3>2. CASE k \in caught
      BY <1>3, <3>2
    <3>3. CASE \E t \in Slave : Owed(t) = k
      <4>1. PICK t \in Slave : Owed(t) = k
        BY <3>3
      <4>2. CASE t = s
        BY <1>3, <3>1, <4>1, <4>2
      <4>3. CASE t # s
        BY <1>5, <4>1, <4>3
      <4> QED
        BY <4>2, <4>3
    <3> QED
      BY <3>1, <3>2, <3>3 DEF Sharing
  <2> QED
    BY <2>1 DEF Sharing
<1> QED
  BY <1>2, <1>3, <1>4, <1>6, <1>7

\* The master goes on: nothing else changes.
LEMMA GoesOnKeeps ==
  ASSUME Dispatching, SendReturns \/ WaitAll
  PROVE  Dispatching' /\ UNCHANGED <<nsteps, next, nstopped, caught, spc, task, result, mq, sq>>
<1> USE DEF Dispatching
<1>1. /\ UNCHANGED <<nsteps, next, nstopped, caught, spc, task, result, mq, sq>>
      /\ \/ mpc = "sending" /\ mpc' = LoopStart(nsteps - next)
         \/ mpc = "waitall" /\ mpc' = "over"
  BY DEF SendReturns, WaitAll, svars
<1>2. LoopTypes' /\ Places'
  BY <1>1 DEF LoopTypes, Places, LoopStart
<1>3. \A t \in Slave : Owed(t)' = Owed(t) /\ (Stopped(t)' <=> Stopped(t))
  BY <1>1 DEF Owed, Stopped
<1>4. Sharing'
  BY <1>1, <1>3 DEF Sharing
<1>5. Loop'
  <2>1. {t \in Slave : Stopped(t)}' = {t \in Slave : Stopped(t)}
    BY <1>3
  <2>2. mpc' = "recv" => next < NSteps
    BY <1>1, Numbers DEF LoopStart, LoopTypes
  <2>3. mpc' \in {"final", "waitall", "over"} => next = NSteps
    BY <1>1, Numbers DEF LoopStart, LoopTypes, Loop
  <2>4. mpc' \in {"waitall", "over"} => \A t \in Slave : Stopped(t)
    BY <1>1 DEF LoopStart, Loop
  <2> QED
    BY <1>1, <1>3, <2>1, <2>2, <2>3, <2>4 DEF Loop
<1> QED
  BY <1>1, <1>2, <1>4, <1>5

\* A step of a slave: what it owes, and whether it is stopped, stay the same.
LEMMA SlaveKeeps ==
  ASSUME Dispatching, NEW s \in Slave, UNCHANGED mvars, OthersStay(s), LoopTypes', Places',
         Owed(s)' = Owed(s), Stopped(s)' <=> Stopped(s)
  PROVE  Dispatching'
<1> USE DEF Dispatching
<1>1. \A t \in Slave : Owed(t)' = Owed(t) /\ (Stopped(t)' <=> Stopped(t))
  BY OthersOwe
<1>2. UNCHANGED <<mpc, nsteps, next, nstopped, caught>>
  BY DEF mvars
<1>3. Sharing'
  BY <1>1, <1>2 DEF Sharing
<1>4. Loop'
  <2>1. {t \in Slave : Stopped(t)}' = {t \in Slave : Stopped(t)}
    BY <1>1
  <2> QED
    BY <1>1, <1>2, <2>1 DEF Loop
<1> QED
  BY <1>3, <1>4

LEMMA SignalKeeps ==
  ASSUME Dispatching, NEW s \in Slave, Signal(s)
  PROVE  /\ Dispatching'
         /\ spc[s] = "ready" /\ sq[s] = <<>> /\ spc'[s] = "wait" /\ sq'[s] = <<>>
         /\ OthersStay(s) /\ UNCHANGED mvars
<1> USE DEF Dispatching
<1>1. /\ spc[s] = "ready" /\ mq[s] = <<>> /\ sq[s] = <<>> /\ result[s] \in Result
      /\ Owed(s) = result[s]
  BY OwedLemma DEF Signal, Places, LoopTypes, Owes
<1>2. /\ mq' = [mq EXCEPT ![s] = <<result[s]>>] /\ spc' = [spc EXCEPT ![s] = "wait"]
      /\ UNCHANGED <<mvars, task, result, sq>>
  <2>1. Append(mq[s], result[s]) = <<result[s]>>
    BY <1>1
  <2> QED
    BY <2>1 DEF Signal
<1>3. /\ mq'[s] = <<result[s]>> /\ spc'[s] = "wait" /\ sq'[s] = <<>> /\ OthersStay(s)
  BY <1>1, <1>2 DEF LoopTypes, OthersStay
<1>4. LoopTypes'
  <2>1. <<result[s]>> \in Seq(Result)
    BY <1>1
  <2>2. mq' \in [Slave -> Seq(Result)] /\ spc' \in [Slave -> {"ready", "wait", "work", "over"}]
    BY <1>2, <2>1 DEF LoopTypes
  <2> QED
    BY <1>2, <2>2 DEF LoopTypes, mvars
<1>5. Places'
  BY <1>1, <1>2, <1>3 DEF Places, OthersStay
<1>6. Owed(s)' = Owed(s)
  <2>1. Places' => Owes'
    BY OwedLemma, PTL
  <2> QED
    BY <1>1, <1>3, <1>4, <1>5, <2>1 DEF Owes
<1>7. Stopped(s)' <=> Stopped(s)
  BY <1>1, <1>3 DEF Stopped
<1>8. Dispatching'
  BY <1>2, <1>3, <1>4, <1>5, <1>6, <1>7, SlaveKeeps
<1> QED
  BY <1>1, <1>2, <1>3, <1>8

\* A slave receives a step, which is its to do, or the terminate tag.
LEMMA InstructedKeeps ==
  ASSUME Dispatching, NEW s \in Slave, Instructed(s)
  PROVE  /\ Dispatching'
         /\ spc[s] = "wait" /\ sq[s] # <<>> /\ sq'[s] = <<>> /\ OthersStay(s) /\ UNCHANGED mvars
         /\ \/ Head(sq[s]) = Terminate /\ spc'[s] = "over"
            \/ Head(sq[s]) # Terminate /\ spc'[s] = "work" /\ task'[s] = Head(sq[s])
<1> DEFINE y == Head(sq[s])
<1> USE DEF Dispatching
<1>1. /\ spc[s] = "wait" /\ mq[s] = <<>> /\ y \in Result /\ sq[s] = <<y>> /\ Tail(sq[s]) = <<>>
      /\ Owed(s) = y /\ sq[s] # <<>>
  BY InInstruction DEF Instructed
<1>2. /\ sq' = [sq EXCEPT ![s] = <<>>] /\ UNCHANGED <<mvars, result, mq>>
      /\ \/ y = Terminate /\ spc' = [spc EXCEPT ![s] = "over"] /\ task' = task
         \/ /\ y # Terminate /\ y \in Step
            /\ spc' = [spc EXCEPT ![s] = "work"] /\ task' = [task EXCEPT ![s] = y]
  <2>1. y = Terminate \/ (y # Terminate /\ y \in Step)
    BY <1>1, Numbers DEF Result, Step
  <2> QED
    BY <1>1, <2>1 DEF Instructed
<1>3. /\ sq'[s] = <<>> /\ OthersStay(s)
      /\ \/ y = Terminate /\ spc'[s] = "over"
         \/ y # Terminate /\ y \in Step /\ spc'[s] = "work" /\ task'[s] = y
  <2>1. sq'[s] = <<>> /\ \A t \in Slave \ {s} : sq'[t] = sq[t]
    BY <1>2 DEF LoopTypes
  <2>2. \A t \in Slave \ {s} : spc'[t] = spc[t] /\ task'[t] = task[t]
    BY <1>2 DEF LoopTypes
  <2>3. \/ y = Terminate /\ spc'[s] = "over"
        \/ y # Terminate /\ y \in Step /\ spc'[s] = "work" /\ task'[s] = y
    BY <1>2 DEF LoopTypes
  <2> QED
    BY <1>2, <2>1, <2>2, <2>3 DEF OthersStay
<1>4. LoopTypes'
  <2>1. <<>> \in Seq(Result)
    OBVIOUS
  <2>2. sq' \in [Slave -> Seq(Result)]
    BY <1>2, <2>1 DEF LoopTypes
  <2>3. spc' \in [Slave -> {"ready", "wait", "work", "over"}]
    BY <1>2 DEF LoopTypes
  <2>4. task' \in [Slave -> Int]
    BY <1>2 DEF LoopTypes, Step
  <2> QED
    BY <1>2, <2>2, <2>3, <2>4 DEF LoopTypes, mvars
<1>5. Places'
  BY <1>1, <1>2, <1>3 DEF Places, OthersStay
<1>6. Owed(s)' = Owed(s)
  <2>1. Places' => Owes'
    BY OwedLemma, PTL
  <2> QED
    BY <1>1, <1>3, <1>4, <1>5, <2>1, Numbers DEF Owes
<1>7. Stopped(s)' <=> Stopped(s)
  <2>1. sq[s] = <<Terminate>> <=> y = Terminate
    BY <1>1
  <2>2. sq'[s] # <<Terminate>> /\ spc[s] # "over" /\ (spc'[s] = "over" <=> y = Terminate)
    BY <1>1, <1>3
  <2> QED
    BY <2>1, <2>2 DEF Stopped
<1>8. Dispatching'
  BY <1>2, <1>3, <1>4, <1>5, <1>6, <1>7, SlaveKeeps
<1> QED
  BY <1>1, <1>2, <1>3, <1>8

\* A slave finishes the step it has: the result is there.
LEMMA WorkDoneKeeps ==
  ASSUME Dispatching, NEW s \in Slave, WorkDone(s)
  PROVE  /\ Dispatching'
         /\ task[s] \in Step /\ sq[s] = <<>> /\ spc[s] = "work"
         /\ spc'[s] = "ready" /\ sq'[s] = <<>> /\ OthersStay(s) /\ UNCHANGED mvars
<1> DEFINE y == task[s]
<1> USE DEF Dispatching
<1>1. /\ spc[s] = "work" /\ mq[s] = <<>> /\ sq[s] = <<>> /\ y \in Step /\ y \in Result
      /\ Owed(s) = y
  BY OwedLemma DEF WorkDone, Places, Result, Step, Owes
<1>2. /\ result' = [result EXCEPT ![s] = y] /\ spc' = [spc EXCEPT ![s] = "ready"]
      /\ UNCHANGED <<mvars, task, mq, sq>>
  BY DEF WorkDone
<1>3. result'[s] = y /\ spc'[s] = "ready" /\ sq'[s] = <<>> /\ OthersStay(s)
  BY <1>1, <1>2 DEF LoopTypes, OthersStay
<1>4. LoopTypes'
  BY <1>1, <1>2 DEF LoopTypes, mvars
<1>5. Places'
  BY <1>1, <1>2, <1>3 DEF Places, OthersStay
<1>6. Owed(s)' = Owed(s)
  <2>1. Places' => Owes'
    BY OwedLemma, PTL
  <2> QED
    BY <1>1, <1>3, <1>4, <1>5, <2>1 DEF Owes
<1>7. Stopped(s)' <=> Stopped(s)
  BY <1>1, <1>3 DEF Stopped
<1>8. Dispatching'
  BY <1>2, <1>3, <1>4, <1>5, <1>6, <1>7, SlaveKeeps
<1> QED
  BY <1>1, <1>2, <1>3, <1>8

\* When the master is through, it has caught every result.
LEMMA AllCaught ==
  ASSUME Dispatching, mpc = "over"
  PROVE  Steps \subseteq caught
<1> USE DEF Dispatching
<1>1. next = NSteps /\ \A s \in Slave : Stopped(s)
  BY DEF Loop
<1>2. \A s \in Slave : Owed(s) = None
  <2>1. Terminate \in Result /\ Terminate = None
    BY Numbers DEF Result
  <2> QED
    BY <1>1, <2>1, OwedLemma DEF Stopped, Owes
<1>3. \A k \in Steps : k \in 0..next-1 /\ k # None
  BY <1>1, Numbers DEF Steps
<1> QED
  BY <1>2, <1>3 DEF Sharing

-----------------------------------------------------------------------------
(* The rounds.                                                             *)

LEMMA TurnsType ==
  ASSUME LoopTypes, Places, RoundTypes, NEW s \in Slave
  PROVE  /\ Turns(s) \in Seq(Step) /\ Len(Turns(s)) \in Nat /\ Len(joined[s]) \in Nat
         /\ Len(joined[s]) <= Len(Turns(s))
         /\ \A r \in 1..Len(joined[s]) : Turns(s)[r] = joined[s][r]
<1>1. joined[s] \in Seq(Step)
  BY DEF RoundTypes
<1>2. ASSUME NEW k \in Step
      PROVE  /\ Append(joined[s], k) \in Seq(Step)
             /\ Len(Append(joined[s], k)) = Len(joined[s]) + 1
             /\ \A r \in 1..Len(joined[s]) : Append(joined[s], k)[r] = joined[s][r]
  BY <1>1
<1>3. sq[s] # <<>> /\ Head(sq[s]) # Terminate => Head(sq[s]) \in Step
  BY InInstruction, Numbers DEF Result, Step
<1>4. spc[s] = "work" => task[s] \in Step
  BY DEF Places
<1>5. Turns(s) = joined[s] \/ \E k \in Step : Turns(s) = Append(joined[s], k)
  BY <1>3, <1>4 DEF Turns
<1>6. Len(joined[s]) \in Nat
  BY <1>1
<1>7. CASE Turns(s) = joined[s]
  BY <1>1, <1>6, <1>7
<1>8. CASE \E k \in Step : Turns(s) = Append(joined[s], k)
  BY <1>1, <1>2, <1>6, <1>8
<1> QED
  BY <1>5, <1>7, <1>8

\* A batch of which every slave has a step is sent.
LEMMA SentBatch ==
  ASSUME LoopTypes, Places, RoundTypes, Batches, NEW r \in Nat \ {0},
         \A s \in Slave : r \in Rounds(s)
  PROVE  {Turns(s)[r] : s \in Slave} = Batch(r) /\ Batch(r) \subseteq 0..next-1
<1> DEFINE f == [s \in Slave |-> Turns(s)[r]]
<1>1. \A s \in Slave : f[s] \in Batch(r) /\ f[s] \in 0..next-1 /\ f[s] = Turns(s)[r]
  BY DEF Batches
<1>2. \A s, t \in Slave : s # t => f[s] # f[t]
  BY DEF Batches
<1>3. f \in [Slave -> Batch(r)]
  BY <1>1
<1> HIDE DEF f
<1>4. {f[s] : s \in Slave} = Batch(r)
  BY <1>2, <1>3, FullBatch
<1> QED
  BY <1>1, <1>4

LEMMA BatchesLemma == LoopTypes /\ Places /\ RoundTypes /\ Batches => RoundsAreBatches
<1> SUFFICES ASSUME LoopTypes, Places, RoundTypes, Batches, NEW r \in 1..Padded(NRuns),
                    \A s \in Slave : Len(joined[s]) >= r
             PROVE  {joined[s][r] : s \in Slave} = Batch(r)
  BY DEF RoundsAreBatches, Batch
<1>1. r \in Nat \ {0}
  BY Numbers DEF NSteps
<1>2. \A s \in Slave : r \in Rounds(s) /\ Turns(s)[r] = joined[s][r]
  <2> SUFFICES ASSUME NEW s \in Slave
               PROVE  r \in Rounds(s) /\ Turns(s)[r] = joined[s][r]
    OBVIOUS
  <2>1. /\ Len(Turns(s)) \in Nat /\ Len(joined[s]) \in Nat /\ Len(joined[s]) <= Len(Turns(s))
        /\ \A x \in 1..Len(joined[s]) : Turns(s)[x] = joined[s][x]
    BY TurnsType
  <2>2. r \in 1..Len(joined[s]) /\ r \in 1..Len(Turns(s))
    BY <1>1, <2>1
  <2> QED
    BY <2>1, <2>2 DEF Rounds
<1>3. {Turns(s)[r] : s \in Slave} = Batch(r)
  BY <1>1, <1>2, SentBatch
<1> QED
  BY <1>2, <1>3

\* The next step belongs to the next round of a slave that asks for one.
LEMMA NextInBatch ==
  ASSUME LoopTypes, Places, RoundTypes, Batches, Lockstep, NEW s \in Slave, sq[s] = <<>>,
         spc[s] = "wait", stage[s] = "begin", next \in Step
  PROVE  next \in Batch(Len(joined[s]) + 1)
<1> DEFINE m == Len(joined[s])
           n == NSlaves
<1>1. Turns(s) = joined[s] /\ Done(s) = m
  BY DEF Turns, Done
<1>2. m \in Nat /\ \A t \in Slave : Len(joined[t]) \in Nat /\ m <= Len(joined[t])
  BY <1>1, TurnsType DEF Lockstep
<1>3. n \in Nat \ {0} /\ next \in Nat
  BY Numbers DEF Step
<1> HIDE DEF m
<1>4. m*n \in Nat /\ (m+1)*n = m*n + n
  BY <1>2, <1>3
<1>5. Batch(m+1) = m*n..m*n + n - 1
  BY <1>2, BatchAfter
<1>6. m*n <= next
  <2>1. CASE m = 0
    <3>1. m*n = 0
      BY <1>3, <2>1
    <3> QED
      BY <1>3, <3>1
  <2>2. CASE m # 0
    <3>1. m \in Nat \ {0} /\ \A t \in Slave : m \in Rounds(t)
      <4>1. \A t \in Slave : Len(Turns(t)) \in Nat /\ Len(joined[t]) <= Len(Turns(t))
        BY TurnsType
      <4> QED
        BY <1>2, <2>2, <4>1 DEF Rounds
    <3>2. Batch(m) \subseteq 0..next-1
      BY <3>1, SentBatch
    <3>3. m*n - 1 \in Batch(m)
      <4> DEFINE x == (m-1)*n
                 y == m*n
      <4>1. x \in Nat /\ y = x + n
        BY <1>2, <1>3, <2>2
      <4>2. Batch(m) = x..y-1
        BY DEF Batch
      <4> HIDE DEF x, y
      <4>3. y-1 \in Batch(m)
        BY <1>3, <4>1, <4>2
      <4> QED
        BY <4>3 DEF y
    <3>4. m*n - 1 \in 0..next-1
      BY <3>2, <3>3
    <3> HIDE DEF n
    <3> QED
      BY <1>3, <1>4, <3>4
  <2> QED
    BY <2>1, <2>2
<1>7. next <= m*n + n - 1
  <2> SUFFICES ASSUME next >= m*n + n
               PROVE  FALSE
    <3> HIDE DEF n
    <3> QED
      BY <1>3, <1>4
  <2> DEFINE Has(k, t) == m+1 \in Rounds(t) /\ Turns(t)[m+1] = k
             f == [k \in Batch(m+1) |-> CHOOSE t \in Slave \ {s} : Has(k, t)]
  <2>1. ASSUME NEW k \in Batch(m+1)
        PROVE  \E t \in Slave \ {s} : Has(k, t)
    <3>1. k \in 0..next-1
      <4> DEFINE x == m*n
      <4>1. x \in Nat /\ k \in x..x+n-1 /\ next >= x+n
        BY <1>4, <1>5, <2>1
      <4> HIDE DEF x, n
      <4> QED
        BY <1>3, <4>1
    <3>2. PICK t \in Slave : \E r \in Rounds(t) : Turns(t)[r] = k
      BY <3>1 DEF Batches
    <3> PICK r \in Rounds(t) : Turns(t)[r] = k
      BY <3>2
    <3>3. r \in Nat \ {0} /\ m+1 \in Nat \ {0}
      BY <1>2 DEF Rounds
    <3>4. k \in Batch(r)
      BY DEF Batches
    <3>5. r = m+1
      BY <2>1, <3>3, <3>4, OneBatch
    <3>6. t # s
      <4>1. m+1 \notin Rounds(s)
        BY <1>1, <1>2 DEF Rounds, m
      <4> QED
        BY <3>5, <4>1
    <3> QED
      BY <3>5, <3>6
  <2>2. \A k \in Batch(m+1) : f[k] \in Slave \ {s} /\ Has(k, f[k])
    BY <2>1
  <2>3. f \in [Batch(m+1) -> Slave \ {s}]
    BY <2>2
  <2> HIDE DEF f
  <2>4. PICK x, y \in Batch(m+1) : x # y /\ f[x] = f[y]
    BY <1>2, <2>3, NotWithout
  <2> QED
    BY <2>2, <2>4
<1> QED
  <2> DEFINE x == m*n
  <2>1. x \in Nat /\ x <= next /\ next <= x + n - 1 /\ Batch(m+1) = x..x+n-1
    BY <1>4, <1>5, <1>6, <1>7
  <2> HIDE DEF x, n
  <2>2. next \in Batch(m+1)
    BY <1>3, <2>1
  <2> QED
    BY <2>2 DEF m

LEMMA BatchesKept ==
  ASSUME Batches, next' = next, \A s \in Slave : Turns(s)' = Turns(s)
  PROVE  Batches'
BY DEF Batches, Rounds

LEMMA BatchesGrow ==
  ASSUME LoopTypes, Places, RoundTypes, Batches, Lockstep, NEW s \in Slave,
         spc[s] = "wait", stage[s] = "begin", sq[s] = <<>>, sq'[s] = <<next>>, next \in Step,
         next' = next + 1, OthersStay(s), UNCHANGED <<spc, stage, joined>>
  PROVE  Batches'
<1> DEFINE m == Len(joined[s])
<1>1. next \in Batch(m+1) /\ next \in Nat /\ m \in Nat
  BY NextInBatch, TurnsType DEF Step
<1>2. Turns(s) = joined[s] /\ joined[s] \in Seq(Step)
  BY DEF Turns, RoundTypes
<1>3. Turns(s)' = Append(joined[s], next)
  <2>1. sq'[s] # <<>> /\ Head(sq'[s]) = next /\ next # Terminate
    <3>1. \A x : <<x>> # <<>> /\ Head(<<x>>) = x
      OBVIOUS
    <3> QED
      BY <1>1, <3>1, Numbers
  <2> QED
    BY <2>1 DEF Turns
<1>4. /\ Len(Turns(s)') = m+1 /\ Turns(s)'[m+1] = next
      /\ \A r \in 1..m : Turns(s)'[r] = Turns(s)[r]
  BY <1>2, <1>3
<1>5. Rounds(s) = 1..m /\ Rounds(s)' = 1..m+1
  BY <1>2, <1>4 DEF Rounds
<1>6. \A t \in Slave \ {s} : Turns(t)' = Turns(t) /\ Rounds(t)' = Rounds(t)
  BY DEF OthersStay, Turns, Rounds
<1> HIDE DEF m
<1>7. ASSUME NEW t \in Slave, NEW r \in Rounds(t)'
      PROVE  /\ Turns(t)'[r] \in 0..next'-1 /\ Turns(t)'[r] \in Batch(r)
             /\ \/ t = s /\ r = m+1 /\ Turns(t)'[r] = next
                \/ r \in Rounds(t) /\ Turns(t)'[r] = Turns(t)[r] /\ Turns(t)[r] \in 0..next-1
  <2>1. CASE t = s /\ r = m+1
    BY <1>1, <1>4, <2>1
  <2>2. CASE ~(t = s /\ r = m+1)
    <3>1. r \in Rounds(t) /\ Turns(t)'[r] = Turns(t)[r]
      BY <1>1, <1>4, <1>5, <1>6, <2>2
    <3>2. Turns(t)[r] \in 0..next-1 /\ Turns(t)[r] \in Batch(r)
      BY <3>1 DEF Batches
    <3>3. Turns(t)[r] \in 0..next'-1
      BY <1>1, <3>2
    <3> QED
      BY <3>1, <3>2, <3>3
  <2> QED
    BY <2>1, <2>2
<1>8. ASSUME NEW t \in Slave, NEW u \in Slave, t # u, NEW r \in Rounds(t)' \cap Rounds(u)'
      PROVE  Turns(t)'[r] # Turns(u)'[r]
  <2>1. next \notin 0..next-1
    BY <1>1
  <2> QED
    BY <1>7, <1>8, <2>1 DEF Batches
<1>9. ASSUME NEW k \in 0..next'-1
      PROVE  \E t \in Slave : \E r \in Rounds(t)' : Turns(t)'[r] = k
  <2>1. CASE k = next
    <3>1. m+1 \in Rounds(s)'
      BY <1>1, <1>5
    <3> QED
      BY <1>4, <2>1, <3>1
  <2>2. CASE k # next
    <3>1. k \in 0..next-1
      BY <1>1, <2>2
    <3>2. PICK t \in Slave : \E r \in Rounds(t) : Turns(t)[r] = k
      BY <3>1 DEF Batches
    <3> PICK r \in Rounds(t) : Turns(t)[r] = k
      BY <3>2
    <3>3. r \in Rounds(t)' /\ Turns(t)'[r] = Turns(t)[r]
      BY <1>1, <1>4, <1>5, <1>6
    <3> QED
      BY <3>3
  <2> QED
    BY <2>1, <2>2
<1>10. \A r : Batch(r)' = Batch(r)
  BY DEF Batch
<1> QED
  BY <1>7, <1>8, <1>9, <1>10 DEF Batches

\* Nothing has happened to the rounds.
LEMMA WrittenKept ==
  ASSUME Written, Batches', UNCHANGED <<stage, joined, last_offset, dfile>>,
         \A s \in Slave : stage[s] = "allgather" => task'[s] = task[s]
  PROVE  Written'
<1>1. \A s \in Slave : Done(s)' = Done(s)
  BY DEF Done
<1>2. Lockstep'
  BY <1>1 DEF Written, Lockstep
<1>3. \A r : RoundSizes(r)' = RoundSizes(r)
  BY DEF RoundSizes
<1>4. Offset'
  BY <1>1, <1>3 DEF Written, Offset
<1>5. \A s, q, r : From(s, q, r)' = From(s, q, r)
  BY <1>3 DEF From
<1>6. \A i \in DOMAIN dfile : Stored(i)'
  <2> SUFFICES ASSUME NEW i \in DOMAIN dfile
               PROVE  Stored(i)'
    OBVIOUS
  <2>1. Stored(i)
    BY DEF Written
  <2> QED
    BY <1>1, <1>5, <2>1 DEF Stored
<1> QED
  BY <1>2, <1>4, <1>6 DEF Written

\* All slaves have joined the rounds that one of them has ended.
LEMMA DoneJoined ==
  ASSUME RoundTypes, Lockstep, NEW s \in Slave
  PROVE  /\ Done(s) \in Nat /\ Len(joined[s]) \in Nat
         /\ Done(s) <= Len(joined[s]) /\ Len(joined[s]) <= Done(s) + 1
         /\ \A t \in Slave : Done(s) <= Len(joined[t]) /\ Done(t) <= Done(s) + 1
<1>1. \A t \in Slave : Len(joined[t]) \in Nat
  BY DEF RoundTypes
<1>2. \A t \in Slave : /\ Done(t) \in Nat /\ Done(t) <= Len(joined[t])
                       /\ Len(joined[t]) <= Done(t) + 1
  BY <1>1 DEF Done, Lockstep
<1> QED
  BY <1>1, <1>2 DEF Lockstep

LEMMA SizesType ==
  ASSUME RoundTypes, NEW r \in Nat \ {0}, \A t \in Slave : r <= Len(joined[t])
  PROVE  /\ RoundSizes(r) \in [Slave -> Nat]
         /\ \A t \in Slave : joined[t][r] \in Step /\ RoundSizes(r)[t] = Size(joined[t][r])
<1>1. ASSUME NEW t \in Slave
      PROVE  joined[t][r] \in Step
  <2>1. joined[t] \in Seq(Step) /\ Len(joined[t]) \in Nat
    BY DEF RoundTypes
  <2>2. r \in 1..Len(joined[t])
    BY <2>1
  <2> QED
    BY <2>1, <2>2
<1>2. \A k \in Step : Size(k) \in Nat
  BY RoundsAssumption DEF Size, Step, Steps
<1> QED
  BY <1>1, <1>2 DEF RoundSizes

\* The places of a round, one behind the other.
LEMMA PlacesOfRound ==
  ASSUME RoundTypes, NEW r \in Nat \ {0}, \A t \in Slave : r <= Len(joined[t]),
         NEW s \in Slave, NEW p \in Slave, NEW q \in Slave
  PROVE  /\ From(s, q, r) \in Nat /\ Size(joined[q][r])*FSize \in Nat
         /\ SumFunction(RoundSizes(r)) \in Nat
         /\ p < q => From(s, p, r) + Size(joined[p][r])*FSize <= From(s, q, r)
<1> DEFINE f == RoundSizes(r)
<1>1. /\ f \in [Slave -> Nat] /\ IsFiniteSet(Slave) /\ \A t \in Slave : t \in Int
      /\ f[p] = Size(joined[p][r]) /\ f[q] = Size(joined[q][r])
  <2>1. RoundSizes(r) \in [Slave -> Nat] /\ \A t \in Slave : RoundSizes(r)[t] = Size(joined[t][r])
    BY SizesType
  <2>2. IsFiniteSet(Slave) /\ \A t \in Slave : t \in Int
    BY Numbers
  <2> QED
    BY <2>1, <2>2
<1>2. last_offset[s] \in Nat /\ FSize \in Nat /\ f[p] \in Nat /\ f[q] \in Nat
  BY <1>1, Numbers DEF RoundTypes
<1> HIDE DEF f
<1>3. Before(f, q) \in Nat /\ SumFunction(f) \in Nat
  <2>1. q \in Int /\ q+1 \in Int /\ q < q+1
    BY <1>1
  <2> QED
    BY <1>1, <2>1, BlocksInOrder
<1>4. p < q => Before(f, p) \in Nat /\ Before(f, p) + f[p] <= Before(f, q)
  BY <1>1, BlocksInOrder
<1>5. f[q]*FSize \in Nat /\ Before(f, q)*FSize \in Nat
  BY <1>2, <1>3
<1>6. \A a, b, c \in Nat : a + b <= c => a*FSize + b*FSize <= c*FSize
  <2> SUFFICES ASSUME NEW a \in Nat, NEW b \in Nat, NEW c \in Nat, a + b <= c
               PROVE  a*FSize + b*FSize <= c*FSize
    OBVIOUS
  <2>1. (a + b)*FSize <= c*FSize
    BY <1>2
  <2>2. (a + b)*FSize = a*FSize + b*FSize
    BY <1>2
  <2> QED
    BY <2>1, <2>2
<1>7. p < q => Before(f, p)*FSize + f[p]*FSize <= Before(f, q)*FSize
  BY <1>2, <1>3, <1>4, <1>6
<1>8. p < q => Before(f, p)*FSize \in Nat /\ f[p]*FSize \in Nat
  BY <1>2, <1>4
<1> DEFINE u == Before(f, p)*FSize
           v == Before(f, q)*FSize
           w == f[p]*FSize
<1>9. From(s, p, r) = last_offset[s] + u /\ From(s, q, r) = last_offset[s] + v
  BY DEF From, f
<1> HIDE DEF u, v
<1>10. p < q => u \in Nat /\ w \in Nat /\ u + w <= v
  BY <1>7, <1>8 DEF u, v
<1>11. v \in Nat
  BY <1>5 DEF v
<1> HIDE DEF w
<1>12. p < q => From(s, p, r) + w <= From(s, q, r)
  BY <1>2, <1>9, <1>10, <1>11
<1>13. /\ f[q]*FSize = Size(joined[q][r])*FSize /\ w = Size(joined[p][r])*FSize
       /\ From(s, q, r) \in Nat
  BY <1>1, <1>2, <1>9, <1>11 DEF w
<1> QED
  BY <1>3, <1>5, <1>12, <1>13 DEF f

LEMMA JoinWritten ==
  ASSUME LoopTypes, Places, RoundTypes, Written, NEW s \in Slave, JoinRound(s)
  PROVE  Written' /\ RoundTypes'
<1> USE DEF Written
<1> DEFINE k == task[s]
           m == Len(joined[s])
<1>1. spc[s] = "work" /\ stage[s] = "begin" /\ sq[s] = <<>> /\ k \in Step
  BY DEF JoinRound, Places
<1>2. /\ joined' = [joined EXCEPT ![s] = Append(joined[s], k)]
      /\ stage' = [stage EXCEPT ![s] = "allgather"]
      /\ UNCHANGED <<mpc, nsteps, next, nstopped, caught, spc, task, result, mq, sq>>
      /\ UNCHANGED <<job, last_offset, lengths, hfile, dfile, calls, got>>
  BY DEF JoinRound, dvars, mvars, svars
<1>3. joined[s] \in Seq(Step) /\ m \in Nat
  BY DEF RoundTypes
<1>4. /\ Append(joined[s], k) \in Seq(Step) /\ Len(Append(joined[s], k)) = m+1
      /\ Append(joined[s], k)[m+1] = k
      /\ \A r \in 1..m : Append(joined[s], k)[r] = joined[s][r]
  BY <1>1, <1>3
<1>5. /\ joined'[s] = Append(joined[s], k) /\ stage'[s] = "allgather"
      /\ \A t \in Slave \ {s} : joined'[t] = joined[t] /\ stage'[t] = stage[t]
  BY <1>2 DEF RoundTypes
<1>6. RoundTypes'
  <2>1. joined' \in [Slave -> Seq(Step)]
    BY <1>2, <1>4 DEF RoundTypes
  <2>2. stage' \in [Slave -> {"begin", "allgather", "reading", "IndexError"}]
    BY <1>2 DEF RoundTypes
  <2> QED
    BY <1>2, <2>1, <2>2 DEF RoundTypes
<1>7. Batches'
  <2>1. Turns(s)' = Turns(s)
    <3>1. Turns(s) = Append(joined[s], k)
      BY <1>1 DEF Turns
    <3>2. Turns(s)' = joined'[s]
      BY <1>1, <1>2, <1>5 DEF Turns
    <3> QED
      BY <1>5, <3>1, <3>2
  <2>2. \A t \in Slave \ {s} : Turns(t)' = Turns(t)
    BY <1>2, <1>5 DEF Turns
  <2> QED
    BY <1>2, <2>1, <2>2, BatchesKept
<1>8. /\ \A t \in Slave : Done(t)' = Done(t) /\ Done(t) \in Nat
      /\ \A t, u \in Slave : /\ Done(t) <= Len(joined[u]) /\ Len(joined[u]) \in Nat
                             /\ Len(joined[u]) <= Len(joined'[u])
                             /\ \A r \in 1..Done(t) : joined'[u][r] = joined[u][r]
  <2>1. \A t, u \in Slave : Done(t) \in Nat /\ Done(t) <= Len(joined[u]) /\ Len(joined[u]) \in Nat
    BY DoneJoined
  <2>2. Done(s)' = Done(s)
    BY <1>1, <1>3, <1>4, <1>5 DEF Done
  <2>3. \A t \in Slave \ {s} : Done(t)' = Done(t)
    BY <1>5 DEF Done
  <2>4. \A u \in Slave : /\ Len(joined[u]) <= Len(joined'[u])
                         /\ \A r \in 1..Len(joined[u]) : joined'[u][r] = joined[u][r]
    BY <1>3, <1>4, <1>5, <2>1
  <2> QED
    BY <2>1, <2>2, <2>3, <2>4
<1>9. Lockstep'
  <2>1. Len(joined'[s]) > 0 /\ joined'[s][Len(joined'[s])] = task'[s]
    BY <1>2, <1>3, <1>4, <1>5
  <2>2. \A t \in Slave : stage'[t] = "allgather" =>
          Len(joined'[t]) > 0 /\ joined'[t][Len(joined'[t])] = task'[t]
    BY <1>2, <1>5, <2>1 DEF Lockstep
  <2>3. \A t, u \in Slave : Done(t)' <= Len(joined'[u])
    <3>1. ASSUME NEW t \in Slave, NEW u \in Slave
          PROVE  Done(t)' <= Len(joined'[u])
      <4>1. Len(joined'[u]) \in Nat
        BY <1>6 DEF RoundTypes
      <4> QED
        BY <1>8, <4>1
    <3> QED
      BY <3>1
  <2> QED
    BY <2>2, <2>3 DEF Lockstep
<1>10. \A t \in Slave : \A r \in 1..Done(t) : RoundSizes(r)' = RoundSizes(r)
  BY <1>8 DEF RoundSizes
<1>11. Offset'
  <2>1. ASSUME NEW t \in Slave, NEW u \in Slave, Done(u) = Done(t) + 1
        PROVE  last_offset[u] = last_offset[t] + SumFunction(RoundSizes(Done(u))')
    <3>1. Done(u) \in 1..Done(u)
      BY <1>8, <2>1
    <3>2. RoundSizes(Done(u))' = RoundSizes(Done(u))
      BY <1>8, <1>10, <3>1
    <3> QED
      BY <2>1, <3>2 DEF Offset
  <2> QED
    BY <1>2, <1>8, <2>1 DEF Offset
<1>12. ASSUME NEW i \in DOMAIN dfile
       PROVE  Stored(i)'
  <2>1. CASE dfile[i] = Hole
    BY <1>2, <2>1 DEF Stored
  <2>2. CASE dfile[i] # Hole
    <3>1. PICK q \in Slave : \E r \in 1..Done(q) :
            /\ joined[q][r] = dfile[i]
            /\ \A t \in Slave : Done(t) = r-1 =>
                 i \in From(t, q, r)..From(t, q, r) + Size(joined[q][r])*FSize - 1
      BY <2>2 DEF Stored
    <3> PICK r \in 1..Done(q) :
            /\ joined[q][r] = dfile[i]
            /\ \A t \in Slave : Done(t) = r-1 =>
                 i \in From(t, q, r)..From(t, q, r) + Size(joined[q][r])*FSize - 1
      BY <3>1
    <3>2. joined'[q][r] = joined[q][r] /\ \A t \in Slave : From(t, q, r)' = From(t, q, r)
      BY <1>2, <1>8, <1>10 DEF From
    <3>3. r \in 1..Done(q)'
      BY <1>8
    <3> QED
      BY <1>2, <1>8, <3>2, <3>3 DEF Stored
  <2> QED
    BY <2>1, <2>2
<1> QED
  BY <1>2, <1>6, <1>7, <1>9, <1>11, <1>12

LEMMA WriteWritten ==
  ASSUME Dispatching, RoundTypes, Written, NEW s \in Slave, WriteRound(s)
  PROVE  /\ Written' /\ RoundTypes'
         /\ \A i \in DOMAIN dfile :
              dfile'[i] # dfile[i] => dfile[i] < (dfile'[i] \div NSlaves) * NSlaves
<1> USE DEF Written, Dispatching
<1> DEFINE k == task[s]
           r == Len(joined[s])
           Own == From(s, s, r)..From(s, s, r) + Size(joined[s][r])*FSize - 1
<1>1. /\ stage[s] = "allgather" /\ spc[s] = "work" /\ sq[s] = <<>> /\ k \in Step
      /\ spc'[s] = "ready" /\ sq'[s] = <<>> /\ OthersStay(s)
      /\ UNCHANGED mvars
  <2>1. WorkDone(s) /\ stage[s] = "allgather"
    BY DEF WriteRound
  <2> QED
    BY <2>1, WorkDoneKeeps
<1>2. r \in Nat \ {0} /\ joined[s][r] = k /\ Done(s) = r-1
  BY <1>1, DoneJoined DEF Lockstep, Done
<1>3. \A t \in Slave : r <= Len(joined[t]) /\ Len(joined[t]) \in Nat
  <2>1. \A t \in Slave : Len(joined[t]) \in Nat /\ Len(joined[t]) >= Len(joined[s])
    BY DEF WriteRound, RoundTypes
  <2> QED
    BY <2>1
<1>4. sizes(s) = RoundSizes(r) /\ RoundSizes(r) \in [Slave -> Nat]
  BY <1>2, <1>3, SizesType DEF sizes, RoundSizes
<1>5. From(s, s, r) = data_offset(s) /\ Size(joined[s][r]) = Size(k)
  BY <1>2, <1>4 DEF From, data_offset
<1>6. /\ dfile' = [i \in DOMAIN dfile |-> IF i \in Own THEN k ELSE dfile[i]]
      /\ last_offset' = [last_offset EXCEPT ![s] = last_offset[s] + SumFunction(RoundSizes(r))]
      /\ stage' = [stage EXCEPT ![s] = "begin"]
      /\ UNCHANGED <<job, joined, lengths, hfile, calls, got, task, next>>
  BY <1>4, <1>5 DEF WriteRound, WorkDone, mvars
<1> HIDE DEF Own
<1>7. /\ stage'[s] = "begin" /\ last_offset'[s] = last_offset[s] + SumFunction(RoundSizes(r))
      /\ \A t \in Slave \ {s} : stage'[t] = stage[t] /\ last_offset'[t] = last_offset[t]
  BY <1>6 DEF RoundTypes
<1>8. SumFunction(RoundSizes(r)) \in Nat
  BY <1>2, <1>3, PlacesOfRound
<1>9. RoundTypes'
  <2>1. last_offset' \in [Slave -> Nat]
    BY <1>6, <1>8 DEF RoundTypes
  <2>2. stage' \in [Slave -> {"begin", "allgather", "reading", "IndexError"}]
    BY <1>6 DEF RoundTypes
  <2>3. dfile' \in [0..End-1 -> Int]
    BY <1>1, <1>6 DEF RoundTypes, Step
  <2> QED
    BY <1>6, <2>1, <2>2, <2>3 DEF RoundTypes
<1>10. Batches'
  <2>1. Turns(s)' = Turns(s)
    BY <1>1, <1>6, <1>7 DEF Turns
  <2>2. \A t \in Slave \ {s} : Turns(t)' = Turns(t)
    BY <1>1, <1>6, <1>7 DEF Turns, OthersStay
  <2> QED
    BY <1>6, <2>1, <2>2, BatchesKept
<1>11. /\ Done(s)' = r
       /\ \A t \in Slave \ {s} : Done(t)' = Done(t)
       /\ \A t \in Slave : Done(t) \in Nat /\ Done(t) <= r /\ r-1 <= Done(t)
  <2>1. \A t \in Slave : Done(t) \in Nat /\ Done(t) <= r /\ Done(s) <= Len(joined[t])
                         /\ Len(joined[t]) <= Done(t) + 1
    BY DoneJoined
  <2>2. Done(s)' = r
    BY <1>6, <1>7 DEF Done
  <2>3. \A t \in Slave \ {s} : Done(t)' = Done(t)
    BY <1>6, <1>7 DEF Done
  <2>4. \A t \in Slave : r-1 <= Done(t)
    BY <1>2, <1>3, <2>1
  <2> QED
    BY <2>1, <2>2, <2>3, <2>4
<1>12. Lockstep'
  <2>1. \A t, u \in Slave : Done(t)' <= Len(joined[u])
    BY <1>3, <1>11, DoneJoined
  <2>2. \A t \in Slave : stage'[t] = "allgather" => t # s /\ stage[t] = "allgather"
    BY <1>7
  <2> QED
    BY <1>6, <2>1, <2>2 DEF Lockstep
<1>13. \A x : RoundSizes(x)' = RoundSizes(x)
  BY <1>6 DEF RoundSizes
<1>r. r' = r
  BY <1>6
<1> HIDE DEF r
<1>14. Offset'
  <2>1. ASSUME NEW t \in Slave, NEW u \in Slave
        PROVE  /\ Done(t)' = Done(u)' => last_offset'[t] = last_offset'[u]
               /\ Done(u)' = Done(t)' + 1 =>
                    last_offset'[u] = last_offset'[t] + SumFunction(RoundSizes(Done(u)'))
    <3>1. CASE t = s /\ u = s
      BY <1>2, <1>11, <3>1
    <3>2. CASE t # s /\ u # s
      BY <1>7, <1>11, <3>2 DEF Offset
    <3>3. CASE t # s /\ u = s
      <4>1. Done(t) = r \/ Done(t) = r-1
        BY <1>2, <1>11
      <4>2. CASE Done(t) = r
        BY <1>2, <1>7, <1>11, <3>3, <4>2 DEF Offset
      <4>3. CASE Done(t) = r-1
        BY <1>2, <1>7, <1>11, <3>3, <4>3 DEF Offset
      <4> QED
        BY <4>1, <4>2, <4>3
    <3>4. CASE t = s /\ u # s
      <4>1. Done(u) = r \/ Done(u) = r-1
        BY <1>2, <1>11
      <4>2. CASE Done(u) = r
        BY <1>2, <1>7, <1>11, <3>4, <4>2 DEF Offset
      <4>3. CASE Done(u) = r-1
        BY <1>2, <1>7, <1>11, <3>4, <4>3
      <4> QED
        BY <4>1, <4>2, <4>3
    <3> QED
      BY <3>1, <3>2, <3>3, <3>4
  <2> QED
    BY <1>13, <2>1 DEF Offset
<1>15. ASSUME NEW i \in DOMAIN dfile
       PROVE  Stored(i)'
  <2>1. CASE i \in Own
    <3>1. dfile'[i] = k /\ joined'[s][r] = k /\ r \in 1..Done(s)'
      BY <1>2, <1>6, <1>11, <2>1
    <3>2. ASSUME NEW t \in Slave, Done(t)' = r-1
          PROVE  i \in From(t, s, r)'..From(t, s, r)' + Size(joined'[s][r])*FSize - 1
      <4>1. t # s /\ Done(t) = Done(s)
        BY <1>2, <1>11, <3>2
      <4>2. last_offset'[t] = last_offset[s]
        BY <1>7, <4>1 DEF Offset
      <4>3. From(t, s, r)' = From(s, s, r)
        BY <1>13, <1>r, <4>2 DEF From
      <4> QED
        BY <1>6, <2>1, <4>3 DEF Own
    <3>3. ASSUME NEW x \in Nat, x = r
          PROVE  Stored(i)'
      <4>1. \A t \in Slave : From(t, s, x)' = From(t, s, r)'
        BY <1>r, <3>3 DEF From
      <4> QED
        BY <3>1, <3>2, <3>3, <4>1 DEF Stored
    <3> QED
      BY <1>2, <3>3
  <2>2. CASE i \notin Own
    <3>1. dfile'[i] = dfile[i]
      BY <1>6, <2>2
    <3>2. CASE dfile[i] = Hole
      BY <3>1, <3>2 DEF Stored
    <3>3. CASE dfile[i] # Hole
      <4>1. PICK q \in Slave : \E x \in 1..Done(q) :
              /\ joined[q][x] = dfile[i]
              /\ \A t \in Slave : Done(t) = x-1 =>
                   i \in From(t, q, x)..From(t, q, x) + Size(joined[q][x])*FSize - 1
        BY <3>3 DEF Stored
      <4> PICK x \in 1..Done(q) :
              /\ joined[q][x] = dfile[i]
              /\ \A t \in Slave : Done(t) = x-1 =>
                   i \in From(t, q, x)..From(t, q, x) + Size(joined[q][x])*FSize - 1
        BY <4>1
      <4>2. x \in 1..Done(q)' /\ x <= r
        BY <1>2, <1>11
      <4>3. ASSUME NEW t \in Slave, Done(t)' = x-1
            PROVE  i \in From(t, q, x)'..From(t, q, x)' + Size(joined'[q][x])*FSize - 1
        <5>1. t # s
          BY <1>2, <1>11, <4>2, <4>3
        <5>2. Done(t) = x-1 /\ From(t, q, x)' = From(t, q, x)
          BY <1>7, <1>11, <1>13, <4>3, <5>1 DEF From
        <5> QED
          BY <1>6, <5>2
      <4> QED
        BY <1>6, <3>1, <4>2, <4>3 DEF Stored
    <3> QED
      BY <3>2, <3>3
  <2> QED
    BY <2>1, <2>2
<1>16. ASSUME NEW i \in DOMAIN dfile, dfile'[i] # dfile[i]
       PROVE  dfile[i] < (dfile'[i] \div NSlaves) * NSlaves
  <2> DEFINE n == NSlaves
  <2>1. i \in Own /\ dfile'[i] = k
    BY <1>6, <1>16
  <2>2. k \in Batch(r)
    <3>1. Turns(s) = joined[s]
      BY <1>1 DEF Turns
    <3>2. r \in Rounds(s)
      BY <1>2, <3>1 DEF Rounds, r
    <3> QED
      BY <1>2, <3>1, <3>2 DEF Batches
  <2>3. (k \div NSlaves) * NSlaves = (r-1)*n /\ (r-1)*n \in Nat
    <3>1. k \div NSlaves = r-1
      BY <1>2, <2>2, OneBatch
    <3>2. (r-1)*n \in Nat
      BY <1>2, Numbers
    <3> QED
      BY <3>1, <3>2
  <2>4. dfile[i] < (r-1)*n
    <3>1. CASE dfile[i] = Hole
      <4> DEFINE y == (r-1)*n
      <4>1. y \in Nat
        BY <2>3
      <4> HIDE DEF y
      <4>2. dfile[i] < y
        BY <3>1, <4>1 DEF Hole
      <4> QED
        BY <4>2 DEF y
    <3>2. CASE dfile[i] # Hole
      <4>1. PICK q \in Slave : \E x \in 1..Done(q) :
              /\ joined[q][x] = dfile[i]
              /\ \A t \in Slave : Done(t) = x-1 =>
                   i \in From(t, q, x)..From(t, q, x) + Size(joined[q][x])*FSize - 1
        BY <3>2 DEF Stored
      <4> PICK x \in 1..Done(q) :
              /\ joined[q][x] = dfile[i]
              /\ \A t \in Slave : Done(t) = x-1 =>
                   i \in From(t, q, x)..From(t, q, x) + Size(joined[q][x])*FSize - 1
        BY <4>1
      <4>2. x \in Nat \ {0} /\ x <= r
        BY <1>2, <1>11
      <4>3. x # r
        <5> SUFFICES ASSUME x = r
                     PROVE  FALSE
          OBVIOUS
        <5>1. i \in From(s, q, r)..From(s, q, r) + Size(joined[q][r])*FSize - 1 /\ q # s
          BY <1>2, <1>11
        <5>2. /\ From(s, q, r) \in Nat /\ Size(joined[q][r])*FSize \in Nat
              /\ From(s, s, r) \in Nat /\ Size(joined[s][r])*FSize \in Nat
              /\ q < s => From(s, q, r) + Size(joined[q][r])*FSize <= From(s, s, r)
              /\ s < q => From(s, s, r) + Size(joined[s][r])*FSize <= From(s, q, r)
          BY <1>2, <1>3, PlacesOfRound
        <5>3. i \in From(s, s, r)..From(s, s, r) + Size(joined[s][r])*FSize - 1
          BY <2>1 DEF Own
        <5>4. q < s \/ s < q
          BY <5>1, Numbers
        <5> DEFINE a == From(s, q, r)
                   b == Size(joined[q][r])*FSize
                   c == From(s, s, r)
                   d == Size(joined[s][r])*FSize
        <5>5. /\ a \in Nat /\ b \in Nat /\ c \in Nat /\ d \in Nat
              /\ i \in a..a+b-1 /\ i \in c..c+d-1 /\ (a+b <= c \/ c+d <= a)
          BY <5>1, <5>2, <5>3, <5>4
        <5> HIDE DEF a, b, c, d
        <5> QED
          BY <5>5
      <4>4. dfile[i] \in Batch(x)
        <5>1. x \in 1..Len(joined[q])
          BY <4>2, DoneJoined
        <5>2. /\ Len(Turns(q)) \in Nat /\ Len(joined[q]) \in Nat /\ Len(joined[q]) <= Len(Turns(q))
              /\ \A y \in 1..Len(joined[q]) : Turns(q)[y] = joined[q][y]
          BY TurnsType
        <5>3. x \in Rounds(q) /\ Turns(q)[x] = dfile[i]
          BY <5>1, <5>2 DEF Rounds
        <5> QED
          BY <5>3 DEF Batches
      <4>5. x-1 \in Nat /\ Batch(x) = (x-1)*n..(x-1)*n + n - 1 /\ (x-1)*n \in Nat
        <5>1. x-1 \in Nat /\ (x-1)+1 = x
          BY <4>2
        <5> QED
          BY <5>1, BatchAfter
      <4>6. (x-1)*n + n <= (r-1)*n
        <5>1. x <= r-1 /\ r-1 \in Nat /\ x \in Nat /\ n \in Nat
          BY <1>2, <4>2, <4>3, Numbers
        <5>2. x*n <= (r-1)*n
          BY <5>1
        <5>3. x*n = (x-1)*n + n
          BY <5>1
        <5> QED
          BY <5>2, <5>3
      <4> DEFINE u == (x-1)*n
                 v == (r-1)*n
      <4>7. dfile[i] \in u..u+n-1 /\ u \in Nat /\ v \in Nat /\ u+n <= v /\ n \in Nat
        BY <2>3, <4>4, <4>5, <4>6, Numbers
      <4> HIDE DEF u, v, n
      <4>8. dfile[i] < v
        BY <4>7
      <4> QED
        BY <4>8 DEF v, n
    <3> QED
      BY <3>1, <3>2
  <2> QED
    BY <2>1, <2>3, <2>4
<1>17. Written'
  <2>1. DOMAIN dfile' = DOMAIN dfile
    BY <1>6
  <2> QED
    BY <1>10, <1>12, <1>14, <1>15, <2>1
<1> QED
  BY <1>9, <1>16, <1>17

-----------------------------------------------------------------------------
(* The invariant, action by action.                                        *)

\* What is read changes with what is ahead only.
LEMMA ReadsKept ==
  ASSUME Reads, UNCHANGED <<job, lengths, dfile, got, next>>,
         \A s \in Slave : Ahead(s)' = Ahead(s)
  PROVE  Reads'
<1>1. Writing' <=> Writing
  BY DEF Writing
<1>2. \A k \in Steps : InFile(k)' = InFile(k)
  BY DEF InFile
<1>3. ReadSoFar' = ReadSoFar
  BY <1>2 DEF ReadSoFar
<1>4. Apart' <=> Apart
  BY DEF Apart
<1> QED
  BY <1>1, <1>3, <1>4 DEF Reads

\* In the writer nothing is read.
LEMMA NothingRead ==
  ASSUME Reads, Writing, Writing', UNCHANGED got
  PROVE  Reads'
BY DEF Reads

\* The master, or a slave at its messages, takes a step.
LEMMA LoopStepInv ==
  ASSUME RoundsInv, UNCHANGED rvars, UNCHANGED <<next, caught>>, Dispatching', Jobs',
         \A s \in Slave : Turns(s)' = Turns(s),
         \A s \in Slave : Ahead(s)' = Ahead(s),
         \A s \in Slave : stage[s] = "allgather" => task'[s] = task[s]
  PROVE  RoundsInv'
<1> USE DEF RoundsInv
<1>1. UNCHANGED <<job, stage, joined, last_offset, lengths, hfile, dfile, calls, got>>
  BY DEF rvars
<1>2. RoundTypes' /\ Header' /\ Reads' /\ RoundsAreBatches'
  <2>1. RoundTypes'
    BY <1>1 DEF RoundTypes
  <2>2. Header'
    BY <1>1 DEF Header, HeaderComplete, Writing
  <2>3. Reads'
    BY <1>1, ReadsKept
  <2>4. RoundsAreBatches'
    BY <1>1 DEF RoundsAreBatches
  <2> QED
    BY <2>1, <2>2, <2>3, <2>4
<1>3. Writing' => Written'
  <2>1. Writing' => Writing
    BY <1>1 DEF Writing
  <2>2. Writing => Batches'
    BY BatchesKept DEF Written
  <2> QED
    BY <1>1, <2>1, <2>2, WrittenKept
<1> QED
  BY <1>2, <1>3

LEMMA JobsKept ==
  ASSUME Jobs, UNCHANGED <<job, stage>>, mpc = "over" => mpc' = "over",
         \A s \in Slave : spc'[s] = spc[s] \/ (spc[s] # "over" /\ spc[s] # "work")
  PROVE  Jobs'
BY DEF Jobs

LEMMA GoesOnInv ==
  ASSUME RoundsInv, MasterSendReturns \/ MasterWaitAll
  PROVE  RoundsInv'
<1> USE DEF RoundsInv
<1>1. SendReturns \/ WaitAll
  BY DEF MasterSendReturns, MasterWaitAll
<1>2. Dispatching' /\ UNCHANGED <<nsteps, next, nstopped, caught, spc, task, result, mq, sq>>
  BY <1>1, GoesOnKeeps
<1>3. UNCHANGED rvars /\ UNCHANGED <<job, stage, joined>>
  BY DEF MasterSendReturns, MasterWaitAll, rvars
<1>4. Jobs'
  <2>1. mpc # "over"
    BY <1>1 DEF SendReturns, WaitAll
  <2> QED
    BY <1>2, <1>3, <2>1, JobsKept
<1>5. \A s \in Slave : Turns(s)' = Turns(s)
  BY <1>2, <1>3 DEF Turns
<1>6. \A s \in Slave : Ahead(s)' = Ahead(s)
  BY <1>2 DEF Ahead
<1> QED
  BY <1>2, <1>3, <1>4, <1>5, <1>6, LoopStepInv

LEMMA SlaveSignalsInv ==
  ASSUME RoundsInv, NEW s \in Slave, SlaveSignals(s)
  PROVE  RoundsInv'
<1> USE DEF RoundsInv
<1>1. /\ Dispatching'
      /\ spc[s] = "ready" /\ sq[s] = <<>> /\ spc'[s] = "wait" /\ sq'[s] = <<>>
      /\ OthersStay(s) /\ UNCHANGED mvars
  BY SignalKeeps DEF SlaveSignals
<1>2. UNCHANGED rvars /\ UNCHANGED <<job, stage, joined>> /\ UNCHANGED <<mpc, next, caught>>
  BY <1>1 DEF SlaveSignals, rvars, mvars
<1>3. Jobs'
  BY <1>1, <1>2, JobsKept DEF OthersStay
<1>4. Turns(s)' = Turns(s)
  BY <1>1, <1>2 DEF Turns
<1>5. \A t \in Slave \ {s} : Turns(t)' = Turns(t) /\ task'[t] = task[t]
  BY <1>1, <1>2 DEF Turns, OthersStay
<1>6. stage[s] # "allgather"
  BY <1>1 DEF Jobs
<1>7. \A t \in Slave : Ahead(t)' = Ahead(t)
  BY <1>1 DEF Ahead, OthersStay
<1> QED
  BY <1>1, <1>2, <1>3, <1>4, <1>5, <1>6, <1>7, LoopStepInv

LEMMA SlaveInstructedInv ==
  ASSUME RoundsInv, NEW s \in Slave, SlaveInstructed(s)
  PROVE  RoundsInv'
<1> USE DEF RoundsInv
<1>1. /\ Dispatching'
      /\ spc[s] = "wait" /\ sq[s] # <<>> /\ sq'[s] = <<>> /\ OthersStay(s) /\ UNCHANGED mvars
      /\ \/ Head(sq[s]) = Terminate /\ spc'[s] = "over"
         \/ Head(sq[s]) # Terminate /\ spc'[s] = "work" /\ task'[s] = Head(sq[s])
  BY InstructedKeeps DEF SlaveInstructed
<1>2. UNCHANGED rvars /\ UNCHANGED <<job, stage, joined>> /\ UNCHANGED <<mpc, next, caught>>
  BY <1>1 DEF SlaveInstructed, rvars, mvars
<1>3. stage[s] = "begin"
  BY <1>1 DEF Jobs, RoundTypes
<1>4. Jobs'
  BY <1>1, <1>2, JobsKept DEF OthersStay
<1>5. Turns(s)' = Turns(s)
  BY <1>1, <1>2, <1>3 DEF Turns
<1>6. \A t \in Slave \ {s} : Turns(t)' = Turns(t) /\ task'[t] = task[t]
  BY <1>1, <1>2 DEF Turns, OthersStay
<1>7. \A t \in Slave : Ahead(t)' = Ahead(t)
  BY <1>1, Numbers DEF Ahead, OthersStay
<1> QED
  BY <1>1, <1>2, <1>3, <1>4, <1>5, <1>6, <1>7, LoopStepInv

\* The array of lengths gets the result that is received.
LEMMA RecordedLemma ==
  ASSUME RoundTypes, NEW s \in Slave, Head(mq[s]) \in Result,
         \A k \in Steps : k \in caught => lengths[k] = Length[k],
         caught' = caught \union ({Head(mq[s])} \ {None}), lengths' = Recorded(s)
  PROVE  lengths' \in [Steps -> Nat] /\ \A k \in Steps : k \in caught' => lengths'[k] = Length[k]
<1> DEFINE x == Head(mq[s])
<1>1. \A k \in Steps : Length[k] \in Nat
  BY RoundsAssumption
<1>2. CASE x \in Steps
  <2>1. lengths' = [lengths EXCEPT ![x] = Length[x]]
    BY <1>2 DEF Recorded
  <2> QED
    BY <1>1, <1>2, <2>1 DEF RoundTypes
<1>3. CASE x \notin Steps
  BY <1>3 DEF Recorded, RoundTypes
<1> QED
  BY <1>2, <1>3

LEMMA DispatchWriteInv ==
  ASSUME RoundsInv, NEW s \in Slave, DispatchWrite(s)
  PROVE  RoundsInv'
<1> USE DEF RoundsInv
<1>1. /\ Dispatching'
      /\ spc[s] = "wait" /\ sq[s] = <<>> /\ sq'[s] = <<next>> /\ OthersStay(s)
      /\ next \in Step /\ next' = next + 1 /\ UNCHANGED spc
      /\ caught' = caught \union ({Head(mq[s])} \ {None}) /\ Head(mq[s]) \in Result
      /\ mpc = "recv"
  BY DispatchKeeps DEF DispatchWrite
<1>2. /\ job[Master] = "write" /\ lengths' = Recorded(s)
      /\ UNCHANGED <<job, stage, joined, last_offset, hfile, dfile, calls, got>>
      /\ Writing /\ task' = task
  BY DEF DispatchWrite, Dispatch, svars, Writing
<1>3. lengths' \in [Steps -> Nat] /\ \A k \in Steps : k \in caught' => lengths'[k] = Length[k]
  BY <1>1, <1>2, RecordedLemma DEF Header
<1>4. RoundTypes' /\ Header' /\ Reads' /\ RoundsAreBatches'
  <2>1. RoundTypes'
    BY <1>2, <1>3 DEF RoundTypes
  <2>2. Header'
    BY <1>2, <1>3 DEF Header, HeaderComplete
  <2>3. Reads'
    BY <1>2, NothingRead DEF Writing
  <2>4. RoundsAreBatches'
    BY <1>2 DEF RoundsAreBatches
  <2> QED
    BY <2>1, <2>2, <2>3, <2>4
<1>5. Jobs'
  BY <1>1, <1>2, JobsKept
<1>6. Batches'
  <2>1. stage[s] = "begin"
    BY <1>1 DEF Jobs, RoundTypes
  <2> QED
    BY <1>1, <1>2, <2>1, BatchesGrow DEF Written, Dispatching
<1>7. Written'
  BY <1>2, <1>6, WrittenKept
<1> QED
  BY <1>1, <1>4, <1>5, <1>7

LEMMA StopWriteInv ==
  ASSUME RoundsInv, NEW s \in Slave, StopWrite(s)
  PROVE  RoundsInv'
<1> USE DEF RoundsInv
<1>1. /\ Dispatching'
      /\ spc[s] = "wait" /\ sq[s] = <<>> /\ sq'[s] = <<Terminate>> /\ OthersStay(s)
      /\ UNCHANGED <<next, spc>>
      /\ caught' = caught \union ({Head(mq[s])} \ {None}) /\ Head(mq[s]) \in Result
      /\ mpc = "final"
  BY StopKeeps DEF StopWrite
<1>2. /\ job[Master] = "write" /\ lengths' = Recorded(s)
      /\ UNCHANGED <<job, stage, joined, last_offset, hfile, dfile, calls, got>>
      /\ Writing /\ task' = task
  BY DEF StopWrite, Stop, svars, Writing
<1>3. lengths' \in [Steps -> Nat] /\ \A k \in Steps : k \in caught' => lengths'[k] = Length[k]
  BY <1>1, <1>2, RecordedLemma DEF Header
<1>4. RoundTypes' /\ Header' /\ Reads' /\ RoundsAreBatches'
  <2>1. RoundTypes'
    BY <1>2, <1>3 DEF RoundTypes
  <2>2. Header'
    BY <1>2, <1>3 DEF Header, HeaderComplete
  <2>3. Reads'
    BY <1>2, NothingRead DEF Writing
  <2>4. RoundsAreBatches'
    BY <1>2 DEF RoundsAreBatches
  <2> QED
    BY <2>1, <2>2, <2>3, <2>4
<1>5. Jobs'
  BY <1>1, <1>2, JobsKept
<1>6. Batches'
  <2>1. Head(sq'[s]) = Terminate
    BY <1>1
  <2>2. Turns(s)' = Turns(s)
    BY <1>1, <1>2, <2>1 DEF Turns
  <2>3. \A t \in Slave \ {s} : Turns(t)' = Turns(t)
    BY <1>1, <1>2 DEF Turns, OthersStay
  <2>4. \A t \in Slave : Turns(t)' = Turns(t)
    BY <2>2, <2>3
  <2>5. Batches
    BY <1>2 DEF Written
  <2> QED
    BY <1>1, <2>4, <2>5, BatchesKept
<1>7. Written'
  BY <1>2, <1>6, WrittenKept
<1> QED
  BY <1>1, <1>4, <1>5, <1>7

\* The loop is left alone.
LEMMA LoopKept ==
  ASSUME Dispatching, UNCHANGED dvars
  PROVE  Dispatching'
<1>1. UNCHANGED <<mpc, nsteps, next, nstopped, caught, spc, task, result, mq, sq>>
  BY DEF dvars, mvars, svars
<1>2. LoopTypes' /\ Places'
  BY <1>1 DEF Dispatching, LoopTypes, Places
<1>3. \A t \in Slave : Owed(t)' = Owed(t) /\ (Stopped(t)' <=> Stopped(t))
  BY <1>1 DEF Owed, Stopped
<1>4. Sharing'
  BY <1>1, <1>3 DEF Dispatching, Sharing
<1>5. Loop'
  <2>1. {t \in Slave : Stopped(t)}' = {t \in Slave : Stopped(t)}
    BY <1>3
  <2> QED
    BY <1>1, <1>3, <2>1 DEF Dispatching, Loop
<1> QED
  BY <1>2, <1>4, <1>5 DEF Dispatching

LEMMA WriteHeaderInv ==
  ASSUME RoundsInv, WriteHeader
  PROVE  RoundsInv'
<1> USE DEF RoundsInv
<1>1. /\ job[Master] = "write" /\ mpc = "over" /\ hfile' = lengths
      /\ job' = [job EXCEPT ![Master] = "written"] /\ UNCHANGED dvars
      /\ UNCHANGED <<stage, joined, last_offset, lengths, dfile, calls, got>>
  BY DEF WriteHeader
<1>2. UNCHANGED <<mpc, nsteps, next, nstopped, caught, spc, task, result, mq, sq>>
  BY <1>1 DEF dvars, mvars, svars
<1>3. Writing /\ Writing'
  BY <1>1 DEF Writing, RoundTypes, Proc
<1>4. /\ job'[Master] = "written" /\ \A s \in Slave : job'[s] = job[s]
  BY <1>1, Numbers DEF RoundTypes, Proc
<1>5. Dispatching'
  BY <1>1, LoopKept
<1>6. RoundTypes'
  BY <1>1 DEF RoundTypes, Job
<1>7. Header'
  <2>1. \A k \in Steps : lengths[k] = Length[k]
    BY <1>1, <1>3, AllCaught DEF Header
  <2>2. lengths \in [Steps -> Nat] /\ Length \in [Steps -> Nat]
    BY RoundsAssumption DEF RoundTypes
  <2>3. lengths = Length
    BY <2>1, <2>2
  <2> QED
    BY <1>1, <2>1, <2>3 DEF Header, HeaderComplete
<1>8. Jobs'
  <2>1. \A p \in Proc : job[p] \in {"write", "written"}
    BY <1>1 DEF Jobs, Proc
  <2>2. \A p \in Proc : job'[p] \in {"write", "written"}
    BY <1>4, <2>1 DEF Proc
  <2> QED
    BY <1>1, <1>2, <1>4, <2>2 DEF Jobs
<1>9. Reads' /\ RoundsAreBatches'
  BY <1>1, <1>3, NothingRead DEF RoundsAreBatches
<1>10. Written'
  <2>1. \A s \in Slave : Turns(s)' = Turns(s)
    BY <1>1, <1>2 DEF Turns
  <2>2. Batches'
    BY <1>2, <1>3, <2>1, BatchesKept DEF Written
  <2> QED
    BY <1>1, <1>2, <1>3, <2>2, WrittenKept
<1> QED
  BY <1>5, <1>6, <1>7, <1>8, <1>9, <1>10

LEMMA SlaveWroteInv ==
  ASSUME RoundsInv, NEW s \in Slave, SlaveWrote(s)
  PROVE  RoundsInv'
<1> USE DEF RoundsInv
<1>1. /\ job[s] = "write" /\ spc[s] = "over"
      /\ job' = [job EXCEPT ![s] = "written"] /\ UNCHANGED dvars
      /\ UNCHANGED <<stage, joined, last_offset, lengths, hfile, dfile, calls, got>>
  BY DEF SlaveWrote
<1>2. UNCHANGED <<mpc, nsteps, next, nstopped, caught, spc, task, result, mq, sq>>
  BY <1>1 DEF dvars, mvars, svars
<1>3. job'[s] = "written" /\ \A p \in Proc \ {s} : job'[p] = job[p]
  BY <1>1 DEF RoundTypes, Proc
<1>4. job'[Master] = job[Master] /\ s # Master /\ s \in Proc /\ Master \in Proc
  BY <1>3, Numbers DEF Proc
<1>5. Dispatching'
  BY <1>1, LoopKept
<1>6. RoundTypes'
  BY <1>1 DEF RoundTypes, Job
<1>7. Header' /\ Reads' /\ RoundsAreBatches'
  <2>1. Writing /\ Writing'
    BY <1>1, <1>4 DEF Writing, Jobs
  <2> QED
    BY <1>1, <1>2, <1>4, <2>1, NothingRead DEF Header, HeaderComplete, RoundsAreBatches
<1>8. Jobs'
  <2>1. \A p \in Proc : job[p] \in {"write", "written"}
    BY <1>1, <1>4 DEF Jobs
  <2>2. \A p \in Proc : job'[p] \in {"write", "written"}
    BY <1>3, <2>1
  <2>3. \A t \in Slave : job'[t] = job[t] \/ t = s
    BY <1>3 DEF Proc
  <2>4. stage[s] = "begin"
    BY <1>1 DEF Jobs, RoundTypes
  <2> QED
    BY <1>1, <1>2, <1>3, <1>4, <2>2, <2>3, <2>4 DEF Jobs
<1>9. Writing' => Written'
  <2>1. \A t \in Slave : Turns(t)' = Turns(t)
    BY <1>1, <1>2 DEF Turns
  <2>2. Writing' => Writing
    BY <1>4 DEF Writing
  <2>3. Writing => Batches'
    BY <1>2, <2>1, BatchesKept DEF Written
  <2> QED
    BY <1>1, <1>2, <2>2, <2>3, WrittenKept
<1> QED
  BY <1>5, <1>6, <1>7, <1>8, <1>9

LEMMA JoinRoundInv ==
  ASSUME RoundsInv, NEW s \in Slave, JoinRound(s)
  PROVE  RoundsInv'
<1> USE DEF RoundsInv
<1>1. /\ job[s] = "write" /\ spc[s] = "work" /\ stage[s] = "begin"
      /\ stage' = [stage EXCEPT ![s] = "allgather"] /\ UNCHANGED dvars
      /\ UNCHANGED <<job, last_offset, lengths, hfile, dfile, calls, got>>
  BY DEF JoinRound
<1>2. /\ stage'[s] = "allgather" /\ \A t \in Slave \ {s} : stage'[t] = stage[t]
      /\ UNCHANGED <<mpc, caught, spc>>
  BY <1>1 DEF RoundTypes, dvars, mvars, svars
<1>3. Dispatching'
  BY <1>1, LoopKept
<1>4. Writing /\ Writing'
  <2>1. \A p \in Proc : job[p] \in {"write", "written"}
    BY <1>1 DEF Jobs, Proc
  <2> QED
    BY <1>1, <2>1 DEF Writing, Proc
<1>5. Written' /\ RoundTypes'
  BY <1>4, JoinWritten DEF Dispatching
<1>6. RoundsAreBatches'
  <2>1. LoopTypes' /\ Places' /\ RoundTypes' /\ Batches' => RoundsAreBatches'
    BY BatchesLemma, PTL
  <2> QED
    BY <1>3, <1>5, <2>1 DEF Dispatching, Written
<1>7. Jobs'
  BY <1>1, <1>2 DEF Jobs
<1>8. Header' /\ Reads'
  BY <1>1, <1>2, <1>4, NothingRead DEF Header, HeaderComplete
<1> QED
  BY <1>3, <1>5, <1>6, <1>7, <1>8

LEMMA WriteRoundInv ==
  ASSUME RoundsInv, NEW s \in Slave, WriteRound(s)
  PROVE  RoundsInv'
<1> USE DEF RoundsInv
<1>1. /\ job[s] = "write" /\ stage[s] = "allgather"
      /\ stage' = [stage EXCEPT ![s] = "begin"] /\ WorkDone(s)
      /\ UNCHANGED <<job, joined, lengths, hfile, calls, got>>
  BY DEF WriteRound
<1>2. stage'[s] = "begin" /\ \A t \in Slave \ {s} : stage'[t] = stage[t]
  BY <1>1 DEF RoundTypes
<1>3. /\ Dispatching' /\ spc[s] = "work" /\ spc'[s] = "ready" /\ OthersStay(s)
      /\ UNCHANGED <<mpc, caught>>
  BY <1>1, WorkDoneKeeps DEF mvars
<1>4. Writing /\ Writing'
  <2>1. \A p \in Proc : job[p] \in {"write", "written"}
    BY <1>1 DEF Jobs, Proc
  <2> QED
    BY <1>1, <2>1 DEF Writing, Proc
<1>5. Written' /\ RoundTypes'
  BY <1>4, WriteWritten
<1>6. Jobs'
  BY <1>1, <1>2, <1>3 DEF Jobs, OthersStay
<1>7. Header' /\ Reads' /\ RoundsAreBatches'
  <2>1. Reads'
    BY <1>1, <1>4, NothingRead
  <2>2. Header' /\ RoundsAreBatches'
    BY <1>1, <1>3, <1>4 DEF Header, HeaderComplete, RoundsAreBatches
  <2> QED
    BY <2>1, <2>2
<1> QED
  BY <1>3, <1>5, <1>6, <1>7

-----------------------------------------------------------------------------
(* The reader.                                                             *)

\* A loop that has just been started, with as many steps as the first one.
Started ==
  /\ mpc = LoopStart(NSteps) /\ nsteps = NSteps /\ next = 0 /\ nstopped = 0 /\ caught = {}
  /\ spc = [s \in Slave |-> "ready"] /\ task = [s \in Slave |-> None]
  /\ result = [s \in Slave |-> None]
  /\ mq = [s \in Slave |-> <<>>] /\ sq = [s \in Slave |-> <<>>]

LEMMA DispatchStarts == Started => Dispatching
<1> SUFFICES ASSUME Started
             PROVE  Dispatching
  OBVIOUS
<1> USE DEF Started
<1>1. LoopTypes
  <2>1. <<>> \in Seq(Result) /\ None \in Result /\ None \in Int
    BY Numbers DEF Result
  <2> QED
    BY <2>1, Numbers DEF LoopTypes, LoopStart
<1>2. Places
  BY DEF Places
<1>3. Loop
  <2>1. \A s \in Slave : ~Stopped(s)
    <3>1. \A x : <<>> # <<x>>
      OBVIOUS
    <3> QED
      BY <3>1 DEF Stopped
  <2>2. {s \in Slave : Stopped(s)} = {}
    BY <2>1
  <2>3. nstopped = Cardinality({s \in Slave : Stopped(s)})
    BY <2>2, FS_EmptySet
  <2>4. /\ mpc = "recv" => next < NSteps
        /\ mpc \notin {"waitall", "over"}
        /\ mpc = "final" => next = NSteps
    BY Numbers DEF LoopStart
  <2> QED
    BY <2>3, <2>4 DEF Loop
<1>4. Sharing
  BY DEF Sharing
<1> QED
  BY <1>1, <1>2, <1>3, <1>4 DEF Dispatching

LEMMA StartReaderInv ==
  ASSUME RoundsInv, StartReader
  PROVE  RoundsInv'
<1> USE DEF RoundsInv
<1>1. /\ \A p \in Proc : job[p] = "written"
      /\ job' = [p \in Proc |-> "read"] /\ lengths' = hfile
      /\ joined' = [s \in Slave |-> <<>>] /\ last_offset' = [s \in Slave |-> 0]
      /\ UNCHANGED <<stage, hfile, dfile, calls, got>>
      /\ spc' = [s \in Slave |-> "ready"] /\ mpc' = LoopStart(NSteps)
      /\ next' = 0 /\ sq' = [s \in Slave |-> <<>>]
  BY DEF StartReader, NSteps
<1>2. Dispatching'
  <2>1. Started'
    BY DEF StartReader, Started, NSteps
  <2> QED
    BY <2>1, DispatchStarts, PTL
<1>3. Writing /\ job'[Master] = "read" /\ ~Writing' /\ \A p \in Proc : job'[p] = "read"
  BY <1>1 DEF Writing, Proc
<1>4. \A s \in Slave : stage[s] = "begin"
  BY <1>1 DEF Jobs, RoundTypes, Proc
<1>5. hfile = Length /\ Length \in [Steps -> Nat]
  BY <1>1, RoundsAssumption DEF Header, HeaderComplete, Proc
<1>6. RoundTypes'
  <2>1. <<>> \in Seq(Step)
    OBVIOUS
  <2> QED
    BY <1>1, <1>5, <2>1 DEF RoundTypes, Job
<1>7. Jobs'
  BY <1>1, <1>3, <1>4 DEF Jobs, Proc
<1>8. Header' /\ RoundsAreBatches'
  <2>1. \A s \in Slave : Len(joined'[s]) = 0
    <3>1. Len(<<>>) = 0
      OBVIOUS
    <3> QED
      BY <1>1, <3>1
  <2>2. 1 \in Slave /\ 1..NSteps \subseteq Nat \ {0}
    BY Numbers
  <2>3. RoundsAreBatches'
    BY <2>1, <2>2 DEF RoundsAreBatches, NSteps
  <2> QED
    BY <1>1, <1>3, <1>5, <2>3 DEF Header, HeaderComplete
<1>9. Reads'
  <2>1. \A s \in Slave : Ahead(s)' = None
    BY <1>1 DEF Ahead
  <2>2. Apart'
    BY <1>1, <2>1, Numbers DEF Apart
  <2>3. ReadSoFar' = [k \in Steps |-> <<>>]
    <3>1. \A k \in Steps : ~(k < next')
      BY <1>1, Numbers DEF Steps
    <3> QED
      BY <3>1 DEF ReadSoFar
  <2>4. got' = [k \in Steps |-> <<>>]
    BY <1>1, <1>3 DEF Reads
  <2> QED
    BY <1>1, <1>3, <1>5, <2>2, <2>3, <2>4 DEF Reads
<1> QED
  BY <1>2, <1>3, <1>6, <1>7, <1>8, <1>9

LEMMA AnswerReadInv ==
  ASSUME RoundsInv, NEW s \in Slave, DispatchRead(s) \/ StopRead(s)
  PROVE  RoundsInv'
<1> USE DEF RoundsInv
<1>1. /\ job[Master] = "read" /\ (Dispatch(s) \/ Stop(s))
      /\ UNCHANGED <<job, stage, joined, last_offset, lengths, hfile, dfile, calls, got>>
  BY DEF DispatchRead, StopRead, rvars
<1>2. Dispatching' /\ UNCHANGED spc /\ mpc # "over"
  BY <1>1, DispatchKeeps, StopKeeps
<1>3. ~Writing /\ ~Writing'
  BY <1>1 DEF Writing
<1>4. RoundTypes' /\ Header' /\ RoundsAreBatches'
  <2>1. RoundTypes'
    BY <1>1 DEF RoundTypes
  <2>2. Header' /\ RoundsAreBatches'
    BY <1>1, <1>3 DEF Header, HeaderComplete, RoundsAreBatches
  <2> QED
    BY <2>1, <2>2
<1>5. Jobs'
  BY <1>1, <1>2, JobsKept
<1>6. Reads'
  <2>1. \A k \in Steps : InFile(k)' = InFile(k)
    BY <1>1 DEF InFile
  <2>2. lengths = Length /\ got = ReadSoFar /\ Apart /\ next \in Nat
    BY <1>3 DEF Reads, Dispatching, LoopTypes
  <2>3. /\ spc[s] = "wait" /\ sq[s] = <<>> /\ OthersStay(s) /\ UNCHANGED spc
        /\ \/ sq'[s] = <<next>> /\ next' = next + 1
           \/ sq'[s] = <<None>> /\ next' = next
    BY <1>1, DispatchKeeps, StopKeeps, Numbers
  <2>4. Ahead(s) = None /\ \A t \in Slave \ {s} : Ahead(t)' = Ahead(t)
    BY <2>3 DEF Ahead, OthersStay
  <2>5. \/ Ahead(s)' = next /\ next' = next + 1
        \/ Ahead(s)' = None /\ next' = next
    BY <2>3 DEF Ahead
  <2>6. Apart'
    BY <2>2, <2>4, <2>5, Numbers DEF Apart
  <2>7. ReadSoFar' = ReadSoFar
    <3>1. ASSUME NEW k \in Steps
          PROVE  (k < next' /\ \A t \in Slave : Ahead(t)' # k) <=> (k < next /\ \A t \in Slave : Ahead(t) # k)
      BY <2>2, <2>4, <2>5, Numbers DEF Steps
    <3> QED
      BY <2>1, <3>1 DEF ReadSoFar
  <2> QED
    BY <1>1, <1>3, <2>2, <2>6, <2>7 DEF Reads
<1> QED
  BY <1>2, <1>3, <1>4, <1>5, <1>6

LEMMA StartReadInv ==
  ASSUME RoundsInv, NEW s \in Slave, StartRead(s)
  PROVE  RoundsInv'
<1> USE DEF RoundsInv
<1>1. /\ job[s] = "read" /\ spc[s] = "work" /\ stage[s] = "begin" /\ UNCHANGED dvars
      /\ UNCHANGED <<job, joined, last_offset, lengths, hfile, dfile, got>>
  BY DEF StartRead
<1>2. \/ stage' = [stage EXCEPT ![s] = "IndexError"] /\ calls' = calls
      \/ stage' = [stage EXCEPT ![s] = "reading"] /\ calls' = [calls EXCEPT ![s] = calls[s] + 1]
  BY DEF StartRead
<1>3. /\ stage'[s] \in {"reading", "IndexError"}
      /\ \A t \in Slave \ {s} : stage'[t] = stage[t]
  BY <1>2 DEF RoundTypes
<1>4. Dispatching' /\ UNCHANGED <<mpc, caught, spc>>
  BY <1>1, LoopKept DEF dvars, mvars, svars
<1>5. ~Writing /\ ~Writing'
  <2>1. \A p \in Proc : job[p] \in {"read", "return"}
    BY <1>1 DEF Jobs, Proc
  <2> QED
    BY <1>1, <2>1 DEF Writing, Proc
<1>6. RoundTypes'
  <2>1. RoundTypes
    OBVIOUS
  <2>2. stage' \in [Slave -> {"begin", "allgather", "reading", "IndexError"}]
    BY <1>2, <2>1 DEF RoundTypes
  <2>3. calls' \in [Slave -> Nat]
    BY <1>2, <2>1 DEF RoundTypes
  <2> QED
    BY <1>1, <2>1, <2>2, <2>3 DEF RoundTypes
<1>7. Jobs'
  BY <1>1, <1>3, <1>4 DEF Jobs
<1>8. Header' /\ RoundsAreBatches'
  BY <1>1, <1>5 DEF Header, HeaderComplete, RoundsAreBatches
<1>9. Reads'
  <2>1. UNCHANGED <<next, spc, task, sq>>
    BY <1>1 DEF dvars, mvars, svars
  <2>2. \A t \in Slave : Ahead(t)' = Ahead(t)
    BY <2>1 DEF Ahead
  <2> QED
    BY <1>1, <2>1, <2>2, ReadsKept
<1> QED
  BY <1>4, <1>5, <1>6, <1>7, <1>8, <1>9

LEMMA EndReadInv ==
  ASSUME RoundsInv, NEW s \in Slave, EndRead(s)
  PROVE  RoundsInv'
<1> USE DEF RoundsInv
<1>1. /\ job[s] = "read" /\ stage[s] = "reading" /\ WorkDone(s)
      /\ got' = RecordRead(s)
      /\ stage' = [stage EXCEPT ![s] = "begin"]
      /\ UNCHANGED <<job, joined, last_offset, lengths, hfile, dfile, calls>>
  BY DEF EndRead
<1>2. stage'[s] = "begin" /\ \A t \in Slave \ {s} : stage'[t] = stage[t]
  BY <1>1 DEF RoundTypes
<1>3. /\ Dispatching' /\ spc[s] = "work" /\ spc'[s] = "ready" /\ OthersStay(s)
      /\ UNCHANGED <<mpc, caught>>
  BY <1>1, WorkDoneKeeps DEF mvars
<1>4. ~Writing /\ ~Writing'
  <2>1. \A p \in Proc : job[p] \in {"read", "return"}
    BY <1>1 DEF Jobs, Proc
  <2> QED
    BY <1>1, <2>1 DEF Writing, Proc
<1>5. RoundTypes'
  BY <1>1 DEF RoundTypes
<1>6. Jobs'
  BY <1>1, <1>2, <1>3 DEF Jobs, OthersStay
<1>7. Header' /\ RoundsAreBatches'
  BY <1>1, <1>4 DEF Header, HeaderComplete, RoundsAreBatches
<1>8. Reads'
  <2> DEFINE x == task[s]
  <2>1. \A k \in Steps : InFile(k)' = InFile(k)
    BY <1>1 DEF InFile
  <2>2. lengths = Length /\ got = ReadSoFar /\ Apart /\ next \in Nat
    BY <1>4 DEF Reads, Dispatching, LoopTypes
  <2>3. x \in Step /\ sq[s] = <<>> /\ spc[s] = "work" /\ spc'[s] = "ready" /\ sq'[s] = <<>>
        /\ OthersStay(s) /\ UNCHANGED next
    BY <1>1, WorkDoneKeeps DEF mvars
  <2>4. Ahead(s) = x /\ Ahead(s)' = None /\ \A t \in Slave \ {s} : Ahead(t)' = Ahead(t)
    BY <2>3 DEF Ahead, OthersStay
  <2>5. Apart'
    BY <2>2, <2>3, <2>4, Numbers DEF Apart
  <2>6. \A k \in Steps : ReadSoFar'[k] = IF k = x THEN <<InFile(x)>> ELSE ReadSoFar[k]
    <3>1. x < next /\ x # None /\ \A t \in Slave \ {s} : Ahead(t) # x
      BY <2>2, <2>3, <2>4, Numbers DEF Apart, Step
    <3>2. ASSUME NEW k \in Steps
          PROVE  (k < next' /\ \A t \in Slave : Ahead(t)' # k)
                   <=> k = x \/ (k < next /\ \A t \in Slave : Ahead(t) # k)
      BY <2>3, <2>4, <3>1, Numbers DEF Steps
    <3> QED
      BY <2>1, <3>2 DEF ReadSoFar
  <2>7. \A k \in Steps : got'[k] = IF k = x THEN <<InFile(x)>> ELSE got[k]
    <3>1. CASE x \notin Steps
      BY <1>1, <3>1 DEF RecordRead
    <3>2. CASE x \in Steps
      <4>1. Values(s, Before(lengths, x)) = InFile(x)
        BY <2>2 DEF Values, InFile
      <4>2. got[x] = <<>>
        BY <2>2, <2>4, <3>2 DEF ReadSoFar
      <4>3. DOMAIN got = Steps
        BY <2>2 DEF ReadSoFar
      <4>4. got' = [got EXCEPT ![x] = Append(<<>>, InFile(x))]
        BY <1>1, <3>2, <4>1, <4>2, <4>3 DEF RecordRead
      <4>5. Append(<<>>, InFile(x)) = <<InFile(x)>>
        OBVIOUS
      <4> QED
        BY <4>3, <4>4, <4>5
    <3> QED
      BY <3>1, <3>2
  <2>8. got' = ReadSoFar'
    <3>1. \A k \in Steps : got'[k] = ReadSoFar'[k]
      BY <2>2, <2>6, <2>7
    <3>2. got' = [k \in Steps |-> got'[k]] /\ ReadSoFar' = [k \in Steps |-> ReadSoFar'[k]]
      BY <1>1, <2>2 DEF ReadSoFar, RecordRead
    <3> QED
      BY <3>1, <3>2
  <2> QED
    BY <1>1, <1>4, <2>2, <2>5, <2>8 DEF Reads
<1> QED
  BY <1>3, <1>4, <1>5, <1>6, <1>7, <1>8

LEMMA ReturnInv ==
  ASSUME RoundsInv, NEW p \in Proc, Return(p)
  PROVE  RoundsInv'
<1> USE DEF RoundsInv
<1>1. /\ job[p] = "read" /\ IF p = Master THEN mpc = "over" ELSE spc[p] = "over"
      /\ job' = [job EXCEPT ![p] = "return"] /\ UNCHANGED dvars
      /\ UNCHANGED <<stage, joined, last_offset, lengths, hfile, dfile, calls, got>>
  BY DEF Return
<1>2. job'[p] = "return" /\ \A t \in Proc \ {p} : job'[t] = job[t]
  BY <1>1 DEF RoundTypes
<1>3. Dispatching' /\ UNCHANGED <<mpc, caught, spc>>
  BY <1>1, LoopKept DEF dvars, mvars, svars
<1>4. /\ \A t \in Proc : job[t] \in {"read", "return"}
      /\ \A t \in Proc : job'[t] \in {"read", "return"}
      /\ Master \in Proc /\ Master \notin Slave /\ Slave \subseteq Proc
  <2>1. \A t \in Proc : job[t] \in {"read", "return"}
    BY <1>1 DEF Jobs
  <2> QED
    BY <1>2, <2>1, Numbers DEF Proc
<1>5. ~Writing /\ ~Writing'
  BY <1>4 DEF Writing
<1>6. RoundTypes'
  BY <1>1 DEF RoundTypes, Job
<1>7. Jobs'
  <2>1. job'[Master] = "return" => mpc = "over"
    BY <1>1, <1>2, <1>4 DEF Jobs
  <2>2. \A s \in Slave : job'[s] = "return" => spc[s] = "over"
    BY <1>1, <1>2, <1>4 DEF Jobs
  <2>3. \A s \in Slave : stage[s] \in {"reading", "IndexError"} => job'[s] = "read"
    BY <1>1, <1>2, <1>4 DEF Jobs
  <2>4. \A s \in Slave : stage[s] # "allgather"
    BY <1>4 DEF Jobs
  <2>5. \A s \in Slave : job'[s] # "written" /\ job'[Master] # "written"
    BY <1>4
  <2> QED
    BY <1>1, <1>3, <1>4, <2>1, <2>2, <2>3, <2>4, <2>5 DEF Jobs
<1>8. Header' /\ RoundsAreBatches' /\ Reads'
  <2>1. UNCHANGED <<next, spc, task, sq>>
    BY <1>1 DEF dvars, mvars, svars
  <2>2. \A t \in Slave : Ahead(t)' = Ahead(t)
    BY <2>1 DEF Ahead
  <2>3. lengths = Length /\ got = ReadSoFar /\ Apart /\ ReadSoFar' = ReadSoFar /\ (Apart' <=> Apart)
    BY <1>1, <1>5, <2>1, <2>2 DEF Reads, ReadSoFar, Apart, InFile
  <2>4. Reads'
    BY <1>1, <1>5, <2>3 DEF Reads
  <2> QED
    BY <1>1, <1>4, <1>5, <2>4 DEF Header, HeaderComplete, RoundsAreBatches
<1> QED
  BY <1>3, <1>5, <1>6, <1>7, <1>8

-----------------------------------------------------------------------------
(* The specification.                                                      *)

LEMMA RoundsInitInv ==
  ASSUME RoundsInit
  PROVE  RoundsInv
<1>1. /\ job = [p \in Proc |-> "write"] /\ stage = [s \in Slave |-> "begin"]
      /\ joined = [s \in Slave |-> <<>>] /\ last_offset = [s \in Slave |-> 0]
      /\ lengths = [k \in Steps |-> 0] /\ dfile = [i \in 0..End-1 |-> Hole]
      /\ calls = [s \in Slave |-> 0] /\ got = [k \in Steps |-> <<>>]
      /\ spc = [s \in Slave |-> "ready"] /\ sq = [s \in Slave |-> <<>>]
      /\ mpc = LoopStart(NSteps) /\ caught = {} /\ next = 0
  BY DEF RoundsInit, DispatchInit, NSteps
<1>2. Dispatching
  BY DispatchStarts DEF Started, RoundsInit, DispatchInit, NSteps
<1>3. RoundTypes
  <2>1. <<>> \in Seq(Step) /\ Hole \in Int
    BY DEF Hole
  <2> QED
    BY <1>1, <2>1 DEF RoundTypes, Job
<1>4. Jobs
  BY <1>1 DEF Jobs, Proc
<1>5. Header /\ Reads
  BY <1>1 DEF Header, HeaderComplete, Reads, Writing, Proc
<1>6. Written
  <2>1. \A s \in Slave : Turns(s) = <<>> /\ Rounds(s) = {} /\ Done(s) = 0
    <3>1. Len(<<>>) = 0 /\ 1..0 = {}
      OBVIOUS
    <3> QED
      BY <1>1, <3>1 DEF Turns, Rounds, Done
  <2>2. Batches
    BY <1>1, <2>1 DEF Batches
  <2>3. Lockstep
    <3>1. Len(<<>>) = 0
      OBVIOUS
    <3> QED
      BY <1>1, <2>1, <3>1 DEF Lockstep
  <2>4. Offset
    BY <1>1, <2>1 DEF Offset
  <2>5. \A i \in DOMAIN dfile : Stored(i)
    BY <1>1 DEF Stored
  <2> QED
    BY <2>2, <2>3, <2>4, <2>5 DEF Written
<1>7. RoundsAreBatches
  BY <1>2, <1>3, <1>6, BatchesLemma DEF Dispatching, Written
<1> QED
  BY <1>2, <1>3, <1>4, <1>5, <1>6, <1>7 DEF RoundsInv

LEMMA RoundsStutterInv ==
  ASSUME RoundsInv, UNCHANGED <<dvars, rvars>>
  PROVE  RoundsInv'
<1> USE DEF RoundsInv
<1>1. /\ UNCHANGED dvars /\ UNCHANGED rvars
      /\ UNCHANGED <<mpc, next, caught, spc, task, sq, job, stage, joined>>
  BY DEF dvars, mvars, svars, rvars
<1>2. Dispatching'
  BY <1>1, LoopKept
<1>3. Jobs'
  BY <1>1, JobsKept
<1>4. \A s \in Slave : Turns(s)' = Turns(s) /\ Ahead(s)' = Ahead(s)
  BY <1>1 DEF Turns, Ahead
<1> QED
  BY <1>1, <1>2, <1>3, <1>4, LoopStepInv

LEMMA RoundsNextInv ==
  ASSUME RoundsInv, [RoundsNext]_<<dvars, rvars>>
  PROVE  RoundsInv'
<1>1. ASSUME NEW s \in Slave, DispatchWrite(s) \/ StopWrite(s) \/ DispatchRead(s) \/ StopRead(s)
      PROVE  RoundsInv'
  BY <1>1, DispatchWriteInv, StopWriteInv, AnswerReadInv
<1>2. ASSUME WriteHeader \/ Return(Master)
      PROVE  RoundsInv'
  BY <1>2, WriteHeaderInv, ReturnInv DEF Proc
<1>3. ASSUME NEW s \in Slave, SlaveStep(s)
      PROVE  RoundsInv'
  <2>1. CASE SlaveSignals(s) \/ SlaveInstructed(s)
    BY <2>1, SlaveSignalsInv, SlaveInstructedInv
  <2>2. CASE JoinRound(s) \/ WriteRound(s) \/ SlaveWrote(s)
    BY <2>2, JoinRoundInv, WriteRoundInv, SlaveWroteInv
  <2>3. CASE StartRead(s) \/ EndRead(s)
    BY <2>3, StartReadInv, EndReadInv
  <2>4. CASE Return(s)
    BY <2>4, ReturnInv DEF Proc
  <2> QED
    BY <1>3, <2>1, <2>2, <2>3, <2>4 DEF SlaveStep
<1>4. CASE MasterSendReturns \/ MasterWaitAll
  BY <1>4, GoesOnInv
<1>5. CASE StartReader
  BY <1>5, StartReaderInv
<1>6. CASE UNCHANGED <<dvars, rvars>>
  BY <1>6, RoundsStutterInv
<1> QED
  BY <1>1, <1>2, <1>3, <1>4, <1>5, <1>6 DEF RoundsNext, MasterStep, RoundsTerminating

(* The inductive invariant: the loop's messages and what is owed, the      *)
(* order of the jobs, the rounds, and what is in the file.                 *)
THEOREM RoundsInvariance == RoundsSpec => []RoundsInv
<1>1. RoundsInit => RoundsInv
  BY RoundsInitInv
<1>2. RoundsInv /\ [RoundsNext]_<<dvars, rvars>> => RoundsInv'
  BY RoundsNextInv
<1> QED
  BY <1>1, <1>2, PTL DEF RoundsSpec

-----------------------------------------------------------------------------
(* What the runs check, for any number of slaves and runs.                 *)

(* The r-th allgather of the writer has the r-th n_slaves steps, one from  *)
(* each slave, however the master's answers are spread over the slaves:    *)
(* "step" in mpi_io_master_slave_write.py.                                 *)
THEOREM BatchesForAll == RoundsSpec => []RoundsAreBatches
<1>1. RoundsInv => RoundsAreBatches
  BY DEF RoundsInv
<1> QED
  BY <1>1, RoundsInvariance, PTL

(* What the master writes into the header is the length of every run, and  *)
(* nothing of the steps beyond the last run.                               *)
THEOREM HeaderForAll == RoundsSpec => []HeaderComplete
<1>1. RoundsInv => HeaderComplete
  BY DEF RoundsInv, Header
<1> QED
  BY <1>1, RoundsInvariance, PTL

(* Each run is read by one slave, and together the arrays read are the     *)
(* data file, whoever reads which step and whether Read_at_all waits for   *)
(* the other slaves or not.                                                *)
THEOREM ReadsForAll == RoundsSpec => []ReadInFull
<1>1. RoundsInv => ReadInFull
  <2> SUFFICES ASSUME RoundsInv
               PROVE  ReadInFull
    OBVIOUS
  <2>1. ASSUME NEW k \in Steps
        PROVE  got[k] = <<>> \/ got[k] = <<InFile(k)>>
    BY DEF RoundsInv, Reads, ReadSoFar
  <2>2. ASSUME AllReturned, NEW k \in Steps
        PROVE  got[k] = <<InFile(k)>>
    <3>1. mpc = "over" /\ ~Writing /\ \A s \in Slave : spc[s] = "over"
      BY <2>2 DEF AllReturned, RoundsInv, Jobs, Proc, Writing
    <3>2. k < next
      BY <3>1, Numbers DEF RoundsInv, Dispatching, Loop, Steps
    <3>3. \A s \in Slave : Ahead(s) = None
      BY <3>1 DEF RoundsInv, Dispatching, Places, Ahead
    <3>4. got = ReadSoFar
      BY <3>1 DEF RoundsInv, Reads
    <3> QED
      BY <3>2, <3>3, <3>4, Numbers DEF ReadSoFar, Steps
  <2> QED
    BY <2>1, <2>2 DEF ReadInFull
<1> QED
  BY <1>1, RoundsInvariance, PTL

(* A slave's Write_at_all touches no place that a slave of the same round  *)
(* or a later one has written, whatever the sizes are.                     *)
THEOREM DisjointForAll == RoundsSpec => SameRoundDisjoint
<1> DEFINE A == \A i \in DOMAIN dfile :
                  dfile'[i] # dfile[i] => dfile[i] < (dfile'[i] \div NSlaves) * NSlaves
<1>1. ASSUME RoundsInv, [RoundsNext]_<<dvars, rvars>>, dfile' # dfile
      PROVE  \E s \in Slave : WriteRound(s)
  <2>1. \A s \in Slave : DispatchWrite(s) \/ StopWrite(s) \/ DispatchRead(s) \/ StopRead(s) => dfile' = dfile
    BY DEF DispatchWrite, StopWrite, DispatchRead, StopRead, rvars
  <2>2. WriteHeader \/ Return(Master) => dfile' = dfile
    BY DEF WriteHeader, Return
  <2>3. \A s \in Slave : SlaveStep(s) => dfile' = dfile \/ WriteRound(s)
    BY DEF SlaveStep, SlaveSignals, SlaveInstructed, JoinRound, SlaveWrote, StartRead, EndRead,
           Return, rvars
  <2>4. MasterSendReturns \/ MasterWaitAll \/ StartReader \/ RoundsTerminating => dfile' = dfile
    BY DEF MasterSendReturns, MasterWaitAll, StartReader, RoundsTerminating, rvars
  <2>5. UNCHANGED <<dvars, rvars>> => dfile' = dfile
    BY DEF rvars
  <2> QED
    BY <1>1, <2>1, <2>2, <2>3, <2>4, <2>5 DEF RoundsNext, MasterStep
<1>2. RoundsInv /\ [RoundsNext]_<<dvars, rvars>> => [A]_dfile
  <2> SUFFICES ASSUME RoundsInv, [RoundsNext]_<<dvars, rvars>>, dfile' # dfile
               PROVE  A
    OBVIOUS
  <2>1. PICK s \in Slave : WriteRound(s)
    BY <1>1
  <2>2. Writing
    <3>1. job[s] = "write" /\ s \in Proc /\ Master \in Proc
      BY <2>1 DEF WriteRound, Proc
    <3> QED
      BY <3>1 DEF RoundsInv, Jobs, Writing
  <2> QED
    BY <2>1, <2>2, WriteWritten DEF RoundsInv
<1> QED
  BY <1>2, RoundsInvariance, PTL DEF RoundsSpec, SameRoundDisjoint

(* "offsets[step]" exists for every step if rounding nruns up adds one     *)
(* step at most, as with 47 runs on slaves whose number divides 48.        *)
(* Otherwise a slave ends with an IndexError, as RoundsPadding shows.      *)
THEOREM IndexForAll ==
  ASSUME Padded(NRuns) <= NRuns + 1
  PROVE  RoundsSpec => []NoIndexError
<1>1. RoundsInit => NoIndexError
  BY DEF RoundsInit, NoIndexError
<1>2. RoundsInv /\ NoIndexError /\ [RoundsNext]_<<dvars, rvars>> => NoIndexError'
  <2> SUFFICES ASSUME RoundsInv, NoIndexError, [RoundsNext]_<<dvars, rvars>>
               PROVE  NoIndexError'
    OBVIOUS
  <2>1. ASSUME NEW s \in Slave, StartRead(s)
        PROVE  NoIndexError'
    <3>1. task[s] \in Step
      BY <2>1 DEF StartRead, RoundsInv, Dispatching, Places
    <3>2. task[s] <= NRuns
      BY <3>1, Numbers DEF Step, NSteps
    <3>3. stage' = [stage EXCEPT ![s] = "reading"]
      BY <2>1, <3>1, <3>2, Numbers DEF StartRead, Step
    <3> QED
      BY <3>3 DEF NoIndexError, RoundsInv, RoundTypes
  <2>2. ASSUME NEW s \in Slave, JoinRound(s) \/ WriteRound(s) \/ EndRead(s)
        PROVE  NoIndexError'
    <3>1. \E x \in {"begin", "allgather"} : stage' = [stage EXCEPT ![s] = x]
      BY <2>2 DEF JoinRound, WriteRound, EndRead
    <3> QED
      BY <3>1 DEF NoIndexError, RoundsInv, RoundTypes
  <2>3. UNCHANGED stage => NoIndexError'
    BY DEF NoIndexError
  <2>4. \A s \in Slave : DispatchWrite(s) \/ StopWrite(s) \/ DispatchRead(s) \/ StopRead(s) => UNCHANGED stage
    BY DEF DispatchWrite, StopWrite, DispatchRead, StopRead, rvars
  <2>5. WriteHeader \/ Return(Master) => UNCHANGED stage
    BY DEF WriteHeader, Return
  <2>6. \A s \in Slave : SlaveSignals(s) \/ SlaveInstructed(s) \/ SlaveWrote(s) \/ Return(s) => UNCHANGED stage
    BY DEF SlaveSignals, SlaveInstructed, SlaveWrote, Return, rvars
  <2>7. MasterSendReturns \/ MasterWaitAll \/ StartReader \/ UNCHANGED <<dvars, rvars>> => UNCHANGED stage
    BY DEF MasterSendReturns, MasterWaitAll, StartReader, rvars
  <2> QED
    BY <2>1, <2>2, <2>3, <2>4, <2>5, <2>6, <2>7 DEF RoundsNext, MasterStep, SlaveStep, RoundsTerminating
<1> QED
  BY <1>1, <1>2, RoundsInvariance, PTL DEF RoundsSpec
=============================================================================
