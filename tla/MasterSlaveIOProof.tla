-------------------------- MODULE MasterSlaveIOProof --------------------------
(***************************************************************************)
(* Proofs about mpi_io_master_slave.py for any number of slaves and runs   *)
(* and arrays of any length.  The invariant says where the result of each  *)
(* run is: with nobody yet, with one slave, in one message, or caught; and *)
(* what the file holds by then.  The ranks go from write() to read() one   *)
(* after the other, so that for a while the two uses of the loop overlap.  *)
(***************************************************************************)
EXTENDS MasterSlaveIO, FiniteSetTheorems, TLAPS

Result == Steps \union {None}
Phase == {"open", "write", "barrier", "read", "return"}

\* p is in the second use of the loop.
Again(p) == phase[p] \in {"read", "return"}

\* The master is through with write().
Written == phase[Master] \notin {"open", "write"}

Types ==
  /\ mpc \in {"recv", "sending", "final", "waitall", "over"}
  /\ nsteps = NRuns /\ next \in 0..NRuns /\ nstopped \in Nat /\ caught \subseteq 0..next-1
  /\ spc \in [Slave -> {"ready", "wait", "work", "over"}]
  /\ task \in [Slave -> Int] /\ result \in [Slave -> Result]
  /\ mq \in [Slave -> Seq(Result)] /\ sq \in [Slave -> Seq(Result)]
  /\ phase \in [Proc -> Phase]
  /\ file \in [0..(NRuns + Slot*NRuns) -> Int]
  /\ lengths \in [Steps -> Nat]

\* A slave and the messages between it and the master.
Places ==
  \A s \in Slave :
    \/ spc[s] \in {"ready", "over"} /\ mq[s] = <<>> /\ sq[s] = <<>>
    \/ spc[s] = "work" /\ mq[s] = <<>> /\ sq[s] = <<>> /\ task[s] \in Steps
    \/ spc[s] = "wait" /\ sq[s] = <<>> /\ \E x \in Result : mq[s] = <<x>>
    \/ spc[s] = "wait" /\ mq[s] = <<>> /\ \E x \in Result : sq[s] = <<x>>

\* What the slave s owes, place by place.
Owes ==
  \A s \in Slave :
    /\ spc[s] = "ready" => Owed(s) = result[s]
    /\ spc[s] = "work" => Owed(s) = task[s]
    /\ spc[s] = "over" => Owed(s) = None
    /\ \A x \in Result : mq[s] = <<x>> \/ sq[s] = <<x>> => Owed(s) = x

\* The master has sent its terminate tag to s in the loop it is in.
Stopped(s) ==
  IF Again(Master) THEN Again(s) /\ (sq[s] = <<Terminate>> \/ spc[s] = "over")
  ELSE Again(s) \/ sq[s] = <<Terminate>> \/ spc[s] = "over"

Loop ==
  /\ mpc = "recv" => next < NRuns
  /\ mpc \in {"final", "waitall", "over"} => next = NRuns
  /\ mpc \in {"waitall", "over"} => \A s \in Slave : Stopped(s)
  /\ nstopped = Cardinality({s \in Slave : Stopped(s)})

\* A slave in read() before the master: it has asked for work at most.
Fresh(s) ==
  \/ spc[s] = "ready" /\ result[s] = None
  \/ spc[s] = "wait" /\ mq[s] = <<None>>

Phases ==
  /\ phase[Master] \in {"barrier", "return"} => mpc = "over"
  /\ \A s \in Slave :
       /\ phase[s] # "open"
       /\ phase[s] \in {"barrier", "return"} => spc[s] = "over"
       /\ Again(s) /\ ~Again(Master) => phase[Master] = "barrier" /\ phase[s] = "read" /\ Fresh(s)
       /\ Again(Master) /\ ~Again(s) => phase[s] = "barrier"
  /\ \A s \in Slave : Again(s) => \A t \in Slave : phase[t] # "write"

\* Every step sent out has its result owed by one slave, or caught.
Sharing ==
  /\ \A s \in Slave : Owed(s) # None => Owed(s) \in 0..next-1 /\ Owed(s) \notin caught
  /\ \A s, t \in Slave : s # t /\ Owed(s) # None => Owed(s) # Owed(t)
  /\ \A k \in 0..next-1 : k \in caught \/ \E s \in Slave : Owed(s) = k

\* The result of step k is there: caught, in a message, or about to be sent.
Held(k) ==
  \/ k \in caught
  \/ \E s \in Slave : mq[s] = <<k>> \/ (spc[s] = "ready" /\ result[s] = k)

Place(k) == Offset(k)..Offset(k) + Length[k] - 1
Array(k) == [i \in 0..Length[k]-1 |-> k]

\* What the file holds, and what has been read from it.
Stored ==
  /\ phase[Master] # "open" => file[0] = NRuns
  /\ Written => \A k \in Steps : file[1 + k] = Length[k]
  /\ \A k \in Steps : k \in caught \/ Written => lengths[k] = Length[k]
  /\ \A k \in Steps : Held(k) \/ Written => \A i \in Place(k) : file[i] = k
  /\ got = [k \in Steps |-> IF Again(Master) /\ Held(k) THEN <<Array(k)>> ELSE <<>>]

Dispatching == Types /\ Places /\ Loop /\ Phases /\ Sharing
MSIInv == Dispatching /\ Stored

-----------------------------------------------------------------------------
(* Places: every action moves a slave, or its message, by one place.       *)

LEMMA OwedLemma == Places => Owes
<1> SUFFICES ASSUME Places, NEW s \in Slave
    PROVE  /\ spc[s] = "ready" => Owed(s) = result[s]
           /\ spc[s] = "work" => Owed(s) = task[s]
           /\ spc[s] = "over" => Owed(s) = None
           /\ \A x \in Result : mq[s] = <<x>> \/ sq[s] = <<x>> => Owed(s) = x
  BY DEF Owes
<1>1. CASE spc[s] \in {"ready", "over", "work"} /\ mq[s] = <<>> /\ sq[s] = <<>>
  BY <1>1 DEF Owed
<1>2. CASE spc[s] = "wait" /\ sq[s] = <<>> /\ \E x \in Result : mq[s] = <<x>>
  BY <1>2 DEF Owed
<1>3. CASE spc[s] = "wait" /\ mq[s] = <<>> /\ \E x \in Result : sq[s] = <<x>>
  BY <1>3 DEF Owed
<1> QED
  BY <1>1, <1>2, <1>3 DEF Places

LEMMA TakeTurnsLemma == Places => TakeTurns
<1> SUFFICES ASSUME Places, NEW s \in Slave
    PROVE  Len(mq[s]) + Len(sq[s]) = (IF spc[s] = "wait" THEN 1 ELSE 0)
  BY DEF TakeTurns
<1>1. CASE spc[s] # "wait" /\ mq[s] = <<>> /\ sq[s] = <<>>
  BY <1>1
<1>2. CASE spc[s] = "wait" /\ sq[s] = <<>> /\ \E x \in Result : mq[s] = <<x>>
  <2> PICK x \in Result : mq[s] = <<x>>
    BY <1>2
  <2> QED
    BY <1>2
<1>3. CASE spc[s] = "wait" /\ mq[s] = <<>> /\ \E x \in Result : sq[s] = <<x>>
  <2> PICK x \in Result : sq[s] = <<x>>
    BY <1>3
  <2> QED
    BY <1>3
<1> QED
  BY <1>1, <1>2, <1>3 DEF Places

\* A message on its way to the master, and nothing else of its sender.
LEMMA InMessage ==
  ASSUME Types, Places, NEW s \in Slave, mq[s] # <<>>
  PROVE  /\ spc[s] = "wait" /\ sq[s] = <<>>
         /\ Head(mq[s]) \in Result /\ mq[s] = <<Head(mq[s])>> /\ Tail(mq[s]) = <<>>
         /\ Owed(s) = Head(mq[s])
<1>1. PICK x \in Result : spc[s] = "wait" /\ sq[s] = <<>> /\ mq[s] = <<x>>
  BY DEF Places
<1>2. Head(mq[s]) = x /\ Tail(mq[s]) = <<>>
  BY <1>1
<1>3. Owed(s) = x
  BY <1>1, OwedLemma DEF Owes
<1> QED
  BY <1>1, <1>2, <1>3

\* An instruction on its way to the slave.
LEMMA InInstruction ==
  ASSUME Types, Places, NEW s \in Slave, sq[s] # <<>>
  PROVE  /\ spc[s] = "wait" /\ mq[s] = <<>>
         /\ Head(sq[s]) \in Result /\ sq[s] = <<Head(sq[s])>> /\ Tail(sq[s]) = <<>>
         /\ Owed(s) = Head(sq[s])
<1>1. PICK x \in Result : spc[s] = "wait" /\ mq[s] = <<>> /\ sq[s] = <<x>>
  BY DEF Places
<1>2. Head(sq[s]) = x /\ Tail(sq[s]) = <<>>
  BY <1>1
<1>3. Owed(s) = x
  BY <1>1, OwedLemma DEF Owes
<1> QED
  BY <1>1, <1>2, <1>3

LEMMA NoneLemma == None \notin Steps /\ Terminate = None /\ None \in Result
BY NRunsAssumption DEF None, Terminate, Steps, Result

\* Two loops, or the end of one: what follows when the master is through.
LEMMA AllCaught ==
  ASSUME Dispatching, mpc = "over"
  PROVE  caught = Steps /\ next = NRuns /\ \A s \in Slave : Owed(s) = None
<1>1. next = NRuns /\ \A s \in Slave : Stopped(s)
  BY DEF Dispatching, Loop
<1>2. ASSUME NEW s \in Slave
      PROVE  Owed(s) = None
  <2>1. CASE spc[s] = "over"
    BY <2>1, OwedLemma DEF Dispatching, Owes
  <2>2. CASE sq[s] = <<Terminate>>
    BY <2>2, OwedLemma, NoneLemma DEF Dispatching, Owes
  <2>3. CASE Again(s) /\ ~Again(Master)
    <3>1. Fresh(s)
      BY <2>3 DEF Dispatching, Phases
    <3> QED
      BY <3>1, OwedLemma, NoneLemma DEF Dispatching, Owes, Fresh
  <2> QED
    BY <1>1, <2>1, <2>2, <2>3 DEF Stopped
<1>3. caught = Steps
  <2>1. caught \subseteq 0..next-1 /\ 0..next-1 = Steps
    BY <1>1 DEF Dispatching, Types, Steps
  <2>2. \A k \in 0..next-1 : k \in caught \/ \E s \in Slave : Owed(s) = k
    BY DEF Dispatching, Sharing
  <2> QED
    BY <1>2, <2>1, <2>2, NoneLemma
<1> QED
  BY <1>1, <1>2, <1>3

-----------------------------------------------------------------------------
(* The message loop, in either of its uses.                                *)

LEMMA DispatchKeeps ==
  ASSUME Dispatching, NEW s \in Slave, Dispatch(s), UNCHANGED <<phase, file>>,
         lengths' \in [Steps -> Nat]
  PROVE  /\ Dispatching'
         /\ \A k \in Steps : Held(k)' <=> Held(k)
         /\ Owed(s)' = next /\ \A t \in Slave \ {s} : Owed(t)' = Owed(t)
         /\ caught' = caught \union ({Owed(s)} \ {None})
<1> DEFINE x == Head(mq[s])
<1> USE DEF Dispatching
<1>1. /\ spc[s] = "wait" /\ sq[s] = <<>>
      /\ x \in Result /\ mq[s] = <<x>> /\ Tail(mq[s]) = <<>> /\ Owed(s) = x
  BY InMessage DEF Dispatch
<1>2. next \in Steps /\ next + 1 \in 0..NRuns /\ next \in 0..next
  BY NRunsAssumption DEF Dispatch, Loop, Types, Steps
<1>3. caught' = caught \union ({x} \ {None})
  BY DEF Dispatch, Catch
<1>4. x # None => x \in 0..next-1 /\ x \notin caught
  BY <1>1 DEF Sharing
<1>5. /\ mq' = [mq EXCEPT ![s] = <<>>]
      /\ sq' = [sq EXCEPT ![s] = <<next>>]
      /\ next' = next + 1 /\ mpc = "recv" /\ mpc' = "sending"
      /\ UNCHANGED <<nsteps, nstopped, spc, task, result, phase, file>>
  <2>1. Append(sq[s], next) = <<next>>
    BY <1>1
  <2>2. mq' = [mq EXCEPT ![s] = Tail(mq[s])] /\ sq' = [sq EXCEPT ![s] = Append(sq[s], next)]
    BY DEF Dispatch
  <2>3. /\ next' = next + 1 /\ mpc = "recv" /\ mpc' = "sending"
        /\ UNCHANGED <<nsteps, nstopped, spc, task, result>>
    BY DEF Dispatch, svars
  <2> QED
    BY <1>1, <2>1, <2>2, <2>3
<1>6. /\ mq'[s] = <<>> /\ sq'[s] = <<next>>
      /\ \A t \in Slave \ {s} : mq'[t] = mq[t] /\ sq'[t] = sq[t]
  BY <1>5 DEF Types
<1>7. Types'
  <2>1. caught' \subseteq 0..next'-1
    <3>1. next \in Nat /\ next'-1 = next /\ caught \subseteq 0..next-1
      BY <1>5, <1>2 DEF Types
    <3>2. 0..next-1 \subseteq 0..next
      BY <3>1
    <3> QED
      BY <1>3, <1>4, <3>1, <3>2
  <2>2. <<>> \in Seq(Result) /\ <<next>> \in Seq(Result)
    BY <1>2 DEF Result
  <2>3. mq' \in [Slave -> Seq(Result)] /\ sq' \in [Slave -> Seq(Result)]
    BY <1>5, <2>2 DEF Types
  <2> QED
    BY <1>2, <1>5, <2>1, <2>3 DEF Types
<1>8. Places'
  BY <1>1, <1>2, <1>5, <1>6 DEF Places, Result
<1>9. Owes'
  <2>1. Places' => Owes'
    BY OwedLemma, PTL
  <2> QED
    BY <1>8, <2>1
<1>10. Owed(s)' = next
  BY <1>2, <1>6, <1>9 DEF Owes, Result
<1>11. ASSUME NEW t \in Slave \ {s}
       PROVE  Owed(t)' = Owed(t)
  BY <1>5, <1>6 DEF Owed
<1>12. \A t \in Slave : Stopped(t)' <=> Stopped(t)
  <2>1. sq'[s] # <<Terminate>> /\ sq[s] # <<Terminate>>
    BY <1>1, <1>2, <1>6, NoneLemma
  <2> QED
    BY <1>5, <1>6, <2>1 DEF Stopped, Again
<1>13. Loop'
  <2>1. {t \in Slave : Stopped(t)}' = {t \in Slave : Stopped(t)}
    BY <1>12
  <2> QED
    BY <1>5, <2>1 DEF Loop
<1>14. Phases'
  BY <1>5 DEF Phases, Again
<1>15. Sharing'
  <2>1. ASSUME NEW t \in Slave, Owed(t)' # None
        PROVE  Owed(t)' \in 0..next'-1 /\ Owed(t)' \notin caught'
    <3>1. CASE t = s
      BY <1>2, <1>3, <1>4, <1>5, <1>10, <3>1 DEF Types
    <3>2. CASE t # s
      <4>1. Owed(t)' = Owed(t) /\ Owed(t) \in 0..next-1 /\ Owed(t) \notin caught
        BY <1>11, <2>1, <3>2 DEF Sharing
      <4>2. Owed(t) # x
        BY <1>1, <2>1, <3>2, <4>1 DEF Sharing
      <4> QED
        BY <1>3, <1>5, <4>1, <4>2 DEF Types
    <3> QED
      BY <3>1, <3>2
  <2>2. ASSUME NEW t \in Slave, NEW u \in Slave, t # u, Owed(t)' # None
        PROVE  Owed(t)' # Owed(u)'
    <3>1. ASSUME NEW v \in Slave, v # s
          PROVE  Owed(v)' = Owed(v) /\ Owed(v) # next
      <4>1. Owed(v)' = Owed(v)
        BY <1>11, <3>1
      <4>2. next \in Nat /\ next \in Steps
        BY <1>2 DEF Steps
      <4>3. CASE Owed(v) = None
        BY <4>1, <4>2, <4>3, NoneLemma
      <4>4. CASE Owed(v) \in 0..next-1
        BY <4>1, <4>2, <4>4
      <4> QED
        BY <4>3, <4>4 DEF Sharing
    <3> QED
      BY <1>10, <2>2, <3>1 DEF Sharing
  <2>3. ASSUME NEW k \in 0..next'-1
        PROVE  k \in caught' \/ \E t \in Slave : Owed(t)' = k
    <3>1. CASE k = next
      BY <1>10, <3>1
    <3>2. CASE k # next
      <4>1. k \in 0..next-1
        BY <1>5, <3>2 DEF Types
      <4>2. CASE k \in caught
        BY <1>3, <4>2
      <4>3. CASE \E t \in Slave : Owed(t) = k
        <5>1. PICK t \in Slave : Owed(t) = k
          BY <4>3
        <5>2. CASE t = s
          BY <1>1, <1>3, <4>1, <5>1, <5>2, NoneLemma DEF Types, None
        <5> QED
          BY <1>11, <5>1, <5>2
      <4> QED
        BY <4>1, <4>2, <4>3 DEF Sharing
    <3> QED
      BY <3>1, <3>2
  <2> QED
    BY <2>1, <2>2, <2>3 DEF Sharing
<1>16. ASSUME NEW k \in Steps
       PROVE  Held(k)' <=> Held(k)
  BY <1>1, <1>3, <1>5, <1>6, NoneLemma DEF Held
<1> QED
  BY <1>1, <1>3, <1>7, <1>8, <1>10, <1>11, <1>13, <1>14, <1>15, <1>16

\* The cleanup loop ends when all slaves have their terminate tags.
LEMMA StopKeeps ==
  ASSUME Dispatching, NEW s \in Slave, Stop(s), UNCHANGED <<phase, file>>,
         lengths' \in [Steps -> Nat]
  PROVE  /\ Dispatching'
         /\ \A k \in Steps : Held(k)' <=> Held(k)
         /\ Owed(s)' = None /\ \A t \in Slave \ {s} : Owed(t)' = Owed(t)
         /\ caught' = caught \union ({Owed(s)} \ {None}) /\ next = NRuns
<1> DEFINE x == Head(mq[s])
<1> USE DEF Dispatching
<1>1. /\ spc[s] = "wait" /\ sq[s] = <<>>
      /\ x \in Result /\ mq[s] = <<x>> /\ Tail(mq[s]) = <<>> /\ Owed(s) = x
  BY InMessage DEF Stop
<1>2. next = NRuns
  BY DEF Stop, Loop
<1>3. caught' = caught \union ({x} \ {None})
  BY DEF Stop, Catch
<1>4. x # None => x \in 0..next-1 /\ x \notin caught
  BY <1>1 DEF Sharing
<1>5. /\ mq' = [mq EXCEPT ![s] = <<>>]
      /\ sq' = [sq EXCEPT ![s] = <<Terminate>>]
      /\ nstopped' = nstopped + 1 /\ mpc = "final"
      /\ mpc' = IF nstopped' = Cardinality(Slave) THEN "waitall" ELSE "final"
      /\ UNCHANGED <<nsteps, next, spc, task, result, phase, file>>
  <2>1. Append(sq[s], Terminate) = <<Terminate>>
    BY <1>1
  <2>2. mq' = [mq EXCEPT ![s] = Tail(mq[s])] /\ sq' = [sq EXCEPT ![s] = Append(sq[s], Terminate)]
    BY DEF Stop
  <2>3. /\ nstopped' = nstopped + 1 /\ mpc = "final"
        /\ mpc' = IF nstopped' = Cardinality(Slave) THEN "waitall" ELSE "final"
        /\ UNCHANGED <<nsteps, next, spc, task, result>>
    BY DEF Stop, svars
  <2> QED
    BY <1>1, <2>1, <2>2, <2>3
<1>6. /\ mq'[s] = <<>> /\ sq'[s] = <<Terminate>>
      /\ \A t \in Slave \ {s} : mq'[t] = mq[t] /\ sq'[t] = sq[t]
  BY <1>5 DEF Types
<1>7. Types'
  <2>1. caught' \subseteq 0..next'-1
    BY <1>3, <1>4, <1>5 DEF Types
  <2>2. <<>> \in Seq(Result) /\ <<Terminate>> \in Seq(Result)
    BY NoneLemma
  <2>3. mq' \in [Slave -> Seq(Result)] /\ sq' \in [Slave -> Seq(Result)]
    BY <1>5, <2>2 DEF Types
  <2> QED
    BY <1>5, <2>1, <2>3 DEF Types
<1>8. Places'
  BY <1>1, <1>5, <1>6, NoneLemma DEF Places
<1>9. Owes'
  <2>1. Places' => Owes'
    BY OwedLemma, PTL
  <2> QED
    BY <1>8, <2>1
<1>10. Owed(s)' = None
  BY <1>6, <1>9, NoneLemma DEF Owes
<1>11. ASSUME NEW t \in Slave \ {s}
       PROVE  Owed(t)' = Owed(t)
  BY <1>5, <1>6 DEF Owed
<1>12. /\ ~Stopped(s) /\ Stopped(s)'
       /\ \A t \in Slave \ {s} : Stopped(t)' <=> Stopped(t)
  <2>1. Again(Master) <=> Again(s)
    BY <1>1, <1>5 DEF Phases
  <2>2. sq[s] # <<Terminate>>
    BY <1>1
  <2> QED
    BY <1>1, <1>5, <1>6, <2>1, <2>2 DEF Stopped, Again
<1>13. Loop'
  <2> DEFINE S == {t \in Slave : Stopped(t)}
             SP == {t \in Slave : Stopped(t)'}
  <2>1. SP = S \union {s} /\ s \notin S /\ S \subseteq Slave /\ SP \subseteq Slave
    BY <1>12
  <2>2. IsFiniteSet(S)
    BY <2>1, SlaveAssumption, FS_Subset
  <2>3. Cardinality(SP) = Cardinality(S) + 1
    BY <2>1, <2>2, FS_AddElement
  <2>4. nstopped' = Cardinality(SP)
    BY <1>5, <2>3 DEF Loop
  <2>5. Cardinality(SP) = Cardinality(Slave) => SP = Slave
    BY <2>1, SlaveAssumption, FS_Subset
  <2>6. mpc' \in {"waitall", "over"} => \A t \in Slave : Stopped(t)'
    BY <1>5, <2>4, <2>5
  <2> QED
    BY <1>2, <1>5, <2>4, <2>6 DEF Loop
<1>14. Phases'
  BY <1>5 DEF Phases, Again
<1>15. Sharing'
  <2>1. ASSUME NEW t \in Slave, Owed(t)' # None
        PROVE  /\ t # s /\ Owed(t)' = Owed(t)
               /\ Owed(t)' \in 0..next'-1 /\ Owed(t)' \notin caught'
    <3>1. t # s /\ Owed(t)' = Owed(t)
      BY <1>10, <1>11, <2>1
    <3>2. Owed(t) \in 0..next-1 /\ Owed(t) \notin caught /\ Owed(t) # x
      BY <1>1, <2>1, <3>1 DEF Sharing
    <3> QED
      BY <1>3, <1>5, <3>1, <3>2
  <2>2. ASSUME NEW t \in Slave, NEW u \in Slave, t # u, Owed(t)' # None
        PROVE  Owed(t)' # Owed(u)'
    BY <1>10, <1>11, <2>1, <2>2 DEF Sharing
  <2>3. ASSUME NEW k \in 0..next'-1
        PROVE  k \in caught' \/ \E t \in Slave : Owed(t)' = k
    <3>1. k # None
      BY <1>5, NoneLemma DEF None
    <3> QED
      BY <1>1, <1>3, <1>5, <1>11, <3>1 DEF Sharing
  <2> QED
    BY <2>1, <2>2, <2>3 DEF Sharing
<1>16. ASSUME NEW k \in Steps
       PROVE  Held(k)' <=> Held(k)
  BY <1>1, <1>3, <1>5, <1>6, NoneLemma DEF Held
<1> QED
  BY <1>1, <1>2, <1>3, <1>7, <1>8, <1>10, <1>11, <1>13, <1>14, <1>15, <1>16

\* The master goes on: nothing else changes.
LEMMA GoesOnKeeps ==
  ASSUME Dispatching, SendReturns \/ WaitAll, UNCHANGED <<phase, file, lengths>>
  PROVE  /\ Dispatching'
         /\ \A k \in Steps : Held(k)' <=> Held(k)
         /\ \A t \in Slave : Owed(t)' = Owed(t)
         /\ UNCHANGED <<nsteps, next, caught>>
<1> USE DEF Dispatching
<1>1. /\ UNCHANGED <<nsteps, next, nstopped, caught, spc, task, result, mq, sq, phase, file, lengths>>
      /\ \/ mpc = "sending" /\ mpc' = LoopStart(nsteps - next)
         \/ mpc = "waitall" /\ mpc' = "over"
  BY DEF SendReturns, WaitAll, svars
<1>2. Types' /\ Places'
  BY <1>1 DEF Types, Places, LoopStart
<1>3. \A t \in Slave : Owed(t)' = Owed(t)
  BY <1>1 DEF Owed
<1>4. Sharing'
  BY <1>1, <1>3 DEF Sharing
<1>5. Phases'
  BY <1>1 DEF Phases, Again, Fresh
<1>6. Loop'
  <2>1. \A t \in Slave : Stopped(t)' <=> Stopped(t)
    BY <1>1 DEF Stopped, Again
  <2>2. {t \in Slave : Stopped(t)}' = {t \in Slave : Stopped(t)}
    BY <2>1
  <2>3. mpc' = "recv" => next < NRuns
    BY <1>1, NRunsAssumption DEF LoopStart, Types
  <2>4. mpc' \in {"final", "waitall", "over"} => next = NRuns
    BY <1>1, NRunsAssumption DEF LoopStart, Types, Loop
  <2>5. mpc' \in {"waitall", "over"} => \A t \in Slave : Stopped(t)
    BY <1>1 DEF LoopStart, Loop
  <2> QED
    BY <1>1, <2>1, <2>2, <2>3, <2>4, <2>5 DEF Loop
<1>7. \A k \in Steps : Held(k)' <=> Held(k)
  BY <1>1 DEF Held
<1> QED
  BY <1>1, <1>2, <1>3, <1>4, <1>5, <1>6, <1>7

\* A slave sends its result: it is on its way instead of with the slave.
LEMMA SignalKeeps ==
  ASSUME Dispatching, NEW s \in Slave, Signal(s), UNCHANGED <<phase, file, lengths>>
  PROVE  /\ Dispatching'
         /\ \A k \in Steps : Held(k)' <=> Held(k)
         /\ \A t \in Slave : Owed(t)' = Owed(t)
         /\ UNCHANGED <<nsteps, next, caught>>
<1> USE DEF Dispatching
<1>1. /\ spc[s] = "ready" /\ mq[s] = <<>> /\ sq[s] = <<>> /\ result[s] \in Result
      /\ Owed(s) = result[s]
  BY OwedLemma DEF Signal, Places, Types, Owes
<1>2. /\ mq' = [mq EXCEPT ![s] = <<result[s]>>] /\ spc' = [spc EXCEPT ![s] = "wait"]
      /\ UNCHANGED <<mpc, nsteps, next, nstopped, caught, task, result, sq, phase, file, lengths>>
  <2>1. Append(mq[s], result[s]) = <<result[s]>>
    BY <1>1
  <2> QED
    BY <2>1 DEF Signal, mvars
<1>3. /\ mq'[s] = <<result[s]>> /\ spc'[s] = "wait"
      /\ \A t \in Slave \ {s} : mq'[t] = mq[t] /\ spc'[t] = spc[t]
  BY <1>2 DEF Types
<1>4. Types'
  <2>1. <<result[s]>> \in Seq(Result)
    BY <1>1
  <2>2. mq' \in [Slave -> Seq(Result)] /\ spc' \in [Slave -> {"ready", "wait", "work", "over"}]
    BY <1>2, <2>1 DEF Types
  <2> QED
    BY <1>2, <2>2 DEF Types
<1>5. Places'
  BY <1>1, <1>2, <1>3 DEF Places
<1>6. \A t \in Slave : Owed(t)' = Owed(t)
  <2>1. Places' => Owes'
    BY OwedLemma, PTL
  <2>2. Owed(s)' = Owed(s)
    BY <1>1, <1>3, <1>5, <2>1 DEF Owes
  <2>3. \A t \in Slave \ {s} : Owed(t)' = Owed(t)
    BY <1>2, <1>3 DEF Owed
  <2> QED
    BY <2>2, <2>3
<1>7. Loop'
  <2>1. \A t \in Slave : Stopped(t)' <=> Stopped(t)
    BY <1>1, <1>2, <1>3 DEF Stopped, Again
  <2>2. {t \in Slave : Stopped(t)}' = {t \in Slave : Stopped(t)}
    BY <2>1
  <2> QED
    BY <1>2, <2>1, <2>2 DEF Loop
<1>8. Phases'
  <2>1. Fresh(s) => Fresh(s)'
    BY <1>1, <1>3 DEF Fresh
  <2>2. \A t \in Slave \ {s} : Fresh(t) => Fresh(t)'
    BY <1>2, <1>3 DEF Fresh
  <2> QED
    BY <1>1, <1>2, <1>3, <2>1, <2>2 DEF Phases, Again
<1>9. Sharing'
  BY <1>2, <1>6 DEF Sharing
<1>10. \A k \in Steps : Held(k)' <=> Held(k)
  BY <1>1, <1>2, <1>3 DEF Held
<1> QED
  BY <1>2, <1>4, <1>5, <1>6, <1>7, <1>8, <1>9, <1>10

\* A slave receives a step, which is its to do, or the terminate tag.
LEMMA InstructedKeeps ==
  ASSUME Dispatching, NEW s \in Slave, Instructed(s), UNCHANGED <<phase, file, lengths>>
  PROVE  /\ Dispatching'
         /\ \A k \in Steps : Held(k)' <=> Held(k)
         /\ \A t \in Slave : Owed(t)' = Owed(t)
         /\ UNCHANGED <<nsteps, next, caught>>
<1> DEFINE y == Head(sq[s])
<1> USE DEF Dispatching
<1>1. /\ spc[s] = "wait" /\ mq[s] = <<>> /\ y \in Result /\ sq[s] = <<y>> /\ Tail(sq[s]) = <<>>
      /\ Owed(s) = y
  BY InInstruction DEF Instructed
<1>2. /\ sq' = [sq EXCEPT ![s] = <<>>]
      /\ UNCHANGED <<mpc, nsteps, next, nstopped, caught, result, mq, phase, file, lengths>>
      /\ \/ y = Terminate /\ spc' = [spc EXCEPT ![s] = "over"] /\ task' = task
         \/ y \in Steps /\ spc' = [spc EXCEPT ![s] = "work"] /\ task' = [task EXCEPT ![s] = y]
  <2>1. y = Terminate \/ (y # Terminate /\ y \in Steps)
    BY <1>1, NoneLemma DEF Result
  <2> QED
    BY <1>1, <2>1 DEF Instructed, mvars
<1>3. /\ sq'[s] = <<>> /\ \A t \in Slave \ {s} : sq'[t] = sq[t] /\ spc'[t] = spc[t] /\ task'[t] = task[t]
      /\ (y = Terminate /\ spc'[s] = "over") \/ (y \in Steps /\ spc'[s] = "work" /\ task'[s] = y)
  BY <1>2 DEF Types
<1>4. Types'
  <2>1. <<>> \in Seq(Result)
    OBVIOUS
  <2>2. sq' \in [Slave -> Seq(Result)]
    BY <1>2, <2>1 DEF Types
  <2>3. spc' \in [Slave -> {"ready", "wait", "work", "over"}]
    BY <1>2 DEF Types
  <2>4. task' \in [Slave -> Int]
    <3>1. y \in Steps => y \in Int
      BY NRunsAssumption DEF Steps
    <3> QED
      BY <1>2, <3>1 DEF Types
  <2> QED
    BY <1>2, <2>2, <2>3, <2>4 DEF Types
<1>5. Places'
  BY <1>1, <1>2, <1>3 DEF Places
<1>6. \A t \in Slave : Owed(t)' = Owed(t)
  <2>1. Places' => Owes'
    BY OwedLemma, PTL
  <2>2. Owed(s)' = Owed(s)
    BY <1>1, <1>3, <1>5, <2>1, NoneLemma DEF Owes
  <2>3. \A t \in Slave \ {s} : Owed(t)' = Owed(t)
    BY <1>2, <1>3 DEF Owed
  <2> QED
    BY <2>2, <2>3
<1>7. Loop'
  <2>1. Stopped(s)' <=> Stopped(s)
    <3>1. sq[s] = <<Terminate>> <=> y = Terminate
      BY <1>1
    <3>2. sq'[s] # <<Terminate>> /\ spc[s] # "over" /\ (spc'[s] = "over" <=> y = Terminate)
      BY <1>1, <1>3, NoneLemma
    <3>3. (sq'[s] = <<Terminate>> \/ spc'[s] = "over") <=> (sq[s] = <<Terminate>> \/ spc[s] = "over")
      BY <3>1, <3>2
    <3>4. (Again(s)' <=> Again(s)) /\ (Again(Master)' <=> Again(Master))
      BY <1>2 DEF Again
    <3> QED
      BY <3>3, <3>4 DEF Stopped
  <2>2. \A t \in Slave \ {s} : Stopped(t)' <=> Stopped(t)
    BY <1>2, <1>3 DEF Stopped, Again
  <2>3. {t \in Slave : Stopped(t)}' = {t \in Slave : Stopped(t)}
    BY <2>1, <2>2
  <2> QED
    BY <1>2, <2>1, <2>2, <2>3 DEF Loop
<1>8. Phases'
  <2>1. ~Fresh(s)
    BY <1>1 DEF Fresh
  <2>2. \A t \in Slave \ {s} : Fresh(t) => Fresh(t)'
    BY <1>2, <1>3 DEF Fresh
  <2> QED
    BY <1>1, <1>2, <1>3, <2>1, <2>2 DEF Phases, Again
<1>9. Sharing'
  BY <1>2, <1>6 DEF Sharing
<1>10. \A k \in Steps : Held(k)' <=> Held(k)
  BY <1>1, <1>2, <1>3 DEF Held
<1> QED
  BY <1>2, <1>4, <1>5, <1>6, <1>7, <1>8, <1>9, <1>10

\* A slave finishes the step it has: its result is there, and was not before.
LEMMA WorkDoneKeeps ==
  ASSUME Dispatching, NEW s \in Slave, WorkDone(s), UNCHANGED <<phase, lengths>>,
         file' \in [0..(NRuns + Slot*NRuns) -> Int]
  PROVE  /\ Dispatching'
         /\ task[s] \in Steps /\ ~Held(task[s]) /\ (Again(s) => Again(Master))
         /\ \A k \in Steps : Held(k)' <=> Held(k) \/ k = task[s]
         /\ \A t \in Slave : Owed(t)' = Owed(t)
         /\ UNCHANGED <<nsteps, next, caught>>
<1> DEFINE y == task[s]
<1> USE DEF Dispatching
<1>1. /\ spc[s] = "work" /\ mq[s] = <<>> /\ sq[s] = <<>> /\ y \in Steps /\ y \in Result
      /\ Owed(s) = y
  BY OwedLemma DEF WorkDone, Places, Owes, Result
<1>2. /\ result' = [result EXCEPT ![s] = y] /\ spc' = [spc EXCEPT ![s] = "ready"]
      /\ UNCHANGED <<mpc, nsteps, next, nstopped, caught, task, mq, sq, phase, lengths>>
  BY DEF WorkDone, mvars
<1>3. /\ result'[s] = y /\ spc'[s] = "ready"
      /\ \A t \in Slave \ {s} : result'[t] = result[t] /\ spc'[t] = spc[t]
  BY <1>2 DEF Types
<1>4. Types'
  BY <1>1, <1>2 DEF Types
<1>5. Places'
  BY <1>1, <1>2, <1>3 DEF Places
<1>6. \A t \in Slave : Owed(t)' = Owed(t)
  <2>1. Places' => Owes'
    BY OwedLemma, PTL
  <2>2. Owed(s)' = Owed(s)
    BY <1>1, <1>3, <1>5, <2>1 DEF Owes
  <2>3. \A t \in Slave \ {s} : Owed(t)' = Owed(t)
    BY <1>2, <1>3 DEF Owed
  <2> QED
    BY <2>2, <2>3
<1>7. Loop'
  <2>1. \A t \in Slave : Stopped(t)' <=> Stopped(t)
    BY <1>1, <1>2, <1>3 DEF Stopped, Again
  <2>2. {t \in Slave : Stopped(t)}' = {t \in Slave : Stopped(t)}
    BY <2>1
  <2> QED
    BY <1>2, <2>1, <2>2 DEF Loop
<1>8. ~Fresh(s)
  BY <1>1 DEF Fresh
<1>9. Phases'
  <2>1. \A t \in Slave \ {s} : Fresh(t) => Fresh(t)'
    BY <1>2, <1>3 DEF Fresh
  <2> QED
    BY <1>1, <1>2, <1>3, <1>8, <2>1 DEF Phases, Again
<1>10. Sharing'
  BY <1>2, <1>6 DEF Sharing
<1>11. ~Held(y)
  <2>1. y \notin caught
    BY <1>1, NoneLemma DEF Sharing
  <2>2. ASSUME NEW t \in Slave, mq[t] = <<y>> \/ (spc[t] = "ready" /\ result[t] = y)
        PROVE  FALSE
    <3>1. t # s
      <4>1. <<y>> # <<>>
        OBVIOUS
      <4> QED
        BY <1>1, <2>2, <4>1
    <3>2. Owed(t) = y
      BY <1>1, <2>2, OwedLemma DEF Owes
    <3> QED
      BY <1>1, <3>1, <3>2, NoneLemma DEF Sharing
  <2> QED
    BY <2>1, <2>2 DEF Held
<1>12. \A k \in Steps : Held(k)' <=> Held(k) \/ k = y
  BY <1>1, <1>2, <1>3 DEF Held
<1>13. Again(s) => Again(Master)
  BY <1>8 DEF Phases
<1> QED
  BY <1>1, <1>2, <1>4, <1>5, <1>6, <1>7, <1>9, <1>10, <1>11, <1>12, <1>13

-----------------------------------------------------------------------------
(* The file.                                                               *)

\* The arrays lie behind the header, inside the file, and do not overlap.
LEMMA Regions ==
  ASSUME NEW k \in Steps
  PROVE  /\ Length[k] \in 1..Slot /\ Offset(k) \in Nat
         /\ Place(k) \subseteq NRuns+1..NRuns+Slot*NRuns
         /\ \A j \in Steps : j # k => Place(j) \cap Place(k) = {}
<1> USE LengthAssumption, NRunsAssumption
<1>1. ASSUME NEW a \in Nat, NEW b \in Nat, a <= b
      PROVE  Slot * a \in Nat /\ Slot * a <= Slot * b
  <2>1. PICK d \in Nat : b = a + d
    <3>1. b - a \in Nat /\ b = a + (b - a)
      BY <1>1
    <3> QED
      BY <3>1
  <2>2. Slot * b = Slot * a + Slot * d /\ Slot * a \in Nat /\ Slot * d \in Nat
    BY <2>1
  <2> QED
    BY <2>2
<1> DEFINE At(n) == Slot * n
<1>2. \A j \in Steps : j \in Nat /\ j + 1 \in Nat /\ j + 1 <= NRuns
  BY DEF Steps
<1>3. \A j \in Steps : Length[j] \in Nat /\ 1 <= Length[j] /\ Length[j] <= Slot
  OBVIOUS
<1>4. \A n, m \in Nat : n <= m => At(n) \in Nat /\ At(m) \in Nat /\ At(n) <= At(m)
  BY <1>1
<1>5. \A n \in Nat : At(n + 1) = At(n) + Slot
  OBVIOUS
<1>6. ASSUME NEW j \in Steps
      PROVE  /\ Offset(j) = 1 + NRuns + At(j)
             /\ Place(j) = 1 + NRuns + At(j) .. 1 + NRuns + At(j) + Length[j] - 1
  BY DEF Place, Offset
<1>7. NRuns+1..NRuns+Slot*NRuns = NRuns+1..NRuns+At(NRuns)
  OBVIOUS
<1> HIDE DEF At
<1>8. \A j \in Steps : At(j) \in Nat /\ At(j + 1) = At(j) + Slot
  BY <1>2, <1>4, <1>5
<1>9. Place(k) \subseteq NRuns+1..NRuns+At(NRuns)
  <2>1. At(k) + Slot <= At(NRuns) /\ At(NRuns) \in Nat
    BY <1>2, <1>4, <1>8
  <2> QED
    BY <1>3, <1>6, <1>8, <2>1
<1>10. ASSUME NEW i \in Steps, NEW j \in Steps, i < j
       PROVE  Place(i) \cap Place(j) = {}
  <2>1. i + 1 <= j
    BY <1>2, <1>10
  <2>2. At(i) + Slot <= At(j)
    BY <1>2, <1>4, <1>8, <2>1
  <2>3. At(i) + Length[i] <= At(j)
    BY <1>3, <1>8, <2>2
  <2>4. \A a, b, c, d \in Int : b < c => (a..b) \cap (c..d) = {}
    OBVIOUS
  <2> DEFINE a == 1 + NRuns + At(i)
             b == 1 + NRuns + At(i) + Length[i] - 1
             c == 1 + NRuns + At(j)
             d == 1 + NRuns + At(j) + Length[j] - 1
  <2>5. a \in Int /\ b \in Int /\ c \in Int /\ d \in Int /\ b < c
    BY <1>3, <1>8, <2>3
  <2>6. Place(i) = a..b /\ Place(j) = c..d
    BY <1>6
  <2> HIDE DEF a, b, c, d
  <2> QED
    BY ONLY <2>4, <2>5, <2>6
<1>11. ASSUME NEW j \in Steps, j # k
       PROVE  Place(j) \cap Place(k) = {}
  <2>1. j < k \/ k < j
    BY <1>2, <1>11
  <2> QED
    BY <1>10, <2>1
<1>12. Length[k] \in 1..Slot /\ Offset(k) \in Nat
  BY <1>6, <1>8
<1>13. Place(k) \subseteq NRuns+1..NRuns+Slot*NRuns
  BY ONLY <1>7, <1>9
<1> QED
  BY ONLY <1>11, <1>12, <1>13

\* Where the header and the arrays are in the file.
LEMMA FileLemma ==
  /\ 0 \in 0..(NRuns + Slot*NRuns)
  /\ \A k \in Steps : /\ 1 + k \in 1..NRuns /\ 1 + k \in 0..(NRuns + Slot*NRuns)
                      /\ Place(k) \subseteq 0..(NRuns + Slot*NRuns)
                      /\ Place(k) \cap 0..NRuns = {}
                      /\ Place(k) = Offset(k)..Offset(k) + Length[k] - 1
<1> USE LengthAssumption, NRunsAssumption
<1>1. Slot*NRuns \in Nat
  OBVIOUS
<1>2. ASSUME NEW k \in Steps
      PROVE  /\ 1 + k \in 1..NRuns
             /\ Place(k) \subseteq 0..(NRuns + Slot*NRuns) /\ Place(k) \cap 0..NRuns = {}
  BY <1>1, Regions DEF Steps
<1> QED
  BY <1>1, <1>2 DEF Place

\* A step that leaves the file, and what the results are, alone.
LEMMA StoredKept ==
  ASSUME Stored, UNCHANGED <<file, got>>,
         phase'[Master] = "open" <=> phase[Master] = "open",
         Written' <=> Written, Again(Master)' <=> Again(Master),
         \A k \in Steps : Held(k)' <=> Held(k),
         \A k \in Steps : k \in caught' \/ Written => lengths'[k] = Length[k]
  PROVE  Stored'
<1>1. got' = [k \in Steps |-> IF Again(Master)' /\ Held(k)' THEN <<Array(k)>> ELSE <<>>]
  BY DEF Stored
<1>2. \A k \in Steps : Held(k)' \/ Written' => \A i \in Place(k) : file'[i] = k
  BY DEF Stored
<1> QED
  BY <1>1, <1>2 DEF Stored, Array

\* "lengths[rstep] = result[1]" for what the master catches.
LEMMA RecordedLemma ==
  ASSUME Dispatching, Stored, NEW s \in Slave, mq[s] # <<>>, phase[Master] = "write",
         lengths' = Recorded(s)
  PROVE  /\ lengths' \in [Steps -> Nat] /\ ~Written
         /\ \A k \in Steps : k \in caught \union ({Owed(s)} \ {None}) => lengths'[k] = Length[k]
<1>1. Head(mq[s]) \in Result /\ Owed(s) = Head(mq[s])
  BY InMessage DEF Dispatching
<1>2. lengths \in [Steps -> Nat] /\ \A k \in Steps : k \in caught => lengths[k] = Length[k]
  BY DEF Dispatching, Types, Stored
<1>3. ~Written
  BY DEF Written
<1>4. \A k \in Steps : Length[k] \in Nat
  BY LengthAssumption
<1>5. CASE Owed(s) = None
  BY <1>1, <1>2, <1>3, <1>5 DEF Recorded
<1>6. CASE Owed(s) \in Steps
  <2>1. lengths' = [lengths EXCEPT ![Owed(s)] = Length[Owed(s)]]
    BY <1>1, <1>6, NoneLemma DEF Recorded
  <2> QED
    BY <1>2, <1>3, <1>4, <1>6, <2>1
<1> QED
  BY <1>1, <1>5, <1>6 DEF Result

-----------------------------------------------------------------------------
(* The actions that are the loop's: the file follows the messages.         *)

LEMMA DispatchInv ==
  ASSUME MSIInv, NEW s \in Slave, DispatchWrite(s) \/ DispatchRead(s)
  PROVE  /\ MSIInv' /\ Dispatch(s)
         /\ Owed(s)' = next /\ \A t \in Slave \ {s} : Owed(t)' = Owed(t)
         /\ caught' = caught \union ({Owed(s)} \ {None})
<1> USE DEF MSIInv
<1>1. Dispatch(s) /\ mq[s] # <<>> /\ UNCHANGED <<phase, file, got>>
  BY DEF DispatchWrite, DispatchRead, Dispatch
<1>2. /\ lengths' \in [Steps -> Nat]
      /\ \A k \in Steps : k \in caught \union ({Owed(s)} \ {None}) \/ Written => lengths'[k] = Length[k]
  <2>1. CASE DispatchWrite(s)
    BY <1>1, <2>1, RecordedLemma DEF DispatchWrite
  <2>2. CASE DispatchRead(s)
    BY <2>2 DEF DispatchRead, Written, Stored, Dispatching, Types
  <2> QED
    BY <2>1, <2>2
<1>3. /\ Dispatching' /\ \A k \in Steps : Held(k)' <=> Held(k)
      /\ Owed(s)' = next /\ \A t \in Slave \ {s} : Owed(t)' = Owed(t)
      /\ caught' = caught \union ({Owed(s)} \ {None})
  BY <1>1, <1>2, DispatchKeeps
<1>4. Stored'
  BY <1>1, <1>2, <1>3, StoredKept DEF Written, Again
<1> QED
  BY <1>1, <1>3, <1>4

LEMMA StopInv ==
  ASSUME MSIInv, NEW s \in Slave, StopWrite(s) \/ StopRead(s)
  PROVE  /\ MSIInv' /\ Stop(s) /\ next = NRuns
         /\ Owed(s)' = None /\ \A t \in Slave \ {s} : Owed(t)' = Owed(t)
         /\ caught' = caught \union ({Owed(s)} \ {None})
<1> USE DEF MSIInv
<1>1. Stop(s) /\ mq[s] # <<>> /\ UNCHANGED <<phase, file, got>>
  BY DEF StopWrite, StopRead, Stop
<1>2. /\ lengths' \in [Steps -> Nat]
      /\ \A k \in Steps : k \in caught \union ({Owed(s)} \ {None}) \/ Written => lengths'[k] = Length[k]
  <2>1. CASE StopWrite(s)
    BY <1>1, <2>1, RecordedLemma DEF StopWrite
  <2>2. CASE StopRead(s)
    BY <2>2 DEF StopRead, Written, Stored, Dispatching, Types
  <2> QED
    BY <2>1, <2>2
<1>3. /\ Dispatching' /\ \A k \in Steps : Held(k)' <=> Held(k)
      /\ Owed(s)' = None /\ \A t \in Slave \ {s} : Owed(t)' = Owed(t)
      /\ caught' = caught \union ({Owed(s)} \ {None}) /\ next = NRuns
  BY <1>1, <1>2, StopKeeps
<1>4. Stored'
  BY <1>1, <1>2, <1>3, StoredKept DEF Written, Again
<1> QED
  BY <1>1, <1>3, <1>4

\* The pool of tasks sees nothing of a step of these.
Unseen == UNCHANGED <<nsteps, next, caught>> /\ \A t \in Slave : Owed(t)' = Owed(t)

LEMMA GoesOnInv ==
  ASSUME MSIInv, MasterSendReturns \/ MasterWaitAll
  PROVE  MSIInv' /\ Unseen
<1> USE DEF MSIInv
<1>1. (SendReturns \/ WaitAll) /\ UNCHANGED <<phase, file, lengths, got>>
  BY DEF MasterSendReturns, MasterWaitAll
<1>2. Dispatching' /\ Unseen /\ \A k \in Steps : Held(k)' <=> Held(k)
  BY <1>1, GoesOnKeeps DEF Unseen
<1>3. Stored'
  BY <1>1, <1>2, StoredKept DEF Written, Again, Stored, Unseen
<1> QED
  BY <1>2, <1>3

LEMMA SlaveMessageInv ==
  ASSUME MSIInv, NEW s \in Slave, SlaveSignals(s) \/ SlaveInstructed(s)
  PROVE  MSIInv' /\ Unseen
<1> USE DEF MSIInv
<1>1. (Signal(s) \/ Instructed(s)) /\ UNCHANGED <<phase, file, lengths, got>>
  BY DEF SlaveSignals, SlaveInstructed
<1>2. Dispatching' /\ Unseen /\ \A k \in Steps : Held(k)' <=> Held(k)
  BY <1>1, SignalKeeps, InstructedKeeps DEF Unseen
<1>3. Stored'
  BY <1>1, <1>2, StoredKept DEF Written, Again, Stored, Unseen
<1> QED
  BY <1>2, <1>3

\* In write() the array of the run goes to a place where no other run is.
LEMMA WriteRunInv ==
  ASSUME MSIInv, NEW s \in Slave, WriteRun(s)
  PROVE  MSIInv' /\ Unseen
<1> DEFINE y == task[s]
<1> USE DEF MSIInv
<1>1. /\ phase[s] = "write" /\ WorkDone(s) /\ UNCHANGED <<phase, lengths, got>>
      /\ file' = Filled(Offset(y), Length[y], y)
  BY DEF WriteRun
<1>2. y \in Steps /\ Owed(s) = y /\ spc[s] = "work"
  BY <1>1, OwedLemma DEF WorkDone, Places, Owes, Dispatching
<1>3. /\ file \in [0..(NRuns + Slot*NRuns) -> Int] /\ y \in Int
      /\ file' \in [0..(NRuns + Slot*NRuns) -> Int]
      /\ \A i \in 0..(NRuns + Slot*NRuns) : file'[i] = IF i \in Place(y) THEN y ELSE file[i]
  <2>1. y \in Int
    BY <1>2, NRunsAssumption DEF Steps
  <2>2. file \in [0..(NRuns + Slot*NRuns) -> Int]
    BY DEF Dispatching, Types
  <2>3. file' = [i \in 0..(NRuns + Slot*NRuns) |-> IF i \in Place(y) THEN y ELSE file[i]]
    BY <1>1, <2>2 DEF Filled, Place
  <2> QED
    BY <2>1, <2>2, <2>3
<1>4. /\ Dispatching' /\ Unseen /\ (Again(s) => Again(Master))
      /\ \A k \in Steps : Held(k)' <=> Held(k) \/ k = y
  BY <1>1, <1>3, WorkDoneKeeps DEF Unseen
<1>5. ~Written /\ ~Again(Master)
  <2>1. ~Again(Master)
    BY <1>1 DEF Dispatching, Phases, Again
  <2>2. phase[Master] # "barrier"
    BY <1>2, AllCaught, NoneLemma DEF Dispatching, Phases
  <2> QED
    BY <2>1, <2>2 DEF Written, Again, Dispatching, Types, Phase, Proc
<1>6. file'[0] = file[0]
  BY <1>2, <1>3, FileLemma, NRunsAssumption
<1>7. ASSUME NEW k \in Steps, Held(k)', NEW i \in Place(k)
      PROVE  file'[i] = k
  <2>1. i \in 0..(NRuns + Slot*NRuns)
    BY FileLemma
  <2>2. CASE k = y
    BY <1>3, <2>1, <2>2
  <2>3. CASE k # y
    BY <1>2, <1>3, <1>4, <1>7, <2>1, <2>3, Regions DEF Stored
  <2> QED
    BY <2>2, <2>3
<1>8. Stored'
  <2>1. \A k \in Steps : k \in caught' => lengths'[k] = Length[k]
    BY <1>1, <1>4 DEF Stored, Unseen
  <2>2. ~Written' /\ ~Again(Master)' /\ phase' = phase
    BY <1>1, <1>5 DEF Written, Again
  <2>3. got' = [k \in Steps |-> <<>>]
    BY <1>1, <1>5 DEF Stored
  <2> QED
    BY <1>6, <1>7, <2>1, <2>2, <2>3 DEF Stored
<1> QED
  BY <1>4, <1>8

\* In read() it comes from there, for the first time.
LEMMA ReadRunInv ==
  ASSUME MSIInv, NEW s \in Slave, ReadRun(s)
  PROVE  MSIInv' /\ Unseen
<1> DEFINE y == task[s]
<1> USE DEF MSIInv
<1>1. /\ phase[s] = "read" /\ WorkDone(s) /\ UNCHANGED <<phase, file, lengths>>
      /\ got' = [got EXCEPT ![y] = Append(@, ReadFrom(Offset(y), lengths[y]))]
  BY DEF ReadRun
<1>2. file \in [0..(NRuns + Slot*NRuns) -> Int] /\ file' \in [0..(NRuns + Slot*NRuns) -> Int]
  BY <1>1 DEF Dispatching, Types
<1>3. /\ Dispatching' /\ Unseen /\ y \in Steps /\ ~Held(y) /\ (Again(s) => Again(Master))
      /\ \A k \in Steps : Held(k)' <=> Held(k) \/ k = y
  BY <1>1, <1>2, WorkDoneKeeps DEF Unseen
<1>4. Again(Master) /\ Written
  BY <1>1, <1>3 DEF Again, Written
<1>5. ReadFrom(Offset(y), lengths[y]) = Array(y)
  <2>1. lengths[y] = Length[y] /\ Length[y] \in Nat /\ Offset(y) \in Nat
    BY <1>3, <1>4, Regions DEF Stored
  <2>2. \A i \in 0..Length[y]-1 : Offset(y) + i \in Place(y)
    BY <2>1 DEF Place
  <2>3. \A i \in 0..Length[y]-1 : file[Offset(y) + i] = y
    BY <1>3, <1>4, <2>2 DEF Stored
  <2> QED
    BY <2>1, <2>3 DEF ReadFrom, Array
<1>6. got[y] = <<>> /\ got' = [got EXCEPT ![y] = <<Array(y)>>]
  <2>1. got[y] = <<>>
    BY <1>3 DEF Stored
  <2>2. Append(<<>>, Array(y)) = <<Array(y)>>
    OBVIOUS
  <2> QED
    BY <1>1, <1>5, <2>1, <2>2
<1>7. Stored'
  <2>1. got' = [k \in Steps |-> IF Again(Master)' /\ Held(k)' THEN <<Array(k)>> ELSE <<>>]
    <3>1. Again(Master)' /\ got = [k \in Steps |-> IF Held(k) THEN <<Array(k)>> ELSE <<>>]
      BY <1>1, <1>4 DEF Again, Stored
    <3>2. \A k \in Steps : got'[k] = IF Held(k)' THEN <<Array(k)>> ELSE <<>>
      BY <1>3, <1>6, <3>1
    <3>3. got' = [k \in Steps |-> got'[k]]
      BY <1>3, <1>6, <3>1
    <3> QED
      BY <3>1, <3>2, <3>3
  <2>2. Written' /\ phase' = phase /\ file' = file /\ lengths' = lengths
    BY <1>1, <1>4 DEF Written
  <2>3. \A k \in Steps : \A i \in Place(k) : file'[i] = k
    BY <1>4, <2>2 DEF Stored
  <2> QED
    BY <1>4, <2>1, <2>2, <2>3 DEF Stored, Array
<1> QED
  BY <1>3, <1>7

-----------------------------------------------------------------------------
(* The ranks go from one phase to the next.                                *)

\* A step of one rank that stays in its use of the loop, and sends nothing.
LEMMA PhaseKeeps ==
  ASSUME Dispatching, UNCHANGED <<dvars, lengths>>,
         file' \in [0..(NRuns + Slot*NRuns) -> Int], phase' \in [Proc -> Phase],
         \A p \in Proc : Again(p)' <=> Again(p), Phases'
  PROVE  Dispatching' /\ Unseen /\ \A k \in Steps : Held(k)' <=> Held(k)
<1> USE DEF Dispatching
<1>1. UNCHANGED <<mpc, nsteps, next, nstopped, caught, spc, task, result, mq, sq, lengths>>
  BY DEF dvars, mvars, svars
<1>2. Types' /\ Places'
  BY <1>1 DEF Types, Places
<1>3. \A t \in Slave : Owed(t)' = Owed(t)
  BY <1>1 DEF Owed
<1>4. Sharing'
  BY <1>1, <1>3 DEF Sharing
<1>5. Loop'
  <2>1. \A t \in Slave : Stopped(t)' <=> Stopped(t)
    BY <1>1 DEF Stopped, Proc
  <2>2. {t \in Slave : Stopped(t)}' = {t \in Slave : Stopped(t)}
    BY <2>1
  <2> QED
    BY <1>1, <2>1, <2>2 DEF Loop
<1>6. \A k \in Steps : Held(k)' <=> Held(k)
  BY <1>1 DEF Held
<1> QED
  BY <1>1, <1>2, <1>3, <1>4, <1>5, <1>6 DEF Unseen

LEMMA WriteCountInv ==
  ASSUME MSIInv, WriteCount
  PROVE  MSIInv' /\ Unseen
<1> USE DEF MSIInv
<1>1. /\ phase[Master] = "open" /\ file' = [file EXCEPT ![0] = NRuns]
      /\ phase' = [phase EXCEPT ![Master] = "write"]
      /\ UNCHANGED <<dvars, lengths, got>>
  BY DEF WriteCount
<1>2. phase \in [Proc -> Phase] /\ file \in [0..(NRuns + Slot*NRuns) -> Int]
  BY DEF Dispatching, Types
<1>3. /\ phase' \in [Proc -> Phase] /\ phase'[Master] = "write"
      /\ \A s \in Slave : phase'[s] = phase[s]
  BY <1>1, <1>2, MasterAssumption DEF Proc, Phase
<1>4. \A p \in Proc : Again(p)' <=> Again(p)
  BY <1>1, <1>3 DEF Again, Proc
<1>5. Phases'
  <2>1. UNCHANGED <<mpc, spc, mq, result>>
    BY <1>1 DEF dvars, mvars, svars
  <2>2. \A s \in Slave : ~Again(s)
    BY <1>1 DEF Dispatching, Phases, Again
  <2> QED
    BY <1>1, <1>3, <1>4, <2>1, <2>2 DEF Dispatching, Phases, Again, Proc
<1>6. file' \in [0..(NRuns + Slot*NRuns) -> Int]
  <2>1. NRuns \in Int
    BY NRunsAssumption
  <2> QED
    BY <1>1, <1>2, <2>1
<1>7. Dispatching' /\ Unseen /\ \A k \in Steps : Held(k)' <=> Held(k)
  BY <1>1, <1>3, <1>4, <1>5, <1>6, PhaseKeeps
<1>8. Stored'
  <2>1. file'[0] = NRuns
    BY <1>1, <1>2, FileLemma
  <2>2. \A k \in Steps : \A i \in Place(k) : file'[i] = file[i]
    <3>1. 0 \in 0..NRuns
      BY NRunsAssumption
    <3> QED
      BY <1>1, <1>2, <3>1, FileLemma
  <2>3. ~Written /\ ~Written' /\ ~Again(Master) /\ ~Again(Master)'
    BY <1>1, <1>3 DEF Written, Again
  <2> QED
    BY <1>1, <1>7, <2>1, <2>2, <2>3 DEF Stored, Unseen
<1> QED
  BY <1>7, <1>8

\* Here the results of all runs must be caught.
LEMMA WriteLengthsInv ==
  ASSUME MSIInv, WriteLengths
  PROVE  MSIInv' /\ Unseen
<1> USE DEF MSIInv
<1>1. /\ phase[Master] = "write" /\ mpc = "over"
      /\ file' = [i \in DOMAIN file |-> IF i \in 1..NRuns THEN lengths[i-1] ELSE file[i]]
      /\ phase' = [phase EXCEPT ![Master] = "barrier"]
      /\ UNCHANGED <<dvars, lengths, got>>
  BY DEF WriteLengths
<1>2. /\ phase \in [Proc -> Phase] /\ file \in [0..(NRuns + Slot*NRuns) -> Int]
      /\ lengths \in [Steps -> Nat]
  BY DEF Dispatching, Types
<1>3. /\ phase' \in [Proc -> Phase] /\ phase'[Master] = "barrier"
      /\ \A s \in Slave : phase'[s] = phase[s]
  BY <1>1, <1>2, MasterAssumption DEF Proc, Phase
<1>4. \A p \in Proc : Again(p)' <=> Again(p)
  BY <1>1, <1>3 DEF Again, Proc
<1>5. Phases'
  <2>1. UNCHANGED <<mpc, spc, mq, result>>
    BY <1>1 DEF dvars, mvars, svars
  <2>2. \A s \in Slave : ~Again(s)
    BY <1>1 DEF Dispatching, Phases, Again
  <2> QED
    BY <1>1, <1>3, <1>4, <2>1, <2>2 DEF Dispatching, Phases, Again, Proc
<1>6. file' \in [0..(NRuns + Slot*NRuns) -> Int]
  <2>1. \A i \in 1..NRuns : i-1 \in Steps /\ lengths[i-1] \in Int
    BY <1>2, NRunsAssumption DEF Steps
  <2> QED
    BY <1>1, <1>2, <2>1
<1>7. Dispatching' /\ Unseen /\ \A k \in Steps : Held(k)' <=> Held(k)
  BY <1>1, <1>3, <1>4, <1>5, <1>6, PhaseKeeps
<1>8. Stored'
  <2>1. \A k \in Steps : lengths[k] = Length[k] /\ \A i \in Place(k) : file[i] = k
    BY <1>1, AllCaught DEF Stored, Held
  <2>2. file'[0] = file[0] /\ file[0] = NRuns
    BY <1>1, <1>2, FileLemma DEF Stored
  <2>3. ASSUME NEW k \in Steps
        PROVE  file'[1 + k] = Length[k]
    <3>1. (1 + k) - 1 = k
      BY NRunsAssumption DEF Steps
    <3> QED
      BY <1>1, <1>2, <2>1, <3>1, FileLemma
  <2>4. ASSUME NEW k \in Steps, NEW i \in Place(k)
        PROVE  file'[i] = k
    <3>1. i \notin 1..NRuns /\ i \in 0..(NRuns + Slot*NRuns)
      BY FileLemma, NRunsAssumption
    <3> QED
      BY <1>1, <1>2, <2>1, <3>1
  <2>5. ~Again(Master) /\ ~Again(Master)'
    BY <1>1, <1>3 DEF Again
  <2> QED
    BY <1>1, <2>1, <2>2, <2>3, <2>4, <2>5 DEF Stored
<1> QED
  BY <1>7, <1>8

\* A slave reaches the barrier, or a rank returns from read().
LEMMA LeavesLoopInv ==
  ASSUME MSIInv, (\E s \in Slave : SlaveWrote(s)) \/ (\E p \in Proc : Return(p))
  PROVE  MSIInv' /\ Unseen
<1> USE DEF MSIInv
<1>1. PICK p \in Proc, to \in {"barrier", "return"} :
        /\ phase' = [phase EXCEPT ![p] = to]
        /\ IF p = Master THEN mpc = "over" ELSE spc[p] = "over"
        /\ IF to = "barrier" THEN phase[p] = "write" /\ p # Master ELSE phase[p] = "read"
        /\ UNCHANGED <<dvars, file, lengths, got>>
  BY MasterAssumption DEF SlaveWrote, Return, Proc
<1>2. phase \in [Proc -> Phase] /\ file \in [0..(NRuns + Slot*NRuns) -> Int] /\ to \in Phase
  BY DEF Dispatching, Types, Phase
<1>3. phase' \in [Proc -> Phase] /\ phase'[p] = to /\ \A q \in Proc \ {p} : phase'[q] = phase[q]
  BY <1>1, <1>2
<1>4. \A q \in Proc : Again(q)' <=> Again(q)
  BY <1>1, <1>3 DEF Again
<1>5. Phases'
  <2>1. UNCHANGED <<mpc, spc, mq, result>> /\ Master \in Proc /\ Slave \subseteq Proc
    BY <1>1 DEF dvars, mvars, svars, Proc
  <2>2. \A s \in Slave : (Fresh(s)' <=> Fresh(s)) /\ (Fresh(s) => spc[s] # "over")
    BY <2>1 DEF Fresh
  <2>3. \A q \in Proc : phase'[q] \in {"barrier", "return"} /\ q # p => phase[q] \in {"barrier", "return"}
    BY <1>3
  <2>4. phase'[Master] \in {"barrier", "return"} => mpc' = "over"
    BY <1>1, <2>1, <2>3 DEF Dispatching, Phases
  <2>5. ASSUME NEW s \in Slave
        PROVE  /\ phase'[s] # "open"
               /\ phase'[s] \in {"barrier", "return"} => spc'[s] = "over"
    BY <1>1, <1>3, <2>1, <2>3, MasterAssumption DEF Dispatching, Phases
  <2>6. ASSUME NEW s \in Slave, Again(s), ~Again(Master)
        PROVE  phase'[Master] = "barrier" /\ phase'[s] = "read" /\ Fresh(s)'
    <3>1. phase[Master] = "barrier" /\ phase[s] = "read" /\ Fresh(s)
      BY <2>6 DEF Dispatching, Phases
    <3>2. p # Master /\ p # s
      BY <1>1, <2>2, <3>1, MasterAssumption
    <3> QED
      BY <1>3, <2>1, <2>2, <3>1, <3>2
  <2>7. ASSUME NEW s \in Slave, Again(Master), ~Again(s)
        PROVE  phase'[s] = "barrier"
    <3>1. phase[s] = "barrier"
      BY <2>7 DEF Dispatching, Phases
    <3> QED
      BY <1>1, <1>3, <2>1, <3>1
  <2>8. ASSUME NEW s \in Slave, NEW t \in Slave, Again(s)
        PROVE  phase'[t] # "write"
    BY <1>3, <2>1, <2>8 DEF Dispatching, Phases
  <2> QED
    BY <1>4, <2>1, <2>4, <2>5, <2>6, <2>7, <2>8 DEF Phases
<1>6. Dispatching' /\ Unseen /\ \A k \in Steps : Held(k)' <=> Held(k)
  BY <1>1, <1>2, <1>3, <1>4, <1>5, PhaseKeeps
<1>7. Stored'
  <2>1. Written' <=> Written
    BY <1>1, <1>3 DEF Written, Proc
  <2>2. phase'[Master] = "open" <=> phase[Master] = "open"
    BY <1>1, <1>3 DEF Proc
  <2>3. Again(Master)' <=> Again(Master)
    BY <1>4 DEF Proc
  <2>4. \A k \in Steps : k \in caught' \/ Written => lengths'[k] = Length[k]
    BY <1>1, <1>6 DEF Stored, Unseen
  <2> QED
    BY <1>1, <1>6, <2>1, <2>2, <2>3, <2>4, StoredKept
<1> QED
  BY <1>6, <1>7

\* A slave starts over: it owes nothing, as before.
LEMMA SlaveReadsInv ==
  ASSUME MSIInv, NEW s \in Slave, SlaveReads(s)
  PROVE  MSIInv' /\ Unseen
<1> USE DEF MSIInv
<1>1. /\ phase[s] = "barrier" /\ \A q \in Proc : phase[q] \in {"barrier", "read", "return"}
      /\ phase' = [phase EXCEPT ![s] = "read"]
      /\ spc' = [spc EXCEPT ![s] = "ready"] /\ result' = [result EXCEPT ![s] = None]
      /\ UNCHANGED <<mpc, nsteps, next, nstopped, caught, task, mq, sq, file, lengths, got>>
  BY DEF SlaveReads, PassBarrier, RestartSlave, mvars
<1>2. Master \in Proc /\ Slave \subseteq Proc /\ s # Master
  BY MasterAssumption DEF Proc
<1>3. Types /\ spc[s] = "over" /\ mq[s] = <<>> /\ sq[s] = <<>> /\ ~Again(s)
  BY <1>1 DEF Dispatching, Phases, Places, Again
<1>4. /\ phase'[s] = "read" /\ spc'[s] = "ready" /\ result'[s] = None
      /\ \A q \in Proc \ {s} : phase'[q] = phase[q]
      /\ \A t \in Slave \ {s} : spc'[t] = spc[t] /\ result'[t] = result[t]
  BY <1>1, <1>2, <1>3 DEF Types
<1>5. Types'
  <2>1. phase' \in [Proc -> Phase]
    BY <1>1, <1>2, <1>3 DEF Types, Phase
  <2>2. /\ spc' \in [Slave -> {"ready", "wait", "work", "over"}]
        /\ result' \in [Slave -> Result]
    BY <1>1, <1>3, NoneLemma DEF Types
  <2> QED
    BY <1>1, <1>3, <2>1, <2>2 DEF Types
<1>6. Places'
  BY <1>1, <1>3, <1>4 DEF Dispatching, Places
<1>7. \A t \in Slave : Owed(t)' = Owed(t)
  <2>1. Places' => Owes'
    BY OwedLemma, PTL
  <2>2. Owed(s)' = Owed(s)
    BY <1>3, <1>4, <1>6, <2>1, OwedLemma DEF Owes, Dispatching
  <2>3. \A t \in Slave \ {s} : Owed(t)' = Owed(t)
    BY <1>1, <1>4 DEF Owed
  <2> QED
    BY <2>2, <2>3
<1>8. \A q \in Proc : Again(q)' <=> Again(q) \/ q = s
  BY <1>4 DEF Again
<1>9. Loop'
  <2>1. ASSUME NEW t \in Slave
        PROVE  Stopped(t)' <=> Stopped(t)
    <3>1. Again(Master)' <=> Again(Master)
      BY <1>2, <1>8
    <3>2. CASE t = s
      <4>1. sq'[s] # <<Terminate>>
        BY <1>1, <1>3
      <4> QED
        BY <1>2, <1>3, <1>4, <1>8, <3>1, <3>2, <4>1 DEF Stopped
    <3>3. CASE t # s
      BY <1>1, <1>2, <1>4, <1>8, <3>1, <3>3 DEF Stopped
    <3> QED
      BY <3>2, <3>3
  <2>2. {t \in Slave : Stopped(t)}' = {t \in Slave : Stopped(t)}
    BY <2>1
  <2> QED
    BY <1>1, <2>1, <2>2 DEF Dispatching, Loop
<1>10. Phases'
  <2>1. phase'[Master] = phase[Master] /\ (Again(Master)' <=> Again(Master))
    BY <1>2, <1>4, <1>8
  <2>2. \A t \in Slave \ {s} : phase'[t] = phase[t] /\ (Fresh(t)' <=> Fresh(t))
    BY <1>1, <1>2, <1>4 DEF Fresh
  <2>3. Fresh(s)' /\ (~Again(Master) => phase[Master] = "barrier")
    BY <1>1, <1>2, <1>4 DEF Fresh, Again
  <2>4. \A t \in Slave : phase'[t] # "write"
    BY <1>1, <1>2, <1>4
  <2> QED
    BY <1>1, <1>2, <1>4, <1>8, <2>1, <2>2, <2>3, <2>4 DEF Dispatching, Phases
<1>11. Sharing'
  BY <1>1, <1>7 DEF Dispatching, Sharing
<1>12. \A k \in Steps : Held(k)' <=> Held(k)
  BY <1>1, <1>3, <1>4, NoneLemma DEF Held
<1>13. Stored'
  <2>1. Written' <=> Written
    BY <1>2, <1>4 DEF Written
  <2>2. phase'[Master] = "open" <=> phase[Master] = "open"
    BY <1>2, <1>4
  <2>3. Again(Master)' <=> Again(Master)
    BY <1>2, <1>8
  <2>4. \A k \in Steps : k \in caught' \/ Written => lengths'[k] = Length[k]
    BY <1>1 DEF Stored
  <2> QED
    BY <1>1, <1>12, <2>1, <2>2, <2>3, <2>4, StoredKept
<1> QED
  BY <1>1, <1>5, <1>6, <1>7, <1>9, <1>10, <1>11, <1>13 DEF Dispatching, Unseen

\* The master starts over, when no slave has more than asked for work.
LEMMA MasterReadsInv ==
  ASSUME MSIInv, MasterReads
  PROVE  /\ MSIInv' /\ next = NRuns /\ next' = 0 /\ nsteps' = NRuns /\ caught' = {}
         /\ \A t \in Slave : Owed(t) = None /\ Owed(t)' = None
<1> USE DEF MSIInv
<1>1. /\ phase[Master] = "barrier" /\ \A q \in Proc : phase[q] \in {"barrier", "read", "return"}
      /\ phase' = [phase EXCEPT ![Master] = "read"]
      /\ lengths' = [k \in 0..file[0]-1 |-> file[1 + k]]
      /\ mpc' = LoopStart(file[0]) /\ nsteps' = file[0] /\ next' = 0 /\ nstopped' = 0 /\ caught' = {}
      /\ UNCHANGED <<spc, task, result, mq, sq, file, got>>
  BY DEF MasterReads, PassBarrier, RestartMaster, svars
<1>2. Master \in Proc /\ Slave \subseteq Proc /\ \A s \in Slave : s # Master
  BY MasterAssumption DEF Proc
<1>3. Types /\ mpc = "over" /\ ~Again(Master) /\ Written /\ file[0] = NRuns
  BY <1>1 DEF Dispatching, Phases, Again, Written, Stored
<1>4. phase'[Master] = "read" /\ \A s \in Slave : phase'[s] = phase[s]
  BY <1>1, <1>2, <1>3 DEF Types
<1>5. /\ caught = Steps /\ next = NRuns /\ \A t \in Slave : Owed(t) = None
  BY <1>3, AllCaught
<1>6. \A t \in Slave : Owed(t)' = None
  BY <1>1, <1>5 DEF Owed
<1>7. /\ lengths' \in [Steps -> Nat] /\ \A k \in Steps : lengths'[k] = Length[k]
  <2>1. lengths' = [k \in Steps |-> file[1 + k]]
    BY <1>1, <1>3 DEF Steps
  <2>2. \A k \in Steps : file[1 + k] = Length[k] /\ Length[k] \in Nat
    BY <1>3, LengthAssumption DEF Stored
  <2> QED
    BY <2>1, <2>2
<1>8. Types'
  <2>1. phase' \in [Proc -> Phase]
    BY <1>1, <1>3 DEF Types, Phase
  <2>2. mpc' \in {"recv", "final"} /\ nsteps' = NRuns /\ next' \in 0..NRuns
    BY <1>1, <1>3, NRunsAssumption DEF LoopStart
  <2> QED
    BY <1>1, <1>3, <1>7, <2>1, <2>2 DEF Types
<1>9. Places'
  BY <1>1 DEF Dispatching, Places
<1>10. \A s \in Slave : ~Stopped(s)'
  <2> SUFFICES ASSUME NEW s \in Slave, Again(s)
               PROVE  sq[s] # <<Terminate>> /\ spc[s] # "over"
    BY <1>1, <1>4 DEF Stopped, Again
  <2>1. Fresh(s)
    BY <1>3 DEF Dispatching, Phases
  <2> QED
    BY <2>1 DEF Fresh, Dispatching, Places
<1>11. Loop'
  <2>1. {s \in Slave : Stopped(s)}' = {}
    BY <1>10
  <2>2. Cardinality({}) = 0
    BY FS_EmptySet
  <2>3. (mpc' = "recv" => next' < NRuns) /\ (mpc' = "final" => next' = NRuns) /\ mpc' \in {"recv", "final"}
    BY <1>1, <1>3, NRunsAssumption DEF LoopStart
  <2> QED
    BY <1>1, <2>1, <2>2, <2>3 DEF Loop
<1>12. Phases'
  <2>1. \A s \in Slave : (Again(s)' <=> Again(s)) /\ phase'[s] \in {"barrier", "read", "return"}
    BY <1>1, <1>2, <1>4 DEF Again
  <2>2. Again(Master)'
    BY <1>4 DEF Again
  <2> QED
    BY <1>1, <1>2, <1>4, <2>1, <2>2 DEF Dispatching, Phases, Again
<1>13. Sharing'
  BY <1>1, <1>6 DEF Sharing
<1>14. \A k \in Steps : ~Held(k)'
  <2> SUFFICES ASSUME NEW k \in Steps, NEW s \in Slave,
                      mq[s] = <<k>> \/ (spc[s] = "ready" /\ result[s] = k)
               PROVE  FALSE
    BY <1>1 DEF Held
  <2>1. Owed(s) = k
    BY OwedLemma DEF Dispatching, Owes, Result
  <2> QED
    BY <1>5, <2>1, NoneLemma
<1>15. Stored'
  <2>1. got' = [k \in Steps |-> <<>>]
    BY <1>1, <1>3 DEF Stored
  <2>2. /\ \A k \in Steps : file'[1 + k] = Length[k] /\ \A i \in Place(k) : file'[i] = k
        /\ file'[0] = NRuns
    BY <1>1, <1>3 DEF Stored
  <2> QED
    BY <1>7, <1>14, <2>1, <2>2 DEF Stored, Array
<1> QED
  BY <1>1, <1>3, <1>5, <1>6, <1>8, <1>9, <1>11, <1>12, <1>13, <1>15 DEF Dispatching

-----------------------------------------------------------------------------
(* The specification.                                                      *)

LEMMA InitInv == MSInit => MSIInv
<1> SUFFICES ASSUME MSInit
             PROVE  MSIInv
  OBVIOUS
<1>1. /\ mpc = LoopStart(NRuns) /\ nsteps = NRuns /\ next = 0 /\ nstopped = 0 /\ caught = {}
      /\ phase[Master] = "open"
      /\ \A s \in Slave : /\ spc[s] = "ready" /\ result[s] = None /\ mq[s] = <<>> /\ sq[s] = <<>>
                          /\ phase[s] = "write" /\ Owed(s) = None
  BY MasterAssumption DEF MSInit, DispatchInit, Proc, Owed
<1>2. Types
  <2>1. <<>> \in Seq(Result) /\ None \in Int
    BY DEF None
  <2>2. file \in [0..(NRuns + Slot*NRuns) -> Int] /\ lengths \in [Steps -> Nat]
    BY DEF MSInit, Hole
  <2>3. /\ spc \in [Slave -> {"ready", "wait", "work", "over"}] /\ task \in [Slave -> Int]
        /\ result \in [Slave -> Result] /\ mq \in [Slave -> Seq(Result)] /\ sq \in [Slave -> Seq(Result)]
    BY <2>1, NoneLemma DEF MSInit, DispatchInit
  <2>4. phase \in [Proc -> Phase]
    BY DEF MSInit, Phase
  <2>5. mpc \in {"recv", "final"} /\ next \in 0..NRuns
    BY <1>1, NRunsAssumption DEF LoopStart
  <2> QED
    BY <1>1, <2>2, <2>3, <2>4, <2>5 DEF Types
<1>3. Places
  BY <1>1 DEF Places
<1>4. Loop
  <2>1. {s \in Slave : Stopped(s)} = {}
    BY <1>1 DEF Stopped, Again
  <2>2. Cardinality({}) = 0
    BY FS_EmptySet
  <2>3. (mpc = "recv" => next < NRuns) /\ (mpc = "final" => next = NRuns) /\ mpc \in {"recv", "final"}
    BY <1>1, NRunsAssumption DEF LoopStart
  <2> QED
    BY <1>1, <2>1, <2>2, <2>3 DEF Loop
<1>5. Phases
  BY <1>1 DEF Phases, Again
<1>6. Sharing
  BY <1>1 DEF Sharing
<1>7. Stored
  <2>1. \A k \in Steps : ~Held(k)
    BY <1>1, NoneLemma DEF Held
  <2>2. got = [k \in Steps |-> <<>>]
    BY DEF MSInit
  <2>3. ~Written /\ ~Again(Master)
    BY <1>1 DEF Written, Again
  <2> QED
    BY <1>1, <2>1, <2>2, <2>3 DEF Stored
<1> QED
  BY <1>2, <1>3, <1>4, <1>5, <1>6, <1>7 DEF MSIInv, Dispatching

\* A step that changes no variable.
LEMMA StutterInv ==
  ASSUME MSIInv, UNCHANGED iovars
  PROVE  MSIInv' /\ Unseen
<1> USE DEF MSIInv
<1>1. UNCHANGED <<dvars, phase, file, lengths, got>>
  BY DEF iovars
<1>2. UNCHANGED <<mpc, nsteps, next, nstopped, caught, spc, task, result, mq, sq>>
  BY <1>1 DEF dvars, mvars, svars
<1>3. Phases'
  BY <1>1, <1>2 DEF Dispatching, Phases, Again, Fresh
<1>4. /\ file' \in [0..(NRuns + Slot*NRuns) -> Int] /\ phase' \in [Proc -> Phase]
      /\ \A p \in Proc : Again(p)' <=> Again(p)
  BY <1>1 DEF Dispatching, Types, Again
<1>5. Dispatching' /\ Unseen /\ \A k \in Steps : Held(k)' <=> Held(k)
  BY <1>1, <1>3, <1>4, PhaseKeeps
<1>6. Stored'
  BY <1>1, <1>5, StoredKept DEF Written, Again, Stored, Unseen
<1> QED
  BY <1>5, <1>6

LEMMA NextInv == MSIInv /\ [MSNext]_iovars => MSIInv'
<1> SUFFICES ASSUME MSIInv, [MSNext]_iovars
             PROVE  MSIInv'
  OBVIOUS
<1>1. CASE MasterStep
  BY <1>1, WriteCountInv, DispatchInv, StopInv, WriteLengthsInv, MasterReadsInv, LeavesLoopInv
  DEF MasterStep, Proc
<1>2. CASE MasterSendReturns \/ MasterWaitAll
  BY <1>2, GoesOnInv
<1>3. ASSUME NEW s \in Slave, SlaveStep(s)
      PROVE  MSIInv'
  BY <1>3, SlaveMessageInv, WriteRunInv, LeavesLoopInv, SlaveReadsInv, ReadRunInv
  DEF SlaveStep, Proc
<1>4. CASE UNCHANGED iovars
  BY <1>4, StutterInv
<1> QED
  BY <1>1, <1>2, <1>3, <1>4 DEF MSNext, MSTerminating

LEMMA Invariance == MSSpec => []MSIInv
BY InitInv, NextInv, PTL DEF MSSpec

-----------------------------------------------------------------------------
(* What is promised of it.                                                 *)

(* The variables keep their types, the master stops no more slaves than    *)
(* there are, and it and each slave take turns in sending.                 *)
THEOREM MSTypes == MSSpec => []MSInv
<1>1. ASSUME MSIInv
      PROVE  MSInv
  <2> USE <1>1 DEF MSIInv, Dispatching
  <2>1. nstopped \in 0..Cardinality(Slave)
    <3> DEFINE S == {s \in Slave : Stopped(s)}
    <3>1. IsFiniteSet(S) /\ Cardinality(S) <= Cardinality(Slave)
      BY SlaveAssumption, FS_Subset
    <3>2. Cardinality(S) \in Nat /\ Cardinality(Slave) \in Nat
      BY <3>1, SlaveAssumption, FS_CardinalityType
    <3>3. nstopped = Cardinality(S)
      BY DEF Loop
    <3> QED
      BY <3>1, <3>2, <3>3
  <2>2. Result \subseteq Int
    BY NRunsAssumption DEF Result, Steps, None
  <2>3. ASSUME NEW s \in Slave
        PROVE  mq[s] \in Seq(Int) /\ sq[s] \in Seq(Int) /\ result[s] \in Int
    <3>1. <<>> \in Seq(Int) /\ \A x \in Int : <<x>> \in Seq(Int)
      OBVIOUS
    <3> QED
      BY <2>2, <3>1 DEF Places, Types
  <2>4. nsteps \in Nat /\ next \in 0..nsteps /\ caught \subseteq 0..nsteps-1
    BY NRunsAssumption DEF Types
  <2>5. DispatchTypeOK
    BY <2>1, <2>3, <2>4 DEF DispatchTypeOK, Types
  <2>6. TakeTurns
    BY TakeTurnsLemma
  <2> QED
    BY <2>5, <2>6 DEF MSInv, Types, Phase
<1> QED
  BY <1>1, Invariance, PTL

(* No rank reads the file before nruns and the lengths of all runs are in  *)
(* it, those that came with the cleanup loop included.                     *)
THEOREM HeaderBeforeReading == MSSpec => []HeaderComplete
<1>1. ASSUME MSIInv
      PROVE  HeaderComplete
  <2> SUFFICES ASSUME NEW p \in Proc, phase[p] \in {"read", "return"}
               PROVE  file[0] = NRuns /\ \A k \in Steps : file[1 + k] = Length[k]
    BY DEF HeaderComplete
  <2>1. Written
    BY <1>1 DEF MSIInv, Dispatching, Phases, Again, Written, Proc
  <2> QED
    BY <1>1, <2>1 DEF MSIInv, Stored, Written
<1> QED
  BY <1>1, Invariance, PTL

(* When all ranks have returned from read() each run has been read once,   *)
(* and with the values that were written for it.                           *)
THEOREM RunsReadBack == MSSpec => []ReadBack
<1>1. ASSUME MSIInv
      PROVE  ReadBack
  <2> SUFFICES ASSUME AllReturned, NEW k \in Steps
               PROVE  got[k] = <<Array(k)>>
    BY DEF ReadBack, Array
  <2>1. phase[Master] = "return"
    BY DEF AllReturned, Proc
  <2>2. k \in caught
    BY <1>1, <2>1, AllCaught DEF MSIInv, Dispatching, Phases
  <2> QED
    BY <1>1, <2>1, <2>2 DEF MSIInv, Stored, Again, Held
<1> QED
  BY <1>1, Invariance, PTL

(* When a rank is let through the barrier, no message of write() is left   *)
(* that read(), with the same communicator and tags, could take for its    *)
(* own.                                                                    *)
THEOREM UsesOfLoopSeparate == MSSpec => []NothingLeftAtBarrier
<1>1. ASSUME MSIInv
      PROVE  NothingLeftAtBarrier
  <2> SUFFICES ASSUME NEW p \in Proc, PassBarrier(p), NEW s \in Slave, phase[s] # "read"
               PROVE  mq[s] = <<>> /\ sq[s] = <<>>
    BY DEF NothingLeftAtBarrier
  <2>1. spc[s] = "over"
    BY <1>1 DEF PassBarrier, Proc, MSIInv, Dispatching, Phases
  <2> QED
    BY <1>1, <2>1 DEF MSIInv, Dispatching, Places
<1> QED
  BY <1>1, Invariance, PTL

(* "we can infer completion with the subsequent recv": a slave that gets   *)
(* its instructions has had its isend received, though it never waits.     *)
THEOREM IsendsComplete == MSSpec => IsendCompleted
<1>1. ASSUME MSIInv, [MSNext]_iovars
      PROVE  [\A s \in Slave : sq'[s] # sq[s] /\ spc'[s] # spc[s] => mq[s] = <<>>]_dvars
  <2> SUFFICES ASSUME NEW s \in Slave, sq'[s] # sq[s], spc'[s] # spc[s]
               PROVE  mq[s] = <<>>
    OBVIOUS
  <2>1. CASE Instructed(s)
    BY <1>1, <2>1, InInstruction DEF Instructed, MSIInv, Dispatching
  <2>2. ASSUME NEW t \in Slave, t # s, Instructed(t)
        PROVE  sq'[s] = sq[s]
    BY <1>1, <2>2 DEF Instructed, MSIInv, Dispatching, Types
  <2>3. CASE UNCHANGED sq \/ UNCHANGED spc
    BY <2>3
  <2>4. MasterStep => UNCHANGED sq \/ UNCHANGED spc
    BY DEF MasterStep, WriteCount, DispatchWrite, StopWrite, DispatchRead, StopRead, WriteLengths,
           MasterReads, Return, Dispatch, Stop, RestartMaster, dvars, svars
  <2>5. MasterSendReturns \/ MasterWaitAll => UNCHANGED sq
    BY DEF MasterSendReturns, MasterWaitAll, SendReturns, WaitAll
  <2>6. ASSUME NEW t \in Slave, SlaveStep(t)
        PROVE  UNCHANGED sq \/ Instructed(t)
    BY <2>6 DEF SlaveStep, SlaveSignals, SlaveInstructed, WriteRun, SlaveWrote, SlaveReads, ReadRun,
           Return, Signal, WorkDone, RestartSlave, dvars
  <2>7. UNCHANGED iovars => UNCHANGED sq
    BY DEF iovars, dvars
  <2> QED
    BY <1>1, <2>1, <2>2, <2>3, <2>4, <2>5, <2>6, <2>7 DEF MSNext, MSTerminating
<1> QED
  BY <1>1, Invariance, PTL DEF MSSpec, IsendCompleted

(* The loops hand out the runs as a pool of tasks: each to one slave, each *)
(* result caught, in write() before the master begins with read().         *)
THEOREM PoolRefinement == MSSpec => ImplementsPool
<1>1. MSInit => Pool!Init
  <2> SUFFICES ASSUME MSInit
               PROVE  Pool!Init
    OBVIOUS
  <2>1. next = 0 /\ nsteps = NRuns /\ caught = {} /\ \A s \in Slave : Owed(s) = None
    BY DEF MSInit, DispatchInit, Owed
  <2> QED
    BY <2>1 DEF Pool!Init, Steps
<1>2. ASSUME MSIInv, [MSNext]_iovars
      PROVE  [Pool!Next]_(Pool!vars)
  <2> DEFINE todo == next..nsteps-1
             doing == [s \in Slave |-> Owed(s)]
  <2>0. nsteps = NRuns /\ next \in 0..NRuns
    BY <1>2 DEF MSIInv, Dispatching, Types
  <2>1. ASSUME NEW s \in Slave, DispatchWrite(s) \/ DispatchRead(s)
        PROVE  Pool!Take(s)
    <3>1. /\ Dispatch(s) /\ Owed(s)' = next /\ \A t \in Slave \ {s} : Owed(t)' = Owed(t)
          /\ caught' = caught \union ({Owed(s)} \ {None})
      BY <1>2, <2>1, DispatchInv
    <3>2. next < NRuns /\ next' = next + 1 /\ nsteps' = nsteps
      BY <1>2, <3>1 DEF Dispatch, MSIInv, Dispatching, Loop
    <3>3. next \in todo /\ todo' = todo \ {next}
      BY <2>0, <3>2, NRunsAssumption
    <3>4. doing' = [doing EXCEPT ![s] = next]
      BY <3>1
    <3>5. caught' = Pool!In(s)
      BY <3>1 DEF Pool!In
    <3> QED
      BY <3>3, <3>4, <3>5 DEF Pool!Take
  <2>2. ASSUME NEW s \in Slave, StopWrite(s) \/ StopRead(s)
        PROVE  Pool!Rest(s)
    <3>1. /\ Stop(s) /\ Owed(s)' = None /\ \A t \in Slave \ {s} : Owed(t)' = Owed(t)
          /\ caught' = caught \union ({Owed(s)} \ {None}) /\ next = NRuns
      BY <1>2, <2>2, StopInv
    <3>2. todo = {} /\ todo' = todo
      BY <2>0, <3>1, NRunsAssumption DEF Stop
    <3>3. doing' = [doing EXCEPT ![s] = None]
      BY <3>1
    <3>4. caught' = Pool!In(s)
      BY <3>1 DEF Pool!In
    <3> QED
      BY <3>2, <3>3, <3>4 DEF Pool!Rest
  <2>3. ASSUME MasterReads
        PROVE  Pool!NextBatch
    <3>1. /\ next = NRuns /\ next' = 0 /\ nsteps' = NRuns /\ caught' = {}
          /\ \A t \in Slave : Owed(t) = None /\ Owed(t)' = None
      BY <1>2, <2>3, MasterReadsInv
    <3>2. todo = {} /\ todo' = Steps
      BY <2>0, <3>1, NRunsAssumption DEF Steps
    <3> QED
      BY <3>1, <3>2 DEF Pool!NextBatch
  <2>4. ASSUME Unseen
        PROVE  UNCHANGED Pool!vars
    BY <2>4 DEF Unseen, Pool!vars
  <2>5. CASE MasterStep
    BY <1>2, <2>1, <2>2, <2>3, <2>4, <2>5, WriteCountInv, WriteLengthsInv, LeavesLoopInv
    DEF MasterStep, Proc, Pool!Next
  <2>6. CASE MasterSendReturns \/ MasterWaitAll
    BY <1>2, <2>4, <2>6, GoesOnInv
  <2>7. ASSUME NEW s \in Slave, SlaveStep(s)
        PROVE  UNCHANGED Pool!vars
    BY <1>2, <2>4, <2>7, SlaveMessageInv, WriteRunInv, LeavesLoopInv, SlaveReadsInv, ReadRunInv
    DEF SlaveStep, Proc
  <2>8. CASE UNCHANGED iovars
    BY <1>2, <2>4, <2>8, StutterInv
  <2> QED
    BY <1>2, <2>5, <2>6, <2>7, <2>8 DEF MSNext, MSTerminating
<1> QED
  BY <1>1, <1>2, Invariance, PTL DEF MSSpec, ImplementsPool, Pool!Spec
=============================================================================
