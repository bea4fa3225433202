------------------------ MODULE ParallelProgramProof ------------------------
(***************************************************************************)
(* What the ranks of ParallelProgram may rely on, whatever texts they      *)
(* execute: nobody is past a blocking collective operation in which        *)
(* everyone waits for everyone before all have entered it.  The barriers   *)
(* of the benchmarks, and with them what they measure, rest on this.  From *)
(* that, if there is a plan for their texts, that their collective         *)
(* operations match, whatever errors of validation they find.  That the    *)
(* counters by which they wait for their requests count what waits.  And,  *)
(* if there is a chart of their texts, that their one-sided operations are *)
(* covered, and ordered against those who use the memory; that a message   *)
(* is received by the receive it is meant for; that what is timed has      *)
(* happened when the clock stops; and that nothing is left at the end.     *)
(* Behind it, the arithmetic by which two programs of the playground, the  *)
(* ring and the reader of a shared file, find their partners and shares.   *)
(***************************************************************************)
EXTENDS MessageChart, PlaygroundPrograms, FiniteSetTheorems, NaturalsInduction,
        WellFoundedInduction, TLAPS

Record == [line : Nat, flag : BOOLEAN]

Types ==
  /\ world \in World
  /\ pc \in [Rank -> Nat \ {0}]
  /\ inside \in [Rank -> BOOLEAN]
  /\ err \in [Rank -> BOOLEAN]
  /\ calls \in [Rank -> Seq(Record)]

(* The records of a rank point to collective operations in its text. *)
Recorded ==
  \A r \in Rank : \A k \in 1 .. Len(calls[r]) :
    /\ calls[r][k].line \in 1 .. Len(Text(r))
    /\ Call(r, k).k \in {"Coll", "Icoll"}

(* A rank is inside an operation that has two ends: a collective one, which *)
(* is then the last it has recorded, or a blocking send or receive.        *)
Busy ==
  \A r \in Rank : inside[r] =>
    /\ ~Finished(r)
    /\ \/ At(r).k \in {"Send", "Recv"}
       \/ /\ At(r).k = "Coll" /\ calls[r] # <<>>
          /\ calls[r][Len(calls[r])].line = pc[r]

Within(r, k) == inside[r] /\ At(r).k = "Coll" /\ k = Len(calls[r])

(* A rank that has entered its k-th collective operation, a blocking one,  *)
(* and is no longer within it, has seen everyone enter it whom it waits    *)
(* for.  (MPI_Abort ends the ranks wherever they are.)                     *)
Seen(r, k) ==
  /\ Call(r, k).sort = "all" => \A q \in Rank : Entered(q, k)
  /\ Call(r, k).sort = "from" => Entered(Call(r, k).root, k)

Separated ==
  Running => \A r \in Rank : \A k \in 1 .. Len(calls[r]) :
    Call(r, k).k = "Coll" /\ ~Within(r, k) => Seen(r, k)

SepIInv == Types /\ Recorded /\ Busy /\ Separated

---------------------------------------------------------------------------
LEMMA TextLemma ==
  ASSUME Types, NEW r \in Rank
  PROVE  /\ Len(Text(r)) \in Nat
         /\ ~Finished(r) => pc[r] \in 1 .. Len(Text(r))
         /\ \A p \in 1 .. Len(Text(r)) :
              /\ Text(r)[p].k = "Break" => Text(r)[p].by \in Nat
              /\ Text(r)[p].k = "Goto" => Text(r)[p].back \in 0 .. p - 1
              /\ Text(r)[p].k \in {"Coll", "Icoll"} =>
                   /\ {"k", "sort", "root", "errors"} \subseteq DOMAIN Text(r)[p]
                   /\ Text(r)[p].root \in Rank
              /\ Text(r)[p].k \in {"Send", "Recv", "Isend", "Irecv"} => Text(r)[p].peer \in Rank
  <1>1. Len(Text(r)) \in Nat
    BY CodeAssumption DEF Types, Rank, Text
  <1>2. ~Finished(r) => pc[r] \in 1 .. Len(Text(r))
    BY <1>1 DEF Types, Finished
  <1>3. \A p \in 1 .. Len(Text(r)) :
          /\ Text(r)[p].k = "Break" => Text(r)[p].by \in Nat
          /\ Text(r)[p].k = "Goto" => Text(r)[p].back \in 0 .. p - 1
          /\ Text(r)[p].k \in {"Coll", "Icoll"} =>
               /\ {"k", "sort", "root", "errors"} \subseteq DOMAIN Text(r)[p]
               /\ Text(r)[p].root \in Rank
          /\ Text(r)[p].k \in {"Send", "Recv", "Isend", "Irecv"} => Text(r)[p].peer \in Rank
    BY CodeAssumption DEF Types, Rank, Text
  <1> QED
    BY <1>1, <1>2, <1>3

(* The operations a rank has entered, and their roots. *)
LEMMA RootLemma ==
  ASSUME Types, Recorded, NEW r \in Rank, NEW k \in 1 .. Len(calls[r])
  PROVE  /\ calls[r][k] \in Record /\ calls[r][k].line \in 1 .. Len(Text(r))
         /\ Call(r, k) = Text(r)[calls[r][k].line]
         /\ Call(r, k).k \in {"Coll", "Icoll"} /\ Call(r, k).root \in Rank
         /\ {"k", "sort", "root", "errors"} \subseteq DOMAIN Call(r, k)
  <1>1. calls[r][k] \in Record
    BY DEF Types
  <1>2. calls[r][k].line \in 1 .. Len(Text(r)) /\ Call(r, k).k \in {"Coll", "Icoll"}
    BY DEF Recorded
  <1> QED
    BY <1>1, <1>2, TextLemma DEF Call

(* Going on by a number of instructions. *)
LEMMA AdvanceLemma ==
  ASSUME Types, NEW r \in Rank, NEW n \in Int, pc[r] + n > 0, Advance(r, n)
  PROVE  /\ pc' \in [Rank -> Nat \ {0}]
         /\ \A q \in Rank \ {r} : pc'[q] = pc[q]
  BY DEF Types, Advance

---------------------------------------------------------------------------
(* A step of a rank that is not at a blocking collective operation and     *)
(* enters none: whatever it does, only its own place changes.              *)
Aside(r) ==
  /\ ~Finished(r) /\ At(r).k # "Coll"
  /\ world' = world /\ calls' = calls
  /\ pc' \in [Rank -> Nat \ {0}]
  /\ inside' \in [Rank -> BOOLEAN]
  /\ err' \in [Rank -> BOOLEAN]
  /\ \A q \in Rank \ {r} : pc'[q] = pc[q] /\ inside'[q] = inside[q]
  /\ inside'[r] => pc'[r] = pc[r] /\ At(r).k \in {"Send", "Recv"}

LEMMA AsideKeeps ==
  ASSUME SepIInv, NEW r \in Rank, Aside(r)
  PROVE  SepIInv'
  <1>1. Rank' = Rank /\ \A q : Text(q)' = Text(q)
    BY DEF Aside, Rank, Text
  <1>2. Types'
    BY <1>1 DEF SepIInv, Types, Aside
  <1>3. Recorded'
    BY <1>1 DEF SepIInv, Recorded, Call, Aside
  <1>5. Busy'
    <2>1. SUFFICES ASSUME NEW q \in Rank, inside'[q]
                   PROVE  /\ ~Finished(q)'
                          /\ \/ At(q)'.k \in {"Send", "Recv"}
                             \/ /\ At(q)'.k = "Coll" /\ calls[q] # <<>>
                                /\ calls[q][Len(calls[q])].line = pc'[q]
      BY <1>1 DEF Busy, Aside
    <2>2. pc'[q] = pc[q] /\ At(q)' = At(q) /\ Finished(q)' = Finished(q)
      BY <1>1, <2>1 DEF Aside, At, Finished
    <2>3. CASE q = r
      BY <2>1, <2>2, <2>3 DEF Aside
    <2>4. CASE q # r
      BY <2>1, <2>2, <2>4 DEF Aside, SepIInv, Busy
    <2> QED
      BY <2>3, <2>4
  <1>4. Separated'
    <2>0. Running
      BY DEF Aside, Running
    <2>1. SUFFICES ASSUME NEW q \in Rank, NEW k \in 1 .. Len(calls[q]),
                          Call(q, k).k = "Coll", ~Within(q, k)'
                   PROVE  Seen(q, k)
      BY <1>1 DEF Separated, Call, Entered, Seen, Aside
    <2>2. CASE q = r
      BY <2>0, <2>1, <2>2 DEF Aside, SepIInv, Separated, Within
    <2>3. CASE q # r
      <3>1. ~Within(q, k)
        BY <1>1, <2>1, <2>3 DEF Aside, Within, At
      <3> QED
        BY <2>0, <2>1, <3>1 DEF SepIInv, Separated
    <2> QED
      BY <2>2, <2>3
  <1> QED
    BY <1>2, <1>3, <1>4, <1>5 DEF SepIInv

(* The steps of this kind, one by one. *)
LEMMA PostTypes ==
  ASSUME Types, NEW r \in Rank, NEW i, PostSend(r, i) \/ PostReceive(r, i)
  PROVE  err' \in [Rank -> BOOLEAN]
  <1>1. ASSUME NEW from, NEW to, NEW m, NEW x, Match(from, to, m, x)
        PROVE  err' \in [Rank -> BOOLEAN]
    BY <1>1 DEF Match, Types
  <1>2. CASE PostSend(r, i)
    BY <1>1, <1>2 DEF PostSend, Types
  <1>3. CASE PostReceive(r, i)
    BY <1>1, <1>3 DEF PostReceive, Types
  <1> QED
    BY <1>2, <1>3

LEMMA AsideSteps ==
  ASSUME SepIInv, NEW r \in Rank,
         \/ WaitForCollective(r) \/ PollCollective(r)
         \/ StartMessage(r) \/ EnterMessage(r) \/ LeaveMessage(r) \/ WaitForMessages(r)
         \/ Issue(r) \/ FlushOps(r) \/ LockTargets(r) \/ UnlockTargets(r)
         \/ ActiveTarget(r) \/ Alone(r)
  PROVE  Aside(r)
  <1> USE DEF SepIInv
  <1>0. Types /\ pc[r] \in Nat \ {0} /\ inside \in [Rank -> BOOLEAN]
        /\ err \in [Rank -> BOOLEAN]
        /\ (inside[r] => At(r).k \in {"Coll", "Send", "Recv"})
    BY DEF Types, Busy
  <1>1. ASSUME Advance(r, 1)
        PROVE  /\ pc' \in [Rank -> Nat \ {0}]
               /\ \A q \in Rank \ {r} : pc'[q] = pc[q]
    BY <1>0, <1>1, AdvanceLemma
  <1>2. CASE WaitForCollective(r)
    BY <1>0, <1>1, <1>2 DEF WaitForCollective, Aside, Runs
  <1>3. CASE PollCollective(r)
    BY <1>0, <1>1, <1>3 DEF PollCollective, Aside, Runs
  <1>4. CASE StartMessage(r)
    <2>1. err' \in [Rank -> BOOLEAN]
      BY <1>0, <1>4, PostTypes DEF StartMessage
    <2> QED
      BY <1>0, <1>1, <1>4, <2>1 DEF StartMessage, collectives, Aside, Runs
  <1>5. CASE EnterMessage(r)
    <2>1. err' \in [Rank -> BOOLEAN]
      BY <1>0, <1>5, PostTypes DEF EnterMessage
    <2>2. pc' = pc /\ pc \in [Rank -> Nat \ {0}]
      BY <1>5 DEF EnterMessage, Types
    <2> QED
      BY <1>0, <1>5, <2>1, <2>2 DEF EnterMessage, collectives, Aside, Runs
  <1>6. CASE LeaveMessage(r)
    BY <1>0, <1>1, <1>6 DEF LeaveMessage, collectives, Aside, Runs
  <1>7. CASE WaitForMessages(r)
    BY <1>0, <1>1, <1>7 DEF WaitForMessages, collectives, Aside, Runs
  <1>8. CASE Issue(r)
    BY <1>0, <1>1, <1>8 DEF Issue, collectives, Aside, Runs
  <1>9. CASE FlushOps(r)
    BY <1>0, <1>1, <1>9 DEF FlushOps, collectives, Aside, Runs
  <1>10. CASE LockTargets(r)
    BY <1>0, <1>1, <1>10 DEF LockTargets, collectives, Aside, Runs
  <1>11. CASE UnlockTargets(r)
    BY <1>0, <1>1, <1>11 DEF UnlockTargets, collectives, Aside, Runs
  <1>12. CASE ActiveTarget(r)
    <2>1. Advance(r, 1) /\ UNCHANGED <<world, inside, err, calls>>
      BY <1>12 DEF ActiveTarget, collectives
    <2>2. ~Finished(r) /\ At(r).k \notin {"Coll", "Send", "Recv"}
      BY <1>12 DEF ActiveTarget, Runs
    <2> QED
      BY <1>0, <1>1, <2>1, <2>2 DEF Aside
  <1>13. CASE Alone(r)
    <2>1. UNCHANGED <<world, inside, calls>>
      BY <1>13 DEF Alone, collectives
    <2>2. ~Finished(r) /\ At(r).k \notin {"Coll", "Send", "Recv"}
      BY <1>13 DEF Alone, Runs
    <2>3. err' \in [Rank -> BOOLEAN]
      BY <1>0, <1>13 DEF Alone
    <2>4. PICK n \in Int : Advance(r, n) /\ pc[r] + n > 0
      <3>1. CASE Runs(r, "Goto") /\ Advance(r, -At(r).back)
        <4>1. At(r).back \in 0 .. pc[r] - 1
          BY <3>1, <1>0, TextLemma DEF At, Runs
        <4> QED
          BY <3>1, <4>1, <1>0
      <3>2. CASE Runs(r, "Break") /\ Advance(r, IF err[r] THEN At(r).by ELSE 1)
        <4>1. At(r).by \in Nat
          BY <3>2, <1>0, TextLemma DEF At, Runs
        <4> QED
          BY <3>2, <4>1, <1>0
      <3>3. CASE Advance(r, 1)
        BY <3>3, <1>0
      <3> QED
        BY <1>13, <3>1, <3>2, <3>3 DEF Alone, Runs
    <2>5. /\ pc' \in [Rank -> Nat \ {0}]
          /\ \A q \in Rank \ {r} : pc'[q] = pc[q]
      BY <1>0, <2>4, AdvanceLemma
    <2> QED
      BY <1>0, <2>1, <2>2, <2>3, <2>5 DEF Aside
  <1> QED
    BY <1>2, <1>3, <1>4, <1>5, <1>6, <1>7, <1>8, <1>9, <1>10, <1>11, <1>12, <1>13

---------------------------------------------------------------------------
(* Entering a collective operation, blocking or not. *)
LEMMA EnterLemma ==
  ASSUME SepIInv, NEW r \in Rank, ~Finished(r), At(r).k \in {"Coll", "Icoll"},
         world' = world, Enter(r)
  PROVE  /\ Rank' = Rank /\ \A q : Text(q)' = Text(q)
         /\ calls' \in [Rank -> Seq(Record)]
         /\ Recorded'
         /\ \A q \in Rank \ {r} : calls'[q] = calls[q]
         /\ Len(calls'[r]) = Len(calls[r]) + 1
         /\ \A k \in 1 .. Len(calls[r]) : calls'[r][k] = calls[r][k]
         /\ calls'[r][Len(calls[r]) + 1].line = pc[r]
         /\ \A q \in Rank, k \in Nat : Entered(q, k) => Entered(q, k)'
  <1>1. Rank' = Rank /\ \A q : Text(q)' = Text(q)
    BY DEF Rank, Text
  <1> DEFINE record == [line |-> pc[r], flag |-> err[r]]
  <1>2. record \in Record /\ calls[r] \in Seq(Record) /\ calls \in [Rank -> Seq(Record)]
    BY DEF SepIInv, Types, Record
  <1>3. calls' = [calls EXCEPT ![r] = Append(calls[r], record)]
    BY DEF Enter
  <1>4. record.line = pc[r]
    OBVIOUS
  <1> HIDE DEF record
  <1>5. /\ calls' \in [Rank -> Seq(Record)]
        /\ \A q \in Rank \ {r} : calls'[q] = calls[q]
        /\ calls'[r] = Append(calls[r], record)
    <2>1. Append(calls[r], record) \in Seq(Record)
      BY <1>2
    <2>2. calls' \in [Rank -> Seq(Record)]
      BY <1>2, <1>3, <2>1
    <2>3. (\A q \in Rank \ {r} : calls'[q] = calls[q]) /\ calls'[r] = Append(calls[r], record)
      BY <1>2, <1>3
    <2> QED
      BY <2>2, <2>3
  <1>6. /\ Len(calls'[r]) = Len(calls[r]) + 1
        /\ \A k \in 1 .. Len(calls[r]) : calls'[r][k] = calls[r][k]
        /\ calls'[r][Len(calls[r]) + 1] = record
        /\ Len(calls[r]) \in Nat
    BY <1>2, <1>5
  <1>7. \A q \in Rank, k \in Nat : Entered(q, k) => Entered(q, k)'
    BY <1>5, <1>6 DEF Entered
  <1>8. Recorded'
    <2>1. SUFFICES ASSUME NEW q \in Rank, NEW k \in 1 .. Len(calls'[q])
                   PROVE  /\ calls'[q][k].line \in 1 .. Len(Text(q))
                          /\ Text(q)[calls'[q][k].line].k \in {"Coll", "Icoll"}
      BY <1>1 DEF Recorded, Call
    <2>2. CASE q # r \/ k <= Len(calls[r])
      <3>1. k \in 1 .. Len(calls[q]) /\ calls'[q][k] = calls[q][k]
        BY <2>1, <2>2, <1>5, <1>6
      <3> QED
        BY <3>1 DEF SepIInv, Recorded, Call
    <2>3. CASE q = r /\ k = Len(calls[r]) + 1
      <3>1. calls'[q][k].line = pc[r]
        BY <2>3, <1>4, <1>6
      <3>2. pc[r] \in 1 .. Len(Text(r))
        BY TextLemma DEF SepIInv
      <3> QED
        BY <2>3, <3>1, <3>2 DEF At
    <2> QED
      BY <2>1, <2>2, <2>3, <1>6
  <1> QED
    BY <1>1, <1>4, <1>5, <1>6, <1>7, <1>8

(* Nothing that others have seen is undone, and the rank itself has not    *)
(* passed what it enters.                                                  *)
LEMMA EnterSeparated ==
  ASSUME SepIInv, NEW r \in Rank, ~Finished(r), At(r).k \in {"Coll", "Icoll"},
         world' = world, Enter(r),
         \A q \in Rank \ {r} : pc'[q] = pc[q] /\ inside'[q] = inside[q],
         At(r).k = "Coll" => ~inside[r] /\ inside'[r] = TRUE /\ pc'[r] = pc[r]
  PROVE  Separated'
  <1>0. Len(calls[r]) \in Nat
    BY DEF SepIInv, Types
  <1>1. SUFFICES ASSUME NEW q \in Rank, NEW k \in 1 .. Len(calls'[q]),
                        Call(q, k)'.k = "Coll", ~Within(q, k)'
                 PROVE  Seen(q, k)'
    BY EnterLemma DEF Separated
  <1>a. ASSUME ~Within(q, k), k \in 1 .. Len(calls[q]), Call(q, k)' = Call(q, k)
        PROVE  Seen(q, k)'
    <2>1. Seen(q, k)
      BY <1>1, <1>a DEF SepIInv, Separated, Running
    <2>2. Call(q, k).root \in Rank
      BY <1>1, <1>a, RootLemma DEF SepIInv
    <2> QED
      BY <1>a, <2>1, <2>2, EnterLemma DEF Seen
  <1>2. CASE q # r
    <2>1. ~Within(q, k) /\ k \in 1 .. Len(calls[q]) /\ Call(q, k)' = Call(q, k)
      BY <1>1, <1>2, EnterLemma DEF Within, At, Call
    <2> QED
      BY <2>1, <1>a
  <1>3. CASE q = r /\ k <= Len(calls[r])
    <2>1. ~Within(q, k) /\ k \in 1 .. Len(calls[q]) /\ Call(q, k)' = Call(q, k)
      BY <1>0, <1>1, <1>3, EnterLemma DEF Within, Call
    <2> QED
      BY <2>1, <1>a
  <1>4. CASE q = r /\ k = Len(calls[r]) + 1
    <2>1. Call(r, k)' = At(r)
      BY <1>4, EnterLemma DEF Call, At
    <2>2. At(r)' = At(r) /\ inside'[r] /\ k = Len(calls'[r])
      BY <1>1, <1>4, <2>1, EnterLemma DEF At
    <2> QED
      BY <1>1, <1>4, <2>1, <2>2 DEF Within
  <1> QED
    BY <1>0, <1>1, <1>2, <1>3, <1>4, EnterLemma

LEMMA EnterBusy ==
  ASSUME SepIInv, NEW r \in Rank, ~Finished(r), At(r).k \in {"Coll", "Icoll"},
         world' = world, Enter(r),
         \A q \in Rank \ {r} : pc'[q] = pc[q] /\ inside'[q] = inside[q],
         inside'[r] => At(r).k = "Coll" /\ pc'[r] = pc[r]
  PROVE  Busy'
  <1>1. SUFFICES ASSUME NEW q \in Rank, inside'[q]
                 PROVE  /\ ~Finished(q)'
                        /\ \/ At(q)'.k \in {"Send", "Recv"}
                           \/ /\ At(q)'.k = "Coll" /\ calls'[q] # <<>>
                              /\ calls'[q][Len(calls'[q])].line = pc'[q]
    BY EnterLemma DEF Busy
  <1>2. At(q)' = At(q) /\ pc'[q] = pc[q] /\ Finished(q)' = Finished(q)
    BY <1>1, EnterLemma DEF At, Finished
  <1>3. CASE q # r
    BY <1>1, <1>2, <1>3, EnterLemma DEF SepIInv, Busy
  <1>4. CASE q = r
    <2>1. calls'[r] # <<>> /\ calls'[r][Len(calls'[r])].line = pc[r]
      <3>1. Len(calls'[r]) = Len(calls[r]) + 1 /\ Len(calls[r]) \in Nat
        BY EnterLemma DEF SepIInv, Types
      <3>2. calls'[r] # <<>>
        BY <3>1
      <3> QED
        BY <3>1, <3>2, EnterLemma
    <2> QED
      BY <1>1, <1>2, <1>4, <2>1
  <1> QED
    BY <1>3, <1>4

LEMMA EnterSteps ==
  ASSUME SepIInv, NEW r \in Rank, EnterCollective(r) \/ StartCollective(r)
  PROVE  SepIInv'
  <1>1. CASE EnterCollective(r)
    <2>1. /\ ~Finished(r) /\ At(r).k \in {"Coll", "Icoll"} /\ Enter(r) /\ world' = world
          /\ pc' = pc /\ err' = err /\ inside' = [inside EXCEPT ![r] = TRUE]
          /\ At(r).k = "Coll" /\ ~inside[r]
      BY <1>1 DEF EnterCollective, Runs
    <2>2. \A q \in Rank \ {r} : inside'[q] = inside[q]
      BY <2>1 DEF SepIInv, Types
    <2>3. inside'[r] = TRUE /\ inside' \in [Rank -> BOOLEAN]
      BY <2>1 DEF SepIInv, Types
    <2>4. Separated'
      BY <2>1, <2>2, <2>3, EnterSeparated
    <2>5. Rank' = Rank /\ calls' \in [Rank -> Seq(Record)] /\ Recorded'
      BY <2>1, EnterLemma
    <2>6. Types'
      BY <2>1, <2>3, <2>5 DEF SepIInv, Types
    <2>7. Busy'
      BY <2>1, <2>2, EnterBusy
    <2> QED
      BY <2>4, <2>5, <2>6, <2>7 DEF SepIInv
  <1>2. CASE StartCollective(r)
    <2>1. /\ ~Finished(r) /\ At(r).k = "Icoll" /\ Enter(r) /\ world' = world
          /\ inside' = inside /\ err' = err /\ Advance(r, 1)
      BY <1>2 DEF StartCollective, Runs
    <2>2. pc' \in [Rank -> Nat \ {0}] /\ \A q \in Rank \ {r} : pc'[q] = pc[q]
      <3>1. pc[r] + 1 > 0
        BY DEF SepIInv, Types
      <3> QED
        BY <2>1, <3>1, AdvanceLemma DEF SepIInv
    <2>3. At(r).k \in {"Coll", "Icoll"} /\ At(r).k # "Coll"
      BY <2>1
    <2>4. Separated'
      BY <2>1, <2>2, <2>3, EnterSeparated
    <2>5. Rank' = Rank /\ calls' \in [Rank -> Seq(Record)] /\ Recorded'
      BY <2>1, <2>3, EnterLemma
    <2>6. Types'
      BY <2>1, <2>2, <2>5 DEF SepIInv, Types
    <2>7. Busy'
      <3>1. ~inside[r]
        BY <2>1 DEF SepIInv, Busy
      <3> QED
        BY <2>1, <2>2, <2>3, <3>1, EnterBusy
    <2> QED
      BY <2>4, <2>5, <2>6, <2>7 DEF SepIInv
  <1> QED
    BY <1>1, <1>2

(* What a rank learns of errors is a truth value. *)
LEMMA LearntLemma ==
  ASSUME SepIInv, NEW r \in Rank, NEW k \in 1 .. Len(calls[r]), MayReturn(r, k)
  PROVE  Learnt(r, k) \in BOOLEAN
  <1> DEFINE c == Call(r, k)
  <1>1. c.root \in Rank
    BY RootLemma DEF SepIInv
  <1>2. CASE ~c.errors \/ (c.sort = "to" /\ r # c.root)
    <2>1. Learnt(r, k) = err[r]
      BY <1>2 DEF Learnt
    <2> QED
      BY <2>1 DEF SepIInv, Types
  <1>3. CASE ~(~c.errors \/ (c.sort = "to" /\ r # c.root)) /\ c.sort = "from"
    <2>1. Learnt(r, k) = calls[c.root][k].flag
      BY <1>3 DEF Learnt
    <2>2. Entered(c.root, k)
      BY <1>3 DEF MayReturn
    <2>3. calls[c.root] \in Seq(Record) /\ calls[r] \in Seq(Record)
      BY <1>1 DEF SepIInv, Types
    <2>4. k \in 1 .. Len(calls[c.root])
      BY <2>2, <2>3 DEF Entered
    <2>5. calls[c.root][k] \in Record
      BY <2>3, <2>4
    <2> QED
      BY <2>1, <2>5 DEF Record
  <1>4. CASE ~(~c.errors \/ (c.sort = "to" /\ r # c.root)) /\ c.sort # "from"
    <2>1. Learnt(r, k) = \E q \in Rank : calls[q][k].flag
      BY <1>4 DEF Learnt
    <2> QED
      BY <2>1
  <1> QED
    BY <1>2, <1>3, <1>4

LEMMA LeaveSteps ==
  ASSUME SepIInv, NEW r \in Rank, LeaveCollective(r)
  PROVE  SepIInv'
  <1> DEFINE last == Len(calls[r])
  <1>1. /\ ~Finished(r) /\ At(r).k = "Coll" /\ inside[r]
        /\ MayReturn(r, last) /\ err' = [err EXCEPT ![r] = Learnt(r, last)]
        /\ inside' = [inside EXCEPT ![r] = FALSE] /\ Advance(r, 1)
        /\ world' = world /\ calls' = calls
    BY DEF LeaveCollective, Runs, collectives
  <1>2. Rank' = Rank /\ \A q : Text(q)' = Text(q)
    BY <1>1 DEF Rank, Text
  <1>3. last \in 1 .. Len(calls[r])
    <2>1. calls[r] # <<>> /\ calls[r] \in Seq(Record)
      BY <1>1 DEF SepIInv, Types, Busy
    <2> QED
      BY <2>1
  <1>4. pc' \in [Rank -> Nat \ {0}] /\ \A q \in Rank \ {r} : pc'[q] = pc[q]
    <2>1. pc[r] + 1 > 0
      BY DEF SepIInv, Types
    <2> QED
      BY <1>1, <2>1, AdvanceLemma DEF SepIInv
  <1>5. Types'
    <2>1. Learnt(r, last) \in BOOLEAN
      BY <1>1, <1>3, LearntLemma
    <2>2. err' \in [Rank -> BOOLEAN] /\ inside' \in [Rank -> BOOLEAN]
      BY <1>1, <2>1 DEF SepIInv, Types
    <2> QED
      BY <1>1, <1>2, <1>4, <2>2 DEF SepIInv, Types
  <1>6. Recorded'
    BY <1>1, <1>2 DEF SepIInv, Recorded, Call
  <1>7. Separated'
    <2>0. Running
      BY <1>1 DEF Running
    <2>1. SUFFICES ASSUME NEW q \in Rank, NEW k \in 1 .. Len(calls[q]),
                          Call(q, k).k = "Coll", ~Within(q, k)'
                   PROVE  Seen(q, k)
      BY <1>1, <1>2 DEF Separated, Call, Entered, Seen
    <2>2. CASE q # r
      <3>1. inside'[q] = inside[q]
        BY <1>1, <2>2 DEF SepIInv, Types
      <3>2. ~Within(q, k)
        BY <1>1, <1>2, <1>4, <2>1, <2>2, <3>1 DEF Within, At
      <3> QED
        BY <2>0, <2>1, <3>2 DEF SepIInv, Separated
    <2>3. CASE q = r /\ k # last
      BY <2>0, <1>1, <2>1, <2>3 DEF SepIInv, Separated, Within
    <2>4. CASE q = r /\ k = last
      BY <1>1, <2>1, <2>4 DEF MayReturn, Seen
    <2> QED
      BY <2>2, <2>3, <2>4
  <1>8. Busy'
    <2>1. ~inside'[r]
      BY <1>1 DEF SepIInv, Types
    <2>2. ASSUME NEW q \in Rank \ {r}
          PROVE  /\ inside'[q] = inside[q] /\ At(q)' = At(q) /\ pc'[q] = pc[q]
                 /\ Finished(q)' = Finished(q)
      BY <1>1, <1>2, <1>4 DEF SepIInv, Types, At, Finished
    <2> QED
      BY <1>1, <1>2, <2>1, <2>2 DEF SepIInv, Busy
  <1> QED
    BY <1>5, <1>6, <1>7, <1>8 DEF SepIInv

(* MPI_Abort: every rank has ended. *)
LEMMA AbortSteps ==
  ASSUME SepIInv, NEW r \in Rank, AbortAll(r)
  PROVE  SepIInv'
  <1>1. /\ pc' = [q \in Rank |-> Len(Text(q)) + 1] /\ inside' = [q \in Rank |-> FALSE]
        /\ world' = world /\ calls' = calls /\ err' = err
    BY DEF AbortAll, collectives
  <1>2. Rank' = Rank /\ \A q : Text(q)' = Text(q)
    BY <1>1 DEF Rank, Text
  <1>3. \A q \in Rank : Len(Text(q)) \in Nat
    BY TextLemma DEF SepIInv
  <1>4. Types'
    <2>1. pc' \in [Rank -> Nat \ {0}] /\ inside' \in [Rank -> BOOLEAN]
      BY <1>1, <1>3
    <2> QED
      BY <1>1, <1>2, <2>1 DEF SepIInv, Types
  <1>5. Recorded'
    BY <1>1, <1>2 DEF SepIInv, Recorded, Call
  <1>6. Separated'
    <2>1. \A q \in Rank : Finished(q)'
      BY <1>1, <1>2, <1>3 DEF Finished
    <2> QED
      BY <1>2, <2>1 DEF Separated, Running
  <1>7. Busy'
    BY <1>1, <1>2 DEF Busy
  <1> QED
    BY <1>4, <1>5, <1>6, <1>7 DEF SepIInv

---------------------------------------------------------------------------
LEMMA InitSep == Init => SepIInv
  <1> SUFFICES ASSUME Init PROVE SepIInv
    OBVIOUS
  <1>1. Types
    BY DEF Init, Types
  <1>2. \A r \in Rank : calls[r] = <<>> /\ ~inside[r]
    BY DEF Init
  <1>3. Recorded /\ Separated
    BY <1>2 DEF Recorded, Separated
  <1>4. Busy
    BY <1>2 DEF Busy
  <1> QED
    BY <1>1, <1>3, <1>4 DEF SepIInv

LEMMA NextSep == SepIInv /\ [Next]_vars => SepIInv'
  <1> SUFFICES ASSUME SepIInv, [Next]_vars PROVE SepIInv'
    OBVIOUS
  <1>1. ASSUME NEW r \in Rank, Step(r) PROVE SepIInv'
    <2>1. CASE EnterCollective(r) \/ StartCollective(r)
      BY <2>1, EnterSteps
    <2>2. CASE LeaveCollective(r)
      BY <2>2, LeaveSteps
    <2>3. CASE AbortAll(r)
      BY <2>3, AbortSteps
    <2>4. CASE \/ WaitForCollective(r) \/ PollCollective(r)
               \/ StartMessage(r) \/ EnterMessage(r) \/ LeaveMessage(r) \/ WaitForMessages(r)
               \/ Issue(r) \/ FlushOps(r) \/ LockTargets(r) \/ UnlockTargets(r)
               \/ ActiveTarget(r) \/ Alone(r)
      BY <2>4, AsideSteps, AsideKeeps
    <2> QED
      BY <1>1, <2>1, <2>2, <2>3, <2>4 DEF Step
  <1>2. CASE UNCHANGED vars
    <2>1. world' = world /\ pc' = pc /\ inside' = inside /\ err' = err /\ calls' = calls
      BY <1>2 DEF vars
    <2>2. Rank' = Rank /\ (\A q : Text(q)' = Text(q)) /\ (\A q : At(q)' = At(q))
          /\ (\A q : Finished(q)' = Finished(q))
      BY <2>1 DEF Rank, Text, At, Finished
    <2>3. Types' /\ Recorded' /\ Busy'
      BY <2>1, <2>2 DEF SepIInv, Types, Recorded, Busy, Call
    <2>4. Separated'
      BY <2>1, <2>2 DEF SepIInv, Separated, Running, Seen, Within, Call, Entered
    <2> QED
      BY <2>3, <2>4 DEF SepIInv
  <1> QED
    BY <1>1, <1>2 DEF Next, Done

(* In every run of every program, for any number of ranks: nobody gets     *)
(* past a barrier, or another blocking collective operation of its kind,   *)
(* before everyone has entered it, nor past a broadcast before its root.   *)
THEOREM Separation == Spec => []Separated
  <1>1. SepIInv => Separated
    BY DEF SepIInv
  <1> QED
    BY InitSep, NextSep, <1>1, PTL DEF Spec

---------------------------------------------------------------------------
(* Matching collective operations.  Besides keeping to the plan, the ranks *)
(* send messages that carry no errors.                                     *)
Sends(r) == {Text(r)[p] : p \in {m \in 1 .. Len(Text(r)) : Text(r)[m].k \in {"Send", "Isend"}}}
Plain == {[tag |-> i.tag, at |-> i.at, group |-> i.group, flag |-> FALSE] :
            i \in UNION {Sends(r) : r \in Rank}}
Flagless == net \in [Rank \X Rank -> Seq(Plain)]
PlanIInv(plan) == PlanInv(plan) /\ Flagless

---------------------------------------------------------------------------
(* Operations that have one number are the same.                           *)
LEMMA SameFields ==
  ASSUME Types, Recorded, NEW r \in Rank, NEW q \in Rank,
         NEW k \in 1 .. Len(calls[r]), NEW l \in 1 .. Len(calls[q]),
         SameCall(Call(r, k), Call(q, l))
  PROVE  /\ Call(r, k).k = Call(q, l).k /\ Call(r, k).sort = Call(q, l).sort
         /\ Call(r, k).root = Call(q, l).root /\ Call(r, k).errors = Call(q, l).errors
         /\ Shares(Call(r, k)) <=> Shares(Call(q, l))
  <1> DEFINE c == Call(r, k)
             d == Call(q, l)
  <1>1. /\ {"k", "sort", "root", "errors"} \subseteq DOMAIN c
        /\ {"k", "sort", "root", "errors"} \subseteq DOMAIN d
    BY RootLemma
  <1>2. [c EXCEPT !.reduction = ""] = [d EXCEPT !.reduction = ""]
    BY DEF SameCall
  <1> HIDE DEF c, d
  <1>3. ASSUME NEW f \in {"k", "sort", "root", "errors"}
        PROVE  c[f] = d[f]
    BY <1>1, <1>2
  <1>4. c.k = d.k /\ c.sort = d.sort /\ c.root = d.root /\ c.errors = d.errors
    BY <1>3
  <1> QED
    BY <1>4 DEF c, d, Shares

LEMMA PlannedLemma ==
  ASSUME Types, NEW plan, Planned(world, plan), NEW r \in Rank, NEW q \in Rank
  PROVE  /\ Followed(world, plan, r)
         /\ Parallel(world, plan, r, q)
         /\ plan.next[r][1][FALSE] = plan.next[q][1][FALSE]
         /\ \A p \in 1 .. Len(Text(r)) : ~CarriesErrors(Text(r)[p])
  BY DEF Planned, Rank, Line, Text

LEMMA SameLemma ==
  ASSUME SepIInv, NEW plan, Planned(world, plan), Numbered(plan),
         NEW r \in Rank, NEW q \in Rank, NEW k \in 1 .. Len(calls[r]), Entered(q, k)
  PROVE  LET p == calls[r][k].line
             m == calls[q][k].line
         IN  /\ SameCall(Call(r, k), Call(q, k))
             /\ plan.agreed[r][p] <=> plan.agreed[q][m]
             /\ SentAlike(plan, r, p + 1, q, m + 1)
  <1>1. k \in 1 .. Len(calls[q])
    BY DEF SepIInv, Types, Entered
  <1> DEFINE p == calls[r][k].line
             m == calls[q][k].line
  <1>2. /\ p \in Line(world, r) /\ m \in Line(world, q)
        /\ Call(r, k) = Code[world][r][p] /\ Call(q, k) = Code[world][q][m]
        /\ Collects(Code[world][r][p]) /\ Collects(Code[world][q][m])
    BY <1>1, RootLemma DEF SepIInv, Line, Text, Collects
  <1>3. Number(plan, r, p) = Number(plan, q, m)
    BY DEF Numbered
  <1>4. Parallel(world, plan, r, q)
    BY PlannedLemma DEF SepIInv
  <1> HIDE DEF p, m
  <1>5. /\ SameCall(Code[world][r][p], Code[world][q][m])
        /\ plan.agreed[r][p] <=> plan.agreed[q][m]
        /\ SentAlike(plan, r, p + 1, q, m + 1)
    BY <1>2, <1>3, <1>4 DEF Parallel
  <1> QED
    BY <1>2, <1>5 DEF p, m

(* Ranks with equally many operations are sent to the same number.         *)
LEMMA SameWay ==
  ASSUME SepIInv, NEW plan, Planned(world, plan), Numbered(plan), Unanimous(plan), Running,
         NEW r \in Rank, NEW q \in Rank, NEW k \in Nat, Entered(r, k), Entered(q, k)
  PROVE  /\ plan.next[r][Behind(r, k)][Verdict(r, k)] = plan.next[q][Behind(q, k)][Verdict(q, k)]
         /\ (k > 0 => plan.agreed[r][Behind(r, k)]) => (Verdict(r, k) <=> Verdict(q, k))
  <1>1. CASE k = 0
    BY <1>1, PlannedLemma DEF SepIInv, Behind, Verdict
  <1>2. CASE k > 0
    <2>1. k \in 1 .. Len(calls[r]) /\ k \in 1 .. Len(calls[q])
      BY <1>2 DEF SepIInv, Types, Entered
    <2>a. SentAlike(plan, r, calls[r][k].line + 1, q, calls[q][k].line + 1)
      BY <2>1, SameLemma
    <2> DEFINE p == Behind(r, k)
               m == Behind(q, k)
               u == Verdict(r, k)
               v == Verdict(q, k)
    <2>b. k # 0
      BY <1>2
    <2>2. p = calls[r][k].line + 1 /\ m = calls[q][k].line + 1
      BY <2>b, Zenon DEF Behind
    <2> HIDE DEF p, m
    <2>3. /\ \A e \in BOOLEAN : plan.next[r][p][e] = plan.next[q][m][e]
          /\ plan.next[r][p][TRUE] = plan.next[r][p][FALSE] \/ plan.agreed[r][p]
      <3>1. SentAlike(plan, r, p, q, m)
        BY <2>a, <2>2, Zenon
      <3> QED
        BY <3>1 DEF SentAlike
    <2>4. plan.agreed[r][p] => (u <=> v)
      BY <2>1, <2>2 DEF Unanimous
    <2>5. u \in BOOLEAN /\ v \in BOOLEAN
      BY <1>2, <2>1, RootLemma DEF SepIInv, Verdict, Record
    <2> HIDE DEF u, v
    <2>6. plan.next[r][p][u] = plan.next[q][m][v]
      <3>1. CASE plan.agreed[r][p]
        BY <2>3, <2>4, <2>5, <3>1
      <3>2. CASE plan.next[r][p][TRUE] = plan.next[r][p][FALSE]
        BY <2>3, <2>5, <3>2
      <3> QED
        BY <2>3, <3>1, <3>2
    <2> QED
      BY <1>2, <2>4, <2>6 DEF p, m, u, v
  <1> QED
    BY <1>1, <1>2

---------------------------------------------------------------------------
(* Entering a collective operation.                                        *)
Entering(r) ==
  /\ ~Finished(r) /\ Collects(At(r)) /\ ~InCollective(r)
  /\ world' = world /\ err' = err /\ Enter(r)
  /\ \A q \in Rank \ {r} : pc'[q] = pc[q] /\ inside'[q] = inside[q]
  /\ \/ At(r).k = "Coll" /\ inside'[r] /\ pc'[r] = pc[r]
     \/ At(r).k = "Icoll" /\ ~inside'[r] /\ pc'[r] = pc[r] + 1

LEMMA EnteringLemma ==
  ASSUME SepIInv, NEW r \in Rank, Entering(r)
  PROVE  /\ Rank' = Rank /\ \A q : Text(q)' = Text(q)
         /\ \A q \in Rank \ {r} : calls'[q] = calls[q]
         /\ Len(calls[r]) \in Nat /\ Len(calls'[r]) = Len(calls[r]) + 1
         /\ \A k \in 1 .. Len(calls[r]) : calls'[r][k] = calls[r][k]
         /\ calls'[r][Len(calls[r]) + 1].line = pc[r]
         /\ calls'[r][Len(calls[r]) + 1].flag = err[r]
         /\ Call(r, Len(calls[r]))' = At(r)
         /\ \A q \in Rank, k \in Nat : Entered(q, k) => Entered(q, k)'
         /\ \A q \in Rank : \A k \in 1 .. Len(calls[q]) :
              calls'[q][k] = calls[q][k] /\ Call(q, k)' = Call(q, k)
         /\ Running
  <1>1. /\ Rank' = Rank /\ \A q : Text(q)' = Text(q)
        /\ \A q \in Rank \ {r} : calls'[q] = calls[q]
        /\ Len(calls[r]) \in Nat /\ Len(calls'[r]) = Len(calls[r]) + 1
        /\ \A k \in 1 .. Len(calls[r]) : calls'[r][k] = calls[r][k]
        /\ calls'[r][Len(calls[r]) + 1].line = pc[r]
        /\ \A q \in Rank, k \in Nat : Entered(q, k) => Entered(q, k)'
    BY EnterLemma DEF Entering, Collects, SepIInv, Types
  <1>2. calls'[r][Len(calls[r]) + 1].flag = err[r]
    <2>1. calls' = [calls EXCEPT ![r] = Append(calls[r], [line |-> pc[r], flag |-> err[r]])]
      BY DEF Entering, Enter
    <2>2. calls[r] \in Seq(Record) /\ calls \in [Rank -> Seq(Record)]
      BY DEF SepIInv, Types
    <2> DEFINE entry == [line |-> pc[r], flag |-> err[r]]
    <2>3. entry.flag = err[r]
      OBVIOUS
    <2> HIDE DEF entry
    <2>4. calls'[r] = Append(calls[r], entry)
      BY <2>1, <2>2 DEF entry
    <2>5. entry \in Record
      BY DEF entry, Record, SepIInv, Types
    <2>6. calls'[r][Len(calls[r]) + 1] = entry
      BY <2>2, <2>4, <2>5
    <2> QED
      BY <2>3, <2>6
  <1>3. Call(r, Len(calls[r]))' = At(r)
    BY <1>1 DEF Call, At
  <1>4. \A q \in Rank : \A k \in 1 .. Len(calls[q]) :
          calls'[q][k] = calls[q][k] /\ Call(q, k)' = Call(q, k)
    <2>1. ASSUME NEW q \in Rank, NEW k \in 1 .. Len(calls[q])
          PROVE  calls'[q][k] = calls[q][k]
      BY <1>1
    <2> QED
      BY <1>1, <2>1 DEF Call
  <1> QED
    BY <1>1, <1>2, <1>3, <1>4 DEF Entering, Running

LEMMA VerdictType ==
  ASSUME SepIInv, NEW r \in Rank, NEW k \in 0 .. Len(calls[r])
  PROVE  Verdict(r, k) \in BOOLEAN
  <1>1. CASE k = 0
    BY <1>1 DEF Verdict
  <1>2. CASE k # 0
    <2>1. k \in 1 .. Len(calls[r])
      BY <1>2 DEF SepIInv, Types
    <2> QED
      BY <1>2, <2>1, RootLemma DEF SepIInv, Verdict, Record
  <1> QED
    BY <1>1, <1>2

(* What a rank knows from the operations it is through with is settled:    *)
(* all who have a say in it have entered them.                             *)
LEMMA VerdictStays ==
  ASSUME SepIInv, NEW r \in Rank, Entering(r), NEW q \in Rank,
         NEW k \in 0 .. Len(calls[q]), k = Len(calls[q]) => ~InCollective(q)
  PROVE  Verdict(q, k)' = Verdict(q, k) /\ Behind(q, k)' = Behind(q, k)
  <1>1. CASE k = 0
    BY <1>1 DEF Verdict, Behind
  <1>2. CASE k # 0
    <2>0. k \in 1 .. Len(calls[q])
      BY <1>2 DEF SepIInv, Types
    <2>1. calls'[q][k] = calls[q][k] /\ Call(q, k)' = Call(q, k) /\ Rank' = Rank /\ Running
      BY <2>0, EnteringLemma
    <2>2. Behind(q, k)' = Behind(q, k)
      BY <1>2, <2>1 DEF Behind
    <2> DEFINE c == Call(q, k)
    <2>3. CASE ~Shares(c)
      BY <1>2, <2>1, <2>2, <2>3 DEF Verdict
    <2>4. CASE Shares(c)
      <3>1. ~Within(q, k)
        BY DEF Within, InCollective
      <3>2. Seen(q, k)
        BY <2>0, <2>1, <2>4, <3>1 DEF SepIInv, Separated, Shares
      <3>3. ASSUME NEW p \in Rank, c.sort = "from" => p = c.root
            PROVE  Entered(p, k)
        BY <2>4, <3>2, <3>3 DEF Seen, Shares
      <3>4. ASSUME NEW p \in Rank, c.sort = "from" => p = c.root
            PROVE  Entered(p, k) /\ Entered(p, k)' /\ calls'[p][k] = calls[p][k]
        <4>1. Entered(p, k) /\ k \in 1 .. Len(calls[p])
          BY <2>0, <3>3, <3>4 DEF Entered, SepIInv, Types
        <4> QED
          BY <4>1, EnteringLemma
      <3>5. Verdict(q, k) = \E p \in Rank :
              (c.sort = "from" => p = c.root) /\ Entered(p, k) /\ calls[p][k].flag
        BY <1>2, <2>4 DEF Verdict
      <3>6. Verdict(q, k)' = \E p \in Rank :
              (c.sort = "from" => p = c.root) /\ Entered(p, k)' /\ calls'[p][k].flag
        BY <1>2, <2>1, <2>4 DEF Verdict
      <3>7. Verdict(q, k) <=> Verdict(q, k)'
        BY <3>4, <3>5, <3>6
      <3> QED
        BY <2>2, <3>5, <3>6, <3>7
    <2> QED
      BY <2>3, <2>4
  <1> QED
    BY <1>1, <1>2

LEMMA EnteringWays ==
  ASSUME SepIInv, NEW plan, Ways(plan), NEW r \in Rank, Entering(r)
  PROVE  Ways(plan)'
  <1>0. Running /\ \A q \in Rank : Came(plan, q) /\ Comes(plan, q)
    BY EnteringLemma DEF Ways
  <1>1. ASSUME NEW q \in Rank, NEW k \in 0 .. Len(calls[q]), NEW p, NEW e,
               k = Len(calls[q]) => ~InCollective(q), OnTheWay(plan, q, k, p, e)
        PROVE  Leads(plan, q, k, Behind(q, k)', Verdict(q, k)', p, e)
    <2>1. Verdict(q, k)' = Verdict(q, k) /\ Behind(q, k)' = Behind(q, k)
      BY <1>1, VerdictStays
    <2> QED
      BY <1>1, <2>1 DEF OnTheWay
  <1>2. PICK n \in Nat : n = Len(calls[r])
    BY EnteringLemma
  <1>3. Leads(plan, r, n, Behind(r, n)', Verdict(r, n)', pc[r], err[r])
    <2>1. OnTheWay(plan, r, n, pc[r], err[r]) /\ ~InCollective(r)
      BY <1>0, <1>2 DEF Comes, Entering
    <2> QED
      BY <1>1, <1>2, <2>1
  <1>4. ASSUME NEW q \in Rank
        PROVE  Came(plan, q)'
    <2>1. SUFFICES ASSUME NEW k \in 1 .. Len(calls'[q])
                   PROVE  Leads(plan, q, k - 1, Behind(q, k - 1)', Verdict(q, k - 1)',
                                calls'[q][k].line, calls'[q][k].flag)
      BY DEF Came, OnTheWay
    <2>2. CASE k \in 1 .. Len(calls[q])
      <3>1. OnTheWay(plan, q, k - 1, calls[q][k].line, calls[q][k].flag)
        BY <1>0, <2>2 DEF Came
      <3>2. k - 1 \in 0 .. Len(calls[q]) /\ k - 1 # Len(calls[q])
        BY <2>2 DEF SepIInv, Types
      <3>3. calls'[q][k] = calls[q][k]
        BY <2>2, EnteringLemma
      <3> QED
        BY <1>1, <3>1, <3>2, <3>3
    <2>3. CASE q = r /\ k = n + 1
      BY <1>2, <1>3, <2>3, EnteringLemma
    <2> QED
      BY <1>2, <2>1, <2>2, <2>3, EnteringLemma
  <1>5. ASSUME NEW q \in Rank
        PROVE  Comes(plan, q)'
    <2>0. SUFFICES ASSUME ~Finished(q)', ~InCollective(q)'
                   PROVE  OnTheWay(plan, q, Len(calls[q]), pc[q], err[q])'
      BY DEF Comes
    <2>1. CASE q # r
      <3>1. /\ pc'[q] = pc[q] /\ err'[q] = err[q] /\ calls'[q] = calls[q]
            /\ ~Finished(q) /\ ~InCollective(q)
        BY <2>0, <2>1, EnteringLemma DEF Entering, Finished, InCollective, At
      <3>2. PICK k \in Nat : k = Len(calls[q])
        BY DEF SepIInv, Types
      <3>3. Leads(plan, q, k, Behind(q, k)', Verdict(q, k)', pc[q], err[q])
        BY <1>0, <1>1, <3>1, <3>2 DEF Comes
      <3> QED
        BY <3>1, <3>2, <3>3 DEF OnTheWay
    <2>2. CASE q = r
      <3>1. At(r).k = "Icoll" /\ pc'[r] = pc[r] + 1
        BY <2>0, <2>2, EnteringLemma DEF Entering, InCollective, At
      <3>2. ~Shares(At(r))
        BY <3>1 DEF Shares
      <3>3. Len(calls'[r]) # 0
        BY EnteringLemma
      <3>5. /\ calls'[r][Len(calls'[r])].flag = err[r]
            /\ calls'[r][Len(calls'[r])].line = pc[r]
            /\ Call(r, Len(calls[r]))' = At(r)
        BY EnteringLemma
      <3>4. Verdict(r, Len(calls[r]))' = err[r] /\ Behind(r, Len(calls[r]))' = pc[r] + 1
        BY <3>2, <3>3, <3>5 DEF Verdict, Behind
      <3> QED
        BY <2>2, <3>1, <3>4 DEF OnTheWay, Leads, Entering
    <2> QED
      BY <2>1, <2>2
  <1> QED
    BY <1>4, <1>5, EnteringLemma DEF Ways

(* Whoever has entered as many operations has come from an operation of    *)
(* the same number, and so to one.                                         *)
LEMMA EnteringNumbered ==
  ASSUME SepIInv, NEW plan, Planned(world, plan), Numbered(plan), Ways(plan), Unanimous(plan),
         NEW r \in Rank, Entering(r)
  PROVE  Numbered(plan)'
  <1>0. Running /\ \A q \in Rank : Came(plan, q) /\ Comes(plan, q)
    BY EnteringLemma DEF Ways
  <1>1. PICK n \in Nat : n = Len(calls[r])
    BY EnteringLemma
  <1> DEFINE Nr(q, k) == Number(plan, q, calls'[q][k].line)
  <1>2. ASSUME NEW q \in Rank \ {r}, n + 1 \in 1 .. Len(calls[q])
        PROVE  Nr(r, n + 1) = Nr(q, n + 1)
    <2> DEFINE p == pc[r]
               m == calls[q][n + 1].line
               e == err[r]
               f == calls[q][n + 1].flag
    <2>1. calls'[r][n + 1].line = p /\ calls'[q][n + 1].line = m
      BY <1>1, <1>2, EnteringLemma
    <2>2. OnTheWay(plan, r, n, p, e)
      BY <1>0, <1>1 DEF Comes, Entering
    <2>3. OnTheWay(plan, q, n, m, f)
      BY <1>0, <1>2 DEF Came
    <2>4. plan.next[r][Behind(r, n)][Verdict(r, n)] = plan.next[q][Behind(q, n)][Verdict(q, n)]
      <3>1. Entered(r, n) /\ Entered(q, n)
        BY <1>1, <1>2 DEF Entered, SepIInv, Types
      <3> QED
        BY <1>0, <3>1, SameWay
    <2>5. plan.next[r][p][e] = Number(plan, r, p)
      <3>1. p \in Line(world, r) /\ Collects(Code[world][r][p]) /\ e \in BOOLEAN
        BY TextLemma DEF SepIInv, Types, Entering, Line, At, Text
      <3>2. Followed(world, plan, r)
        BY PlannedLemma DEF SepIInv
      <3> QED
        BY <3>1, <3>2 DEF Followed
    <2>6. plan.next[q][m][f] = Number(plan, q, m)
      <3>1. m \in Line(world, q) /\ Collects(Code[world][q][m]) /\ f \in BOOLEAN
        BY <1>2, RootLemma DEF SepIInv, Line, Text, Collects, Record
      <3>2. Followed(world, plan, q)
        BY PlannedLemma DEF SepIInv
      <3> QED
        BY <3>1, <3>2 DEF Followed
    <2> HIDE DEF p, m, e, f
    <2>7. Number(plan, r, p) = Number(plan, q, m)
      BY <2>2, <2>3, <2>4, <2>5, <2>6 DEF OnTheWay, Leads
    <2> QED
      BY <2>1, <2>7
  <1>3. ASSUME NEW q \in Rank, NEW s \in Rank,
               NEW k \in 1 .. Len(calls[q]), k \in 1 .. Len(calls[s])
        PROVE  Nr(q, k) = Nr(s, k)
    <2>1. calls'[q][k] = calls[q][k] /\ calls'[s][k] = calls[s][k]
      BY <1>3, EnteringLemma
    <2>2. Entered(s, k)
      BY <1>3 DEF Entered
    <2> QED
      BY <1>3, <2>1, <2>2 DEF Numbered
  <1> HIDE DEF Nr
  <1>4. ASSUME NEW q \in Rank, NEW s \in Rank,
               NEW k \in 1 .. Len(calls'[q]), k \in 1 .. Len(calls'[s])
        PROVE  Nr(q, k) = Nr(s, k)
    <2>1. ASSUME NEW x \in Rank, k \in 1 .. Len(calls'[x])
          PROVE  k \in 1 .. Len(calls[x]) \/ (x = r /\ k = n + 1)
      BY <1>1, <2>1, EnteringLemma
    <2>2. k \in 1 .. Len(calls[q]) \/ (q = r /\ k = n + 1)
      BY <2>1
    <2>3. k \in 1 .. Len(calls[s]) \/ (s = r /\ k = n + 1)
      BY <1>4, <2>1
    <2>4. CASE k \in 1 .. Len(calls[q]) /\ k \in 1 .. Len(calls[s])
      BY <1>3, <2>4
    <2>5. CASE k = n + 1
      BY <1>1, <1>2, <2>2, <2>3, <2>5
    <2> QED
      BY <2>2, <2>3, <2>4, <2>5
  <1>5. \A q \in Rank : Len(calls'[q]) \in Nat
    BY EnteringLemma DEF SepIInv, Types
  <1>6. Rank' = Rank
    BY EnteringLemma
  <1> QED
    <2>1. SUFFICES ASSUME NEW q \in Rank, NEW s \in Rank,
                          NEW k \in 1 .. Len(calls'[q]), Entered(s, k)'
                   PROVE  Nr(q, k) = Nr(s, k)
      BY <1>6 DEF Numbered, Nr
    <2>2. k \in 1 .. Len(calls'[s])
      BY <1>5, <2>1 DEF Entered
    <2> QED
      BY <1>4, <2>2

(* Operations of one number are the same: on the texts.                    *)
LEMMA AlikeLemma ==
  ASSUME NEW w \in World, NEW plan, Planned(w, plan),
         NEW r \in DOMAIN Code[w], NEW q \in DOMAIN Code[w],
         NEW p \in Line(w, r), NEW m \in Line(w, q),
         Collects(Code[w][r][p]), Collects(Code[w][q][m]),
         Number(plan, r, p) = Number(plan, q, m)
  PROVE  /\ plan.agreed[r][p] <=> plan.agreed[q][m]
         /\ Code[w][r][p].sort = Code[w][q][m].sort
         /\ Code[w][r][p].root = Code[w][q][m].root
         /\ Shares(Code[w][r][p]) <=> Shares(Code[w][q][m])
         /\ plan.agreed[r][p + 1] /\ ~Shares(Code[w][r][p]) => plan.agreed[r][p]
  <1> DEFINE i == Code[w][r][p]
             j == Code[w][q][m]
  <1>1. SameCall(i, j) /\ (plan.agreed[r][p] <=> plan.agreed[q][m])
    BY DEF Planned, Parallel
  <1>2. /\ {"k", "sort", "root", "errors"} \subseteq DOMAIN i
        /\ {"k", "sort", "root", "errors"} \subseteq DOMAIN j
    BY CodeAssumption DEF Line, Collects
  <1>3. plan.agreed[r][p + 1] => Shares(i) \/ plan.agreed[r][p]
    <2>1. Target(i, p, TRUE) = p + 1 /\ p + 1 \in Place(w, r)
      <3>1. Target(i, p, TRUE) = p + 1
        BY DEF Target, Collects
      <3>2. Len(Code[w][r]) \in Nat
        BY CodeAssumption
      <3>3. p + 1 \in Place(w, r)
        BY <3>2 DEF Line, Place
      <3> HIDE DEF i
      <3> QED
        BY <3>1, <3>3, Zenon
    <2>2. Followed(w, plan, r)
      BY DEF Planned
    <2> QED
      BY <2>1, <2>2 DEF Followed
  <1> HIDE DEF i, j
  <1>4. [i EXCEPT !.reduction = ""] = [j EXCEPT !.reduction = ""]
    BY <1>1 DEF SameCall
  <1>5. ASSUME NEW f \in {"k", "sort", "root", "errors"}
        PROVE  i[f] = j[f]
    BY <1>2, <1>4
  <1>6. i.k = j.k /\ i.sort = j.sort /\ i.root = j.root /\ i.errors = j.errors
    BY <1>5
  <1>7. Shares(i) <=> Shares(j)
    BY <1>6 DEF Shares
  <1> QED
    BY <1>1, <1>3, <1>6, <1>7 DEF i, j

(* Who comes from operations of one number with what is agreed comes with  *)
(* the same.                                                               *)
LEMMA EnteringUnanimous ==
  ASSUME SepIInv, NEW plan, Planned(world, plan), Numbered(plan), Ways(plan), Unanimous(plan),
         NEW r \in Rank, Entering(r), SepIInv', Numbered(plan)', Ways(plan)'
  PROVE  Unanimous(plan)'
  <1>0. Running /\ Running' => (\A q \in Rank : Came(plan, q)') /\ Rank' = Rank /\ world' = world
    BY EnteringLemma DEF Ways, Entering
  <1>1. SUFFICES ASSUME Running', NEW q \in Rank, NEW s \in Rank, NEW k \in 1 .. Len(calls'[q]),
                        Entered(s, k)', plan.agreed[q][calls'[q][k].line + 1]
                 PROVE  Verdict(q, k)' <=> Verdict(s, k)'
    BY EnteringLemma DEF Unanimous
  <1>2. /\ Running /\ Rank' = Rank /\ world' = world
        /\ \A x \in Rank : Came(plan, x)'
        /\ \A x : Text(x)' = Code[world][x]
    BY <1>0, <1>1, EnteringLemma DEF Text, Entering
  <1> DEFINE p == calls'[q][k].line
             m == calls'[s][k].line
             i == Code[world][q][p]
             j == Code[world][s][m]
  <1>3. k \in 1 .. Len(calls'[q]) /\ k \in 1 .. Len(calls'[s]) /\ k \in Nat \ {0}
    BY <1>1, <1>2 DEF Entered, SepIInv, Types
  <1>4. ASSUME NEW x \in Rank, k \in 1 .. Len(calls'[x])
        PROVE  /\ calls'[x][k].line \in Line(world, x)
               /\ Collects(Code[world][x][calls'[x][k].line])
               /\ calls'[x][k].flag \in BOOLEAN
               /\ Call(x, k)' = Code[world][x][calls'[x][k].line]
    <2>1. calls'[x][k].line \in Line(world, x) /\ Call(x, k)'.k \in {"Coll", "Icoll"}
      BY <1>2, <1>4 DEF SepIInv, Recorded, Line
    <2>2. calls'[x][k] \in Record
      BY <1>2, <1>4, SMTT(30) DEF SepIInv, Types
    <2>3. Call(x, k)' = Code[world][x][calls'[x][k].line]
      BY <1>2 DEF Call
    <2> QED
      BY <2>1, <2>2, <2>3 DEF Collects, Record
  <1>5. /\ p \in Line(world, q) /\ Collects(i) /\ Call(q, k)' = i
        /\ m \in Line(world, s) /\ Collects(j) /\ Call(s, k)' = j
    BY <1>3, <1>4
  <1>6. Number(plan, q, p) = Number(plan, s, m)
    BY <1>1, <1>2, <1>3 DEF Numbered
  <1>7. /\ plan.agreed[q][p] <=> plan.agreed[s][m]
        /\ i.sort = j.sort /\ i.root = j.root
        /\ Shares(i) <=> Shares(j)
        /\ plan.agreed[q][p + 1] /\ ~Shares(i) => plan.agreed[q][p]
    <2>1. world \in World /\ q \in DOMAIN Code[world] /\ s \in DOMAIN Code[world]
      BY DEF SepIInv, Types, Rank
    <2>2. /\ p \in Line(world, q) /\ Collects(Code[world][q][p])
          /\ m \in Line(world, s) /\ Collects(Code[world][s][m])
          /\ Number(plan, q, p) = Number(plan, s, m)
      BY <1>5, <1>6
    <2> HIDE DEF p, m
    <2>3. /\ plan.agreed[q][p] <=> plan.agreed[s][m]
          /\ Code[world][q][p].sort = Code[world][s][m].sort
          /\ Code[world][q][p].root = Code[world][s][m].root
          /\ Shares(Code[world][q][p]) <=> Shares(Code[world][s][m])
          /\ plan.agreed[q][p + 1] /\ ~Shares(Code[world][q][p]) => plan.agreed[q][p]
      BY <2>1, <2>2, AlikeLemma
    <2> QED
      BY <2>3
  <1>p. p = calls'[q][k].line /\ m = calls'[s][k].line
    OBVIOUS
  <1> HIDE DEF p, m, i, j
  <1>8. CASE Shares(i)
    <2>1. Verdict(q, k)' <=> \E x \in Rank :
            (i.sort = "from" => x = i.root) /\ Entered(x, k)' /\ calls'[x][k].flag
      <3>1. Shares(Call(q, k))' /\ k # 0
        BY <1>3, <1>5, <1>8 DEF Shares
      <3>2. Verdict(q, k)' = \E x \in Rank' :
              (Call(q, k)'.sort = "from" => x = Call(q, k)'.root) /\ Entered(x, k)' /\ calls'[x][k].flag
        BY <3>1 DEF Verdict
      <3> QED
        BY <1>2, <1>5, <3>2
    <2>2. Verdict(s, k)' <=> \E x \in Rank :
            (j.sort = "from" => x = j.root) /\ Entered(x, k)' /\ calls'[x][k].flag
      <3>1. Shares(Call(s, k))' /\ k # 0
        BY <1>3, <1>5, <1>7, <1>8 DEF Shares
      <3>2. Verdict(s, k)' = \E x \in Rank' :
              (Call(s, k)'.sort = "from" => x = Call(s, k)'.root) /\ Entered(x, k)' /\ calls'[x][k].flag
        BY <3>1 DEF Verdict
      <3> QED
        BY <1>2, <1>5, <3>2
    <2>3. i.sort = j.sort /\ i.root = j.root
      BY <1>7
    <2> QED
      BY <2>1, <2>2, <2>3
  <1>9. CASE ~Shares(i)
    <2>1. Verdict(q, k)' = calls'[q][k].flag /\ Verdict(s, k)' = calls'[s][k].flag
      <3>1. ~Shares(Call(q, k))' /\ ~Shares(Call(s, k))' /\ k # 0
        BY <1>3, <1>5, <1>7, <1>9 DEF Shares
      <3> QED
        BY <3>1 DEF Verdict
    <2>2. plan.agreed[q][p] /\ plan.agreed[s][m]
      BY <1>1, <1>7, <1>9, <1>p
    <2>3. PICK l \in Nat : k = l + 1
      BY <1>3
    <2>4. ASSUME NEW x \in Rank, k \in 1 .. Len(calls'[x]),
                 plan.agreed[x][calls'[x][k].line]
          PROVE  /\ calls'[x][k].flag <=> Verdict(x, l)
                 /\ l > 0 => plan.agreed[x][Behind(x, l)]
                 /\ Entered(x, l)
      <3>1. Leads(plan, x, l, Behind(x, l)', Verdict(x, l)', calls'[x][k].line, calls'[x][k].flag)
        BY <1>2, <2>3, <2>4 DEF Came, OnTheWay
      <3>2. l \in 0 .. Len(calls[x]) /\ (l = Len(calls[x]) => ~InCollective(x))
        <4>1. Len(calls[x]) \in Nat
          BY DEF SepIInv, Types
        <4>2. CASE x = r
          <5>1. ~InCollective(x)
            BY <4>2 DEF Entering
          <5>2. Len(calls'[x]) = Len(calls[x]) + 1
            BY <4>2, EnteringLemma
          <5> QED
            BY <2>3, <2>4, <4>1, <5>1, <5>2
        <4>3. CASE x # r
          <5>1. calls'[x] = calls[x]
            BY <4>3, EnteringLemma
          <5> QED
            BY <2>3, <2>4, <4>1, <5>1
        <4> QED
          BY <4>2, <4>3
      <3>3. Verdict(x, l)' = Verdict(x, l) /\ Behind(x, l)' = Behind(x, l)
        BY <3>2, VerdictStays
      <3> QED
        BY <2>4, <3>1, <3>2, <3>3 DEF Leads, Entered
    <2>5. /\ calls'[q][k].flag <=> Verdict(q, l)
          /\ calls'[s][k].flag <=> Verdict(s, l)
          /\ l > 0 => plan.agreed[q][Behind(q, l)]
          /\ Entered(q, l) /\ Entered(s, l)
      BY <1>3, <1>p, <2>2, <2>4
    <2>6. Verdict(q, l) <=> Verdict(s, l)
      BY <1>2, <2>5, SameWay
    <2>7. calls'[q][k].flag \in BOOLEAN /\ calls'[s][k].flag \in BOOLEAN
      BY <1>3, <1>4
    <2>8. calls'[q][k].flag <=> calls'[s][k].flag
      BY <2>5, <2>6
    <2> QED
      BY <2>1, <2>7, <2>8
  <1> QED
    BY <1>8, <1>9

LEMMA EnteringSteps ==
  ASSUME SepIInv, NEW r \in Rank, EnterCollective(r) \/ StartCollective(r)
  PROVE  Entering(r) /\ net' = net
  <1>1. CASE EnterCollective(r)
    <2>1. /\ ~Finished(r) /\ At(r).k = "Coll" /\ ~inside[r] /\ world' = world /\ err' = err
          /\ Enter(r) /\ pc' = pc /\ inside' = [inside EXCEPT ![r] = TRUE] /\ net' = net
      BY <1>1 DEF EnterCollective, Runs, messages
    <2>2. inside'[r] /\ \A q \in Rank \ {r} : inside'[q] = inside[q]
      BY <2>1 DEF SepIInv, Types
    <2> QED
      BY <2>1, <2>2 DEF Entering, Collects, InCollective
  <1>2. CASE StartCollective(r)
    <2>1. /\ ~Finished(r) /\ At(r).k = "Icoll" /\ world' = world /\ err' = err
          /\ Enter(r) /\ Advance(r, 1) /\ inside' = inside /\ net' = net
      BY <1>2 DEF StartCollective, Runs, messages
    <2>2. ~inside[r]
      BY <2>1 DEF SepIInv, Busy
    <2>3. pc'[r] = pc[r] + 1 /\ \A q \in Rank \ {r} : pc'[q] = pc[q]
      BY <2>1 DEF SepIInv, Types, Advance
    <2> QED
      BY <2>1, <2>2, <2>3 DEF Entering, Collects, InCollective
  <1> QED
    BY <1>1, <1>2

LEMMA FlaglessStays ==
  ASSUME Flagless, world' = world, net' = net
  PROVE  Flagless'
  <1>1. Rank' = Rank
    BY DEF Rank
  <1>2. Plain' = Plain
    BY DEF Plain, Sends, Rank, Text
  <1> QED
    BY <1>1, <1>2 DEF Flagless

LEMMA EnteringKeeps ==
  ASSUME SepIInv, NEW plan, Planned(world, plan), PlanIInv(plan),
         NEW r \in Rank, EnterCollective(r) \/ StartCollective(r)
  PROVE  PlanIInv(plan)'
  <1>1. Entering(r) /\ net' = net
    BY EnteringSteps
  <1>2. Numbered(plan) /\ Ways(plan) /\ Unanimous(plan) /\ Kept /\ Flagless
    BY DEF PlanIInv, PlanInv
  <1>3. Numbered(plan)' /\ Ways(plan)'
    BY <1>1, <1>2, EnteringNumbered, EnteringWays
  <1>4. Unanimous(plan)'
    <2>1. SepIInv'
      BY EnterSteps
    <2> QED
      BY <1>1, <1>2, <1>3, <2>1, EnteringUnanimous
  <1>5. Flagless'
    BY <1>1, <1>2, FlaglessStays DEF Entering
  <1>6. Kept'
    <2>0. Rank' = Rank
      BY <1>1, EnteringLemma
    <2>1. SUFFICES ASSUME NEW q \in Rank, InCollective(q)'
                   PROVE  err'[q] <=> calls'[q][Len(calls'[q])].flag
      BY <2>0 DEF Kept
    <2>2. CASE q = r
      BY <1>1, <2>2, EnteringLemma DEF Entering
    <2>3. CASE q # r
      <3>1. InCollective(q) /\ calls'[q] = calls[q] /\ err'[q] = err[q]
        BY <1>1, <2>1, <2>3, EnteringLemma DEF Entering, InCollective, At
      <3> QED
        BY <1>2, <3>1 DEF Kept
    <2> QED
      BY <2>2, <2>3
  <1> QED
    BY <1>3, <1>4, <1>5, <1>6 DEF PlanIInv, PlanInv

---------------------------------------------------------------------------
(* Steps that enter no collective operation.  What the entered ones say    *)
(* remains.                                                                *)
LEMMA SettledLemma ==
  ASSUME NEW plan, Numbered(plan), Ways(plan), Unanimous(plan), Running,
         world' = world, calls' = calls
  PROVE  /\ Numbered(plan)' /\ Unanimous(plan)'
         /\ Rank' = Rank /\ \A q : Text(q)' = Text(q)
         /\ \A q, k : Verdict(q, k)' = Verdict(q, k) /\ Behind(q, k)' = Behind(q, k)
         /\ \A q \in Rank : Came(plan, q)'
  <1>1. Rank' = Rank /\ \A q : Text(q)' = Text(q)
    BY DEF Rank, Text
  <1>2. \A q, k : Call(q, k)' = Call(q, k) /\ Entered(q, k)' = Entered(q, k)
    BY <1>1 DEF Call, Entered
  <1>3. \A q, k : Verdict(q, k)' = Verdict(q, k) /\ Behind(q, k)' = Behind(q, k)
    BY <1>1, <1>2 DEF Verdict, Behind
  <1>4. Numbered(plan)'
    <2>1. SUFFICES ASSUME NEW r \in Rank, NEW q \in Rank, NEW k \in 1 .. Len(calls[r]),
                          Entered(q, k)
                   PROVE  Number(plan, r, calls[r][k].line) = Number(plan, q, calls[q][k].line)
      BY <1>1 DEF Numbered, Entered
    <2> QED
      BY <2>1 DEF Numbered
  <1>5. Unanimous(plan)'
    BY <1>1, <1>2, <1>3 DEF Unanimous
  <1>6. ASSUME NEW q \in Rank PROVE Came(plan, q)'
    <2>1. SUFFICES ASSUME NEW k \in 1 .. Len(calls[q])
                   PROVE  Leads(plan, q, k - 1, Behind(q, k - 1)', Verdict(q, k - 1)',
                                calls[q][k].line, calls[q][k].flag)
      BY DEF Came, OnTheWay
    <2>2. OnTheWay(plan, q, k - 1, calls[q][k].line, calls[q][k].flag)
      BY DEF Ways, Came
    <2> QED
      BY <1>3, <2>2 DEF OnTheWay
  <1> QED
    BY <1>1, <1>3, <1>4, <1>5, <1>6

(* A rank that does nothing meanwhile is where it was.                     *)
LEMMA OthersCome ==
  ASSUME NEW plan, Numbered(plan), Ways(plan), Unanimous(plan), Kept, Running,
         world' = world, calls' = calls,
         NEW q \in Rank, pc'[q] = pc[q], err'[q] = err[q], inside'[q] = inside[q]
  PROVE  /\ Comes(plan, q)'
         /\ InCollective(q)' => (err'[q] <=> calls'[q][Len(calls'[q])].flag)
  <1>1. Text(q)' = Text(q) /\ Rank' = Rank
    BY DEF Text, Rank
  <1>2. InCollective(q)' = InCollective(q) /\ Finished(q)' = Finished(q)
    BY <1>1 DEF InCollective, Finished, At
  <1>3. Comes(plan, q)'
    <2>1. SUFFICES ASSUME ~Finished(q), ~InCollective(q)
                   PROVE  OnTheWay(plan, q, Len(calls[q]), pc[q], err[q])'
      BY <1>2 DEF Comes
    <2>2. PICK k : k = Len(calls[q])
      OBVIOUS
    <2>3. OnTheWay(plan, q, k, pc[q], err[q])
      BY <2>1, <2>2 DEF Ways, Comes
    <2>4. Verdict(q, k)' = Verdict(q, k) /\ Behind(q, k)' = Behind(q, k)
      BY SettledLemma
    <2>5. Leads(plan, q, k, Behind(q, k)', Verdict(q, k)', pc[q], err[q])
      BY <2>3, <2>4 DEF OnTheWay
    <2> QED
      BY <2>2, <2>5 DEF OnTheWay
  <1> QED
    BY <1>2, <1>3 DEF Kept

(* What the plan says of the instruction a rank is at.                     *)
LEMMA FollowedLemma ==
  ASSUME Types, NEW plan, Planned(world, plan), NEW r \in Rank, ~Finished(r),
         NEW e \in BOOLEAN, NEW t \in 1 .. Len(Text(r)) + 1, t = Target(At(r), pc[r], e)
  PROVE  /\ plan.agreed[r][t] => Shares(At(r)) \/ (plan.agreed[r][pc[r]] /\ ~Differs(At(r)))
         /\ \A f \in BOOLEAN : ~Collects(At(r)) /\ (f = e \/ Differs(At(r))) =>
              plan.next[r][t][f] = plan.next[r][pc[r]][e]
  <1>1. PICK p \in Line(world, r) : p = pc[r]
    BY TextLemma DEF Line, Text
  <1>2. At(r) = Code[world][r][p] /\ t \in Place(world, r)
    BY <1>1 DEF At, Text, Place
  <1>3. Followed(world, plan, r)
    BY PlannedLemma
  <1>4. PICK w, i : w = world /\ i = At(r)
    OBVIOUS
  <1>a. /\ Followed(w, plan, r) /\ p \in Line(w, r) /\ t \in Place(w, r)
        /\ i = Code[w][r][p] /\ t = Target(i, p, e)
    BY <1>1, <1>2, <1>3, <1>4
  <1>5. /\ plan.agreed[r][t] => Shares(i) \/ (plan.agreed[r][p] /\ ~Differs(i))
        /\ \A f \in BOOLEAN : ~Collects(i) /\ (f = e \/ Differs(i)) =>
             plan.next[r][t][f] = plan.next[r][p][e]
    BY <1>a DEF Followed
  <1> QED
    BY <1>1, <1>4, <1>5

(* The steps of one rank that leave what it has entered alone preserve the *)
(* invariant if it goes where its operations sent it.                      *)
LEMMA OneGoes ==
  ASSUME SepIInv, NEW plan, PlanIInv(plan), Running, world' = world, calls' = calls, Flagless',
         NEW r \in Rank, Comes(plan, r)', ~InCollective(r)',
         \A q \in Rank \ {r} : pc'[q] = pc[q] /\ err'[q] = err[q] /\ inside'[q] = inside[q]
  PROVE  PlanIInv(plan)'
  <1>1. Numbered(plan) /\ Ways(plan) /\ Unanimous(plan) /\ Kept
    BY DEF PlanIInv, PlanInv
  <1>2. /\ Numbered(plan)' /\ Unanimous(plan)' /\ Rank' = Rank
        /\ \A q \in Rank : Came(plan, q)'
    BY <1>1, SettledLemma
  <1>3. \A q \in Rank \ {r} :
          Comes(plan, q)' /\ (InCollective(q)' => (err'[q] <=> calls'[q][Len(calls'[q])].flag))
    BY <1>1, OthersCome
  <1>4. Ways(plan)'
    BY <1>2, <1>3 DEF Ways
  <1>5. Kept'
    BY <1>2, <1>3 DEF Kept
  <1> QED
    BY <1>2, <1>4, <1>5 DEF PlanIInv, PlanInv

(* A rank leaves a blocking collective operation with the verdict of all,  *)
(* or where it does not matter what it knows.                              *)
LEMMA LearntLeads ==
  ASSUME SepIInv, NEW plan, Planned(world, plan), PlanIInv(plan),
         NEW r \in Rank, LeaveCollective(r)
  PROVE  OnTheWay(plan, r, Len(calls[r]), pc[r] + 1, Learnt(r, Len(calls[r])))
  <1>1. /\ ~Finished(r) /\ At(r).k = "Coll" /\ inside[r] /\ MayReturn(r, Len(calls[r]))
    BY DEF LeaveCollective, Runs
  <1>2. PICK n \in 1 .. Len(calls[r]) : n = Len(calls[r])
    <2>1. calls[r] # <<>> /\ calls[r] \in Seq(Record)
      BY <1>1 DEF SepIInv, Types, Busy
    <2> QED
      BY <2>1
  <1>3. PICK p \in 1 .. Len(Text(r)) : p = pc[r]
    BY <1>1, TextLemma DEF SepIInv
  <1>4. calls[r][n].line = p /\ Behind(r, n) = p + 1
    <2>1. calls[r][n].line = p
      BY <1>1, <1>2, <1>3 DEF SepIInv, Busy
    <2> QED
      BY <1>2, <2>1 DEF Behind
  <1>5. PICK c : c = Call(r, n) /\ c = At(r) /\ c = Text(r)[p]
    BY <1>3, <1>4 DEF Call, At
  <1>6. PICK v \in BOOLEAN : v = Verdict(r, n)
    <2>1. n \in 0 .. Len(calls[r])
      OBVIOUS
    <2> QED
      BY <2>1, VerdictType
  <1>7. PICK e \in BOOLEAN : e = Learnt(r, n)
    BY <1>1, <1>2, LearntLemma
  <1>8. SUFFICES Leads(plan, r, n, p + 1, v, p + 1, e)
    BY <1>2, <1>3, <1>4, <1>6, <1>7 DEF OnTheWay
  <1>9. SUFFICES ASSUME e # v
                 PROVE  ~plan.agreed[r][p + 1] /\ plan.next[r][p + 1][TRUE] = plan.next[r][p + 1][FALSE]
    BY DEF Leads
  <1>10. ~Shares(c)
    <2>1. SUFFICES ASSUME Shares(c) PROVE e = v
      BY <1>9
    <2>2. v <=> \E q \in Rank :
            (c.sort = "from" => q = c.root) /\ Entered(q, n) /\ calls[q][n].flag
      <3>1. Shares(Call(r, n)) /\ n # 0
        BY <1>5, <2>1
      <3>2. Verdict(r, n) = \E q \in Rank :
              (Call(r, n).sort = "from" => q = Call(r, n).root) /\ Entered(q, n) /\ calls[q][n].flag
        BY <3>1 DEF Verdict
      <3> QED
        BY <1>5, <1>6, <3>2
    <2>3. CASE c.sort = "all"
      <3>1. \A q \in Rank : Entered(q, n)
        BY <1>1, <1>2, <1>5, <2>3 DEF MayReturn
      <3>2. e <=> \E q \in Rank : calls[q][n].flag
        BY <1>5, <1>7, <2>1, <2>3 DEF Learnt, Shares
      <3> QED
        BY <2>2, <2>3, <3>1, <3>2
    <2>4. CASE c.sort = "from"
      <3>1. c.root \in Rank /\ Entered(c.root, n)
        BY <1>1, <1>2, <1>5, <2>4, RootLemma DEF MayReturn, SepIInv
      <3>2. e = calls[c.root][n].flag
        BY <1>5, <1>7, <2>1, <2>4 DEF Learnt, Shares
      <3> QED
        BY <2>2, <2>4, <3>1, <3>2
    <2> QED
      BY <2>1, <2>3, <2>4 DEF Shares
  <1>11. v = calls[r][n].flag
    <2>1. ~Shares(Call(r, n)) /\ n # 0
      BY <1>5, <1>10
    <2>2. Verdict(r, n) = calls[r][n].flag
      BY <2>1 DEF Verdict
    <2> QED
      BY <1>6, <2>2
  <1>12. err[r] <=> calls[r][n].flag
    BY <1>1, <1>2 DEF PlanIInv, PlanInv, Kept, InCollective
  <1>13. e # err[r]
    BY <1>9, <1>11, <1>12 DEF SepIInv, Types
  <1>14. Differs(c)
    BY <1>1, <1>5, <1>7, <1>10, <1>13 DEF Learnt, Differs
  <1>15. ~plan.agreed[r][p + 1]
    <2>1. p + 1 = Target(At(r), pc[r], e) /\ p + 1 \in 1 .. Len(Text(r)) + 1
      <3>1. Target(At(r), pc[r], e) = pc[r] + 1
        BY <1>1 DEF Target
      <3> QED
        BY <1>3, <3>1, TextLemma DEF SepIInv
    <2>2. Types /\ e \in BOOLEAN /\ p + 1 \in 1 .. Len(Text(r)) + 1
          /\ p + 1 = Target(At(r), pc[r], e)
      BY <2>1 DEF SepIInv
    <2>3. plan.agreed[r][p + 1] => Shares(At(r)) \/ (plan.agreed[r][pc[r]] /\ ~Differs(At(r)))
      BY <1>1, <2>2, FollowedLemma
    <2> QED
      BY <1>5, <1>10, <1>14, <2>3
  <1>16. SentAlike(plan, r, p + 1, r, p + 1)
    <2>1. Entered(r, n)
      BY <1>2 DEF Entered
    <2> QED
      BY <1>4, <2>1, SameLemma DEF PlanIInv, PlanInv
  <1> QED
    BY <1>15, <1>16 DEF SentAlike

LEMMA LeaveKeeps ==
  ASSUME SepIInv, NEW plan, Planned(world, plan), PlanIInv(plan),
         NEW r \in Rank, LeaveCollective(r)
  PROVE  PlanIInv(plan)'
  <1>1. /\ world' = world /\ calls' = calls /\ net' = net /\ ~Finished(r)
        /\ err' = [err EXCEPT ![r] = Learnt(r, Len(calls[r]))]
        /\ inside' = [inside EXCEPT ![r] = FALSE] /\ Advance(r, 1)
    BY DEF LeaveCollective, Runs, collectives, messages
  <1>2. /\ err'[r] = Learnt(r, Len(calls[r])) /\ ~inside'[r] /\ pc'[r] = pc[r] + 1
        /\ \A q \in Rank \ {r} : pc'[q] = pc[q] /\ err'[q] = err[q] /\ inside'[q] = inside[q]
    BY <1>1 DEF SepIInv, Types, Advance
  <1>3. PICK n, p, e : n = Len(calls[r]) /\ p = pc[r] + 1 /\ e = Learnt(r, n)
    OBVIOUS
  <1>4. OnTheWay(plan, r, n, p, e)
    BY <1>3, LearntLeads
  <1>5. Running
    BY <1>1 DEF Running
  <1>6. Verdict(r, n)' = Verdict(r, n) /\ Behind(r, n)' = Behind(r, n)
    BY <1>1, <1>5, SettledLemma DEF PlanIInv, PlanInv
  <1>7. Leads(plan, r, n, Behind(r, n)', Verdict(r, n)', p, e)
    BY <1>4, <1>6 DEF OnTheWay
  <1>8. Comes(plan, r)'
    BY <1>1, <1>2, <1>3, <1>7 DEF Comes, OnTheWay
  <1>9. ~InCollective(r)'
    BY <1>2 DEF InCollective
  <1>10. Flagless'
    BY <1>1, FlaglessStays DEF PlanIInv, PlanInv
  <1> QED
    BY <1>1, <1>2, <1>5, <1>8, <1>9, <1>10, OneGoes

(* Going on without entering or leaving a collective operation: to where   *)
(* the instruction leads, or into a blocking send or receive.              *)
Goes(r) ==
  /\ ~Finished(r) /\ ~Collects(At(r))
  /\ world' = world /\ calls' = calls
  /\ \A q \in Rank \ {r} : pc'[q] = pc[q] /\ err'[q] = err[q] /\ inside'[q] = inside[q]
  /\ At(r).k # "Validate" => err'[r] = err[r]
  /\ \/ pc'[r] = Target(At(r), pc[r], err[r]) /\ ~inside'[r]
     \/ pc'[r] = pc[r] /\ err'[r] = err[r]

LEMMA GoesKeeps ==
  ASSUME SepIInv, NEW plan, Planned(world, plan), PlanIInv(plan), SepIInv', Flagless',
         NEW r \in Rank, Goes(r)
  PROVE  PlanIInv(plan)'
  <1>1. /\ Running /\ Rank' = Rank /\ (\A q : Text(q)' = Text(q))
        /\ ~Finished(r) /\ ~Collects(At(r)) /\ world' = world /\ calls' = calls
    BY DEF Goes, Running, Rank, Text
  <1>2. ~InCollective(r) /\ ~InCollective(r)'
    <2>1. ~InCollective(r)
      BY <1>1 DEF InCollective, Collects
    <2>2. CASE pc'[r] = pc[r]
      BY <1>1, <2>2 DEF InCollective, Collects, At
    <2>3. CASE ~inside'[r]
      BY <2>1, <2>3 DEF InCollective
    <2> QED
      BY <2>2, <2>3 DEF Goes
  <1>3. PICK n : n = Len(calls[r])
    OBVIOUS
  <1>4. PICK p, e : p = pc[r] /\ e = err[r] /\ e \in BOOLEAN
    BY DEF SepIInv, Types
  <1>5. PICK t, f : t = pc'[r] /\ f = err'[r] /\ f \in BOOLEAN
    BY <1>1 DEF SepIInv, Types
  <1>6. OnTheWay(plan, r, n, p, e)
    BY <1>1, <1>2, <1>3, <1>4 DEF PlanIInv, PlanInv, Ways, Comes
  <1>7. ASSUME ~Finished(r)'
        PROVE  /\ plan.next[r][t][f] = plan.next[r][p][e]
               /\ plan.agreed[r][t] => plan.agreed[r][p] /\ f = e
    <2>1. CASE t = p /\ f = e
      BY <2>1
    <2>2. CASE t = Target(At(r), p, e)
      <3>1. t \in 1 .. Len(Text(r)) + 1
        <4>1. t \in Nat \ {0}
          BY <1>1, <1>5 DEF SepIInv, Types
        <4> QED
          BY <1>1, <1>5, <1>7, <4>1, TextLemma DEF SepIInv, Finished
      <3>2. PICK i : i = At(r)
        OBVIOUS
      <3>3. /\ plan.agreed[r][t] => Shares(i) \/ (plan.agreed[r][p] /\ ~Differs(i))
            /\ \A g \in BOOLEAN : ~Collects(i) /\ (g = e \/ Differs(i)) =>
                 plan.next[r][t][g] = plan.next[r][p][e]
        BY <1>1, <1>4, <2>2, <3>1, <3>2, FollowedLemma DEF SepIInv
      <3>4. ~Shares(i) /\ ~Collects(i) /\ (f = e \/ Differs(i))
        BY <1>1, <1>4, <1>5, <3>2 DEF Goes, Shares, Collects, Differs
      <3> QED
        BY <1>5, <3>3, <3>4
    <2> QED
      BY <1>4, <1>5, <2>1, <2>2 DEF Goes
  <1>8. Verdict(r, n)' = Verdict(r, n) /\ Behind(r, n)' = Behind(r, n)
    BY <1>1, SettledLemma DEF PlanIInv, PlanInv
  <1>9. ASSUME ~Finished(r)'
        PROVE  Leads(plan, r, n, Behind(r, n)', Verdict(r, n)', t, f)
    BY <1>6, <1>7, <1>8, <1>9 DEF OnTheWay, Leads
  <1>10. Comes(plan, r)'
    BY <1>1, <1>3, <1>5, <1>9 DEF Comes, OnTheWay
  <1> QED
    BY <1>1, <1>2, <1>10, OneGoes DEF Goes

---------------------------------------------------------------------------
(* Messages that carry no errors change what nobody knows.                 *)
LEMMA WaitsLemma ==
  ASSUME NEW S, NEW queue \in Seq(S), NEW tag, Waits(queue, tag)
  PROVE  /\ FirstOf(queue, tag) \in 1 .. Len(queue)
         /\ queue[FirstOf(queue, tag)] \in S
         /\ Without(queue, FirstOf(queue, tag)) \in Seq(S)
  <1> DEFINE T == {i \in 1 .. Len(queue) : queue[i].tag = tag}
             R == OpToRel(<, Nat)
  <1>1. T \subseteq Nat /\ T # {}
    BY DEF Waits
  <1>2. IsWellFoundedOn(R, Nat)
    BY NatLessThanWellFounded
  <1>3. \A i, j \in Nat : <<j, i>> \in R <=> j < i
    BY DEF OpToRel
  <1> HIDE DEF R
  <1>4. PICK i \in T : \A j \in T : <<j, i>> \notin R
    BY <1>1, <1>2, WFMin
  <1>5. ASSUME NEW j \in 1 .. i - 1 PROVE queue[j].tag # tag
    <2>1. j \in 1 .. Len(queue) /\ i \in Nat /\ j < i
      OBVIOUS
    <2>2. <<j, i>> \in R
      BY <1>3, <2>1
    <2>3. j \notin T
      <3> HIDE DEF T
      <3> QED
        BY <1>4, <2>2
    <2> QED
      BY <2>1, <2>3
  <1>6. \E x \in DOMAIN queue : queue[x].tag = tag /\ \A j \in 1 .. x - 1 : queue[j].tag # tag
    BY <1>4, <1>5
  <1>7. FirstOf(queue, tag) \in 1 .. Len(queue)
    BY <1>6 DEF FirstOf
  <1>8. ASSUME NEW x \in 1 .. Len(queue)
        PROVE  queue[x] \in S /\ Without(queue, x) \in Seq(S)
    <2>1. SubSeq(queue, 1, x - 1) \in Seq(S) /\ SubSeq(queue, x + 1, Len(queue)) \in Seq(S)
      OBVIOUS
    <2> QED
      BY <2>1 DEF Without
  <1> QED
    BY <1>7, <1>8

LEMMA PlainMessages ==
  ASSUME SepIInv, NEW plan, Planned(world, plan), Flagless, world' = world,
         NEW r \in Rank, ~Finished(r),
         \/ At(r).k \in {"Send", "Isend"} /\ PostSend(r, At(r))
         \/ At(r).k \in {"Recv", "Irecv"} /\ PostReceive(r, At(r))
  PROVE  err' = err /\ Flagless'
  <1>1. Rank' = Rank /\ Plain' = Plain
    BY DEF Rank, Plain, Sends, Text
  <1>2. /\ At(r).peer \in Rank
        /\ At(r).k \in {"Send", "Isend"} => ~At(r).errors /\ At(r) \in Sends(r)
    <2>1. pc[r] \in 1 .. Len(Text(r))
      BY TextLemma DEF SepIInv
    <2>2. At(r).peer \in Rank /\ (At(r).k \in {"Send", "Isend"} => At(r) \in Sends(r))
      BY <2>1, TextLemma DEF SepIInv, At, Sends
    <2>3. ~CarriesErrors(At(r))
      BY <2>1, PlannedLemma DEF SepIInv, At
    <2> QED
      BY <2>2, <2>3 DEF CarriesErrors
  <1>3. ASSUME NEW from, NEW to \in Rank, NEW m, ~m.flag, NEW i, Match(from, to, m, i)
        PROVE  err' = err
    BY <1>3 DEF Match, SepIInv, Types
  <1>4. CASE At(r).k \in {"Send", "Isend"} /\ PostSend(r, At(r))
    <2> DEFINE i == At(r)
               pair == <<r, i.peer>>
               m == [tag |-> i.tag, at |-> i.at, group |-> i.group, flag |-> i.errors /\ err[r]]
    <2>1. m \in Plain /\ ~m.flag
      <3>1. (i.errors /\ err[r]) = FALSE
        BY <1>2, <1>4
      <3> QED
        BY <1>2, <1>4, <3>1 DEF Plain
    <2>2. CASE Waits(posted[pair], i.tag)
      BY <1>1, <1>2, <1>3, <1>4, <2>1, <2>2 DEF PostSend, Flagless
    <2>3. CASE ~Waits(posted[pair], i.tag)
      <3>1. net' = [net EXCEPT ![pair] = Append(@, m)] /\ err' = err
        BY <1>4, <2>3 DEF PostSend
      <3>2. pair \in Rank \X Rank
        BY <1>2
      <3> HIDE DEF pair, m
      <3>3. net' \in [Rank \X Rank -> Seq(Plain)]
        BY <2>1, <3>1, <3>2 DEF Flagless
      <3> QED
        BY <1>1, <3>1, <3>3 DEF Flagless
    <2> QED
      BY <2>2, <2>3
  <1>5. CASE At(r).k \in {"Recv", "Irecv"} /\ PostReceive(r, At(r))
    <2> DEFINE i == At(r)
               pair == <<i.peer, r>>
               x == FirstOf(net[pair], i.tag)
    <2>1. pair \in Rank \X Rank /\ net[pair] \in Seq(Plain)
      BY <1>2 DEF Flagless
    <2>2. CASE Waits(net[pair], i.tag)
      <3>1. net[pair][x] \in Plain /\ Without(net[pair], x) \in Seq(Plain)
        BY <2>1, <2>2, WaitsLemma
      <3>2. net' = [net EXCEPT ![pair] = Without(@, x)] /\ Match(i.peer, r, net[pair][x], i)
        BY <1>5, <2>2 DEF PostReceive
      <3>3. err' = err
        <4>1. \A m \in Plain : ~m.flag
          BY DEF Plain
        <4> QED
          BY <1>2, <1>3, <3>1, <3>2, <4>1
      <3> HIDE DEF pair, x
      <3>4. net' \in [Rank \X Rank -> Seq(Plain)]
        BY <2>1, <3>1, <3>2 DEF Flagless
      <3> QED
        BY <1>1, <3>3, <3>4 DEF Flagless
    <2>3. CASE ~Waits(net[pair], i.tag)
      BY <1>1, <1>5, <2>3 DEF PostReceive, Flagless
    <2> QED
      BY <2>2, <2>3
  <1> QED
    BY <1>4, <1>5

LEMMA GoesSteps ==
  ASSUME SepIInv, NEW plan, Planned(world, plan), Flagless, NEW r \in Rank,
         \/ WaitForCollective(r) \/ PollCollective(r)
         \/ StartMessage(r) \/ EnterMessage(r) \/ LeaveMessage(r) \/ WaitForMessages(r)
         \/ Issue(r) \/ FlushOps(r) \/ LockTargets(r) \/ UnlockTargets(r)
         \/ ActiveTarget(r) \/ Alone(r)
  PROVE  Goes(r) /\ Flagless'
  <1>1. Aside(r)
    BY AsideSteps
  <1>2. ASSUME Advance(r, 1), At(r).k \notin {"Icoll", "Goto", "Break"}, err' = err, Flagless'
        PROVE  Goes(r) /\ Flagless'
    <2>1. pc'[r] = pc[r] + 1
      BY <1>2 DEF Advance, SepIInv, Types
    <2>2. Target(At(r), pc[r], err[r]) = pc[r] + 1
      BY <1>2 DEF Target
    <2> QED
      BY <1>1, <1>2, <2>1, <2>2 DEF Aside, Goes, Collects
  <1>3. ASSUME world' = world, net' = net
        PROVE  Flagless'
    BY <1>3, FlaglessStays
  <1>4. CASE WaitForCollective(r) \/ PollCollective(r)
    <2>1. /\ Advance(r, 1) /\ At(r).k \in {"WaitColl", "TestColl"}
          /\ err' = err /\ world' = world /\ net' = net
      BY <1>4 DEF WaitForCollective, PollCollective, Runs, messages
    <2> QED
      BY <1>2, <1>3, <2>1
  <1>5. CASE StartMessage(r)
    <2>1. /\ Advance(r, 1) /\ ~Finished(r) /\ world' = world
          /\ \/ At(r).k \in {"Send", "Isend"} /\ PostSend(r, At(r))
             \/ At(r).k \in {"Recv", "Irecv"} /\ PostReceive(r, At(r))
      BY <1>5 DEF StartMessage, Runs
    <2>2. err' = err /\ Flagless'
      BY <2>1, PlainMessages
    <2> QED
      BY <1>2, <2>1, <2>2
  <1>6. CASE EnterMessage(r)
    <2>1. /\ pc' = pc /\ ~Finished(r) /\ world' = world
          /\ \/ At(r).k \in {"Send", "Isend"} /\ PostSend(r, At(r))
             \/ At(r).k \in {"Recv", "Irecv"} /\ PostReceive(r, At(r))
      BY <1>6 DEF EnterMessage, Runs
    <2>2. err' = err /\ Flagless'
      BY <2>1, PlainMessages
    <2> QED
      BY <1>1, <2>1, <2>2 DEF Aside, Goes, Collects
  <1>7. CASE LeaveMessage(r) \/ WaitForMessages(r)
    <2>1. /\ Advance(r, 1) /\ At(r).k \in {"Send", "Recv", "Wait"}
          /\ err' = err /\ world' = world /\ net' = net
      BY <1>7 DEF LeaveMessage, WaitForMessages, Runs, messages
    <2> QED
      BY <1>2, <1>3, <2>1
  <1>8. CASE Issue(r) \/ FlushOps(r) \/ LockTargets(r) \/ UnlockTargets(r) \/ ActiveTarget(r)
    <2>1. /\ Advance(r, 1) /\ err' = err /\ world' = world /\ net' = net
          /\ At(r).k \in {"Rma", "Flush", "Lock", "Unlock", "Post", "Start", "Complete", "WinWait"}
      BY <1>8 DEF Issue, FlushOps, LockTargets, UnlockTargets, ActiveTarget, Runs, messages
    <2> QED
      BY <1>2, <1>3, <2>1
  <1>9. CASE Alone(r)
    <2>1. world' = world /\ net' = net /\ inside' = inside
      BY <1>9 DEF Alone, messages
    <2>2. Flagless'
      BY <1>3, <2>1
    <2>3. CASE Runs(r, "Validate")
      <3>1. /\ Advance(r, 1) /\ At(r).k = "Validate"
            /\ err' \in {err, [err EXCEPT ![r] = TRUE]}
        BY <1>9, <2>3 DEF Alone, Runs
      <3>2. \A q \in Rank \ {r} : err'[q] = err[q]
        BY <3>1 DEF SepIInv, Types
      <3>3. pc'[r] = pc[r] + 1
        BY <3>1 DEF Advance, SepIInv, Types
      <3>4. Target(At(r), pc[r], err[r]) = pc[r] + 1
        BY <3>1 DEF Target
      <3> QED
        BY <1>1, <2>2, <3>1, <3>2, <3>3, <3>4 DEF Aside, Goes, Collects
    <2>4. CASE Runs(r, "Break") \/ Runs(r, "Goto")
      <3>1. PICK b : b = (IF At(r).k = "Goto" THEN -At(r).back ELSE IF err[r] THEN At(r).by ELSE 1)
        OBVIOUS
      <3>2. Advance(r, b) /\ err' = err /\ At(r).k \in {"Break", "Goto"}
        BY <1>9, <2>4, <3>1 DEF Alone, Runs
      <3>3. pc'[r] = pc[r] + b
        BY <3>2 DEF Advance, SepIInv, Types
      <3>4. pc[r] + b = Target(At(r), pc[r], err[r])
        <4>1. CASE At(r).k = "Goto"
          <5>1. At(r).back \in Int
            BY <1>1, <4>1, TextLemma DEF SepIInv, Aside, At
          <5>2. pc[r] \in Int /\ Target(At(r), pc[r], err[r]) = pc[r] - At(r).back
            BY <4>1 DEF Target, SepIInv, Types
          <5> QED
            BY <3>1, <4>1, <5>1, <5>2
        <4>2. CASE At(r).k = "Break"
          BY <3>1, <4>2 DEF Target
        <4> QED
          BY <3>2, <4>1, <4>2
      <3> QED
        BY <1>1, <2>2, <3>2, <3>3, <3>4 DEF Aside, Goes, Collects
    <2>5. CASE Runs(r, "Stop") \/ Runs(r, "Touch")
      <3>1. Advance(r, 1) /\ At(r).k \in {"Stop", "Touch"} /\ err' = err
        BY <1>9, <2>5 DEF Alone, Runs
      <3> QED
        BY <1>2, <2>2, <3>1
    <2> QED
      BY <1>9, <2>3, <2>4, <2>5 DEF Alone
  <1> QED
    BY <1>4, <1>5, <1>6, <1>7, <1>8, <1>9

(* MPI_Abort: nobody goes anywhere any more.                               *)
LEMMA AbortKeeps ==
  ASSUME SepIInv, NEW plan, PlanIInv(plan), NEW r \in Rank, AbortAll(r)
  PROVE  PlanIInv(plan)'
  <1>1. /\ pc' = [q \in Rank |-> Len(Text(q)) + 1] /\ inside' = [q \in Rank |-> FALSE]
        /\ world' = world /\ calls' = calls /\ net' = net /\ Running
    BY DEF AbortAll, collectives, messages, Runs, Running
  <1>2. /\ Numbered(plan)' /\ Rank' = Rank /\ \A q : Text(q)' = Text(q)
    BY <1>1, SettledLemma DEF PlanIInv, PlanInv
  <1>3. \A q \in Rank : Len(Text(q)) \in Nat
    BY TextLemma DEF SepIInv
  <1>4. ~Running'
    BY <1>1, <1>2, <1>3 DEF Running, Finished
  <1>5. Kept'
    BY <1>1, <1>2 DEF Kept, InCollective
  <1>6. Flagless'
    BY <1>1, FlaglessStays DEF PlanIInv, PlanInv
  <1> QED
    BY <1>2, <1>4, <1>5, <1>6 DEF PlanIInv, PlanInv, Ways, Unanimous

---------------------------------------------------------------------------
LEMMA InitPlan ==
  ASSUME NEW plan, Init
  PROVE  PlanIInv(plan)
  <1>1. /\ \A r \in Rank : calls[r] = <<>> /\ ~inside[r] /\ pc[r] = 1 /\ err[r] = FALSE
        /\ net = [pair \in Rank \X Rank |-> <<>>]
    BY DEF Init
  <1>2. Numbered(plan) /\ Unanimous(plan) /\ Kept
    BY <1>1 DEF Numbered, Unanimous, Kept, InCollective
  <1>3. Flagless
    BY <1>1 DEF Flagless
  <1>4. ASSUME NEW r \in Rank
        PROVE  Came(plan, r) /\ Comes(plan, r)
    <2>1. Len(calls[r]) = 0 /\ pc[r] = 1 /\ err[r] = FALSE
      BY <1>1
    <2>2. Behind(r, 0) = 1 /\ Verdict(r, 0) = FALSE
      BY DEF Behind, Verdict
    <2>3. Came(plan, r)
      BY <2>1 DEF Came
    <2>4. OnTheWay(plan, r, 0, 1, FALSE)
      BY <2>2 DEF OnTheWay, Leads
    <2> QED
      BY <2>1, <2>3, <2>4 DEF Comes
  <1>5. Ways(plan)
    BY <1>4 DEF Ways
  <1> QED
    BY <1>2, <1>3, <1>5 DEF PlanIInv, PlanInv

LEMMA NextPlan ==
  ASSUME SepIInv, NEW plan, Planned(world, plan), PlanIInv(plan), [Next]_vars
  PROVE  PlanIInv(plan)'
  <1>0. SepIInv'
    BY NextSep
  <1>1. ASSUME NEW r \in Rank, Step(r) PROVE PlanIInv(plan)'
    <2>1. CASE EnterCollective(r) \/ StartCollective(r)
      BY <2>1, EnteringKeeps
    <2>2. CASE LeaveCollective(r)
      BY <2>2, LeaveKeeps
    <2>3. CASE AbortAll(r)
      BY <2>3, AbortKeeps
    <2>4. CASE \/ WaitForCollective(r) \/ PollCollective(r)
               \/ StartMessage(r) \/ EnterMessage(r) \/ LeaveMessage(r) \/ WaitForMessages(r)
               \/ Issue(r) \/ FlushOps(r) \/ LockTargets(r) \/ UnlockTargets(r)
               \/ ActiveTarget(r) \/ Alone(r)
      <3>1. Goes(r) /\ Flagless'
        BY <2>4, GoesSteps DEF PlanIInv, PlanInv
      <3> QED
        BY <1>0, <3>1, GoesKeeps
    <2> QED
      BY <1>1, <2>1, <2>2, <2>3, <2>4 DEF Step
  <1>2. CASE UNCHANGED vars
    <2>1. /\ world' = world /\ pc' = pc /\ inside' = inside /\ err' = err
          /\ calls' = calls /\ net' = net
      BY <1>2 DEF vars
    <2>2. Flagless'
      BY <2>1, FlaglessStays DEF PlanIInv, PlanInv
    <2>3. CASE Running
      <3>1. Numbered(plan) /\ Ways(plan) /\ Unanimous(plan) /\ Kept
        BY DEF PlanIInv, PlanInv
      <3>2. /\ Numbered(plan)' /\ Unanimous(plan)' /\ Rank' = Rank
            /\ \A q \in Rank : Came(plan, q)'
        BY <2>1, <2>3, <3>1, SettledLemma
      <3>3. \A q \in Rank :
              Comes(plan, q)' /\ (InCollective(q)' => (err'[q] <=> calls'[q][Len(calls'[q])].flag))
        BY <2>1, <2>3, <3>1, OthersCome
      <3> QED
        BY <2>2, <3>2, <3>3 DEF PlanIInv, PlanInv, Ways, Kept
    <2>4. CASE ~Running
      <3>1. /\ Rank' = Rank /\ (\A q : Text(q)' = Text(q)) /\ (\A q : At(q)' = At(q))
            /\ (\A q : Finished(q)' = Finished(q))
        BY <2>1 DEF Rank, Text, At, Finished
      <3>2. ~Running'
        BY <2>4, <3>1 DEF Running
      <3>3. Numbered(plan)'
        <4>1. SUFFICES ASSUME NEW r \in Rank, NEW q \in Rank, NEW k \in 1 .. Len(calls[r]),
                              Entered(q, k)
                       PROVE  Number(plan, r, calls[r][k].line) = Number(plan, q, calls[q][k].line)
          BY <2>1, <3>1 DEF Numbered, Entered
        <4> QED
          BY <4>1 DEF PlanIInv, PlanInv, Numbered
      <3>4. Kept'
        BY <2>1, <3>1 DEF PlanIInv, PlanInv, Kept, InCollective
      <3> QED
        BY <2>2, <3>2, <3>3, <3>4 DEF PlanIInv, PlanInv, Ways, Unanimous
    <2> QED
      BY <2>3, <2>4
  <1> QED
    BY <1>1, <1>2 DEF Next, Done

LEMMA WorldStays ==
  ASSUME SepIInv, [Next]_vars
  PROVE  world' = world
  <1>1. ASSUME NEW r \in Rank, Step(r) PROVE world' = world
    <2>1. CASE EnterCollective(r) \/ StartCollective(r) \/ LeaveCollective(r) \/ AbortAll(r)
      BY <2>1 DEF EnterCollective, StartCollective, LeaveCollective, AbortAll
    <2>2. CASE \/ WaitForCollective(r) \/ PollCollective(r)
               \/ StartMessage(r) \/ EnterMessage(r) \/ LeaveMessage(r) \/ WaitForMessages(r)
               \/ Issue(r) \/ FlushOps(r) \/ LockTargets(r) \/ UnlockTargets(r)
               \/ ActiveTarget(r) \/ Alone(r)
      BY <2>2, AsideSteps DEF Aside
    <2> QED
      BY <1>1, <2>1, <2>2 DEF Step
  <1> QED
    BY <1>1 DEF Next, Done, vars

LEMMA PlanMatches ==
  ASSUME SepIInv, NEW plan, Planned(world, plan), PlanIInv(plan)
  PROVE  CollectivesMatch
  <1>1. SUFFICES ASSUME NEW q \in Rank, NEW r \in Rank, NEW k, k = Len(calls[r]),
                        k > 0, Entered(q, k)
                 PROVE  SameCall(Call(q, k), Call(r, k))
    BY DEF CollectivesMatch
  <1>2. k \in 1 .. Len(calls[r]) /\ k \in 1 .. Len(calls[q])
    BY <1>1 DEF SepIInv, Types, Entered
  <1>3. Entered(r, k)
    BY <1>1, <1>2 DEF Entered
  <1> QED
    BY <1>1, <1>2, <1>3, SameLemma DEF PlanIInv, PlanInv

(* Whatever programs the ranks execute, and however many there are: if     *)
(* there is a plan for the texts by which they number their collective     *)
(* operations alike, then the k-th operation of each rank is the k-th of   *)
(* every other, also where ranks break off after an error of validation    *)
(* that each of them may or may not have found.                            *)
THEOREM PlannedMatch ==
  ASSUME NEW CONSTANT plan
  PROVE  Spec => [](Planned(world, plan) => CollectivesMatch)
  <1> DEFINE Inv == SepIInv /\ (Planned(world, plan) => PlanIInv(plan))
  <1>1. Init => Inv
    BY InitSep, InitPlan
  <1>2. Inv /\ [Next]_vars => Inv'
    <2>1. SUFFICES ASSUME Inv, [Next]_vars PROVE Inv'
      OBVIOUS
    <2>2. SepIInv'
      BY <2>1, NextSep
    <2>3. world' = world
      BY <2>1, WorldStays
    <2>4. ASSUME Planned(world, plan)' PROVE PlanIInv(plan)'
      <3>1. Planned(world, plan)
        BY <2>3, <2>4
      <3> QED
        BY <2>1, <3>1, NextPlan
    <2> QED
      BY <2>2, <2>4
  <1>3. Inv => (Planned(world, plan) => CollectivesMatch)
    BY PlanMatches
  <1> HIDE DEF Inv
  <1> QED
    BY <1>1, <1>2, <1>3, PTL DEF Spec

---------------------------------------------------------------------------
(* Requests that wait.  Items of a group in the queues Q, by place.        *)
Marked(Q, g) ==
  {t \in (DOMAIN Q) \X (Nat \ {0}) : t[2] <= Len(Q[t[1]]) /\ Q[t[1]][t[2]].group = g}

Vectors(I, S) == [I -> Seq(S)]
Matrices(R, S) == [R \X R -> Seq(S)]
Counters(R) == [R -> [Groups -> Int]]
Put(P, Q, a, queue) == P = [Q EXCEPT ![a] = queue]
PutAt(N, n, a, b, queue) == N = [n EXCEPT ![<<a, b>>] = queue]
AppendedAt(N, n, a, b, m) == N = [n EXCEPT ![<<a, b>>] = Append(n[<<a, b>>], m)]
RemovedAt(N, n, a, b, x) ==
  x \in 1 .. Len(n[<<a, b>>]) /\ N = [n EXCEPT ![<<a, b>>] = Without(n[<<a, b>>], x)]
Added(D, d, a, h, c) == D = [d EXCEPT ![a][h] = d[a][h] + c]
Appended(P, Q, a, m) == P = [Q EXCEPT ![a] = Append(@, m)]

LEMMA MarkedIs ==
  ASSUME NEW Q, NEW g, NEW a \in DOMAIN Q, NEW x
  PROVE  <<a, x>> \in Marked(Q, g) <=>
           x \in Nat \ {0} /\ x <= Len(Q[a]) /\ Q[a][x].group = g
  BY DEF Marked

LEMMA AppendMarks ==
  ASSUME NEW I, NEW S, NEW Q \in Vectors(I, S), NEW a \in I, NEW m \in S, NEW g,
         NEW P, Appended(P, Q, a, m), IsFiniteSet(Marked(Q, g))
  PROVE  /\ IsFiniteSet(Marked(P, g))
         /\ Cardinality(Marked(P, g)) =
              Cardinality(Marked(Q, g)) + (IF m.group = g THEN 1 ELSE 0)
  <1> DEFINE n == Len(Q[a]) + 1
             N == IF m.group = g THEN {<<a, n>>} ELSE {}
  <1>0. Q \in [I -> Seq(S)] /\ DOMAIN Q = I
    BY DEF Vectors
  <1>1. /\ n \in Nat \ {0} /\ P \in [I -> Seq(S)] /\ Len(P[a]) = n /\ P[a][n] = m
        /\ \A y \in 1 .. n - 1 : P[a][y] = Q[a][y]
        /\ \A b \in I \ {a} : P[b] = Q[b]
    BY <1>0 DEF Appended
  <1>2. <<a, n>> \notin Marked(Q, g)
    BY <1>0, <1>1 DEF Marked
  <1>3. ASSUME NEW b \in I, NEW y \in Nat \ {0}
        PROVE  <<b, y>> \in Marked(P, g) <=> <<b, y>> \in Marked(Q, g) \union N
    <2>1. <<b, y>> \in Marked(P, g) <=> y <= Len(P[b]) /\ P[b][y].group = g
      <3>1. b \in DOMAIN P
        BY <1>1
      <3> QED
        BY <3>1, MarkedIs
    <2>2. <<b, y>> \in Marked(Q, g) <=> y <= Len(Q[b]) /\ Q[b][y].group = g
      <3>1. b \in DOMAIN Q
        BY <1>0
      <3> QED
        BY <3>1, MarkedIs
    <2>3. <<b, y>> \in N <=> m.group = g /\ b = a /\ y = n
      OBVIOUS
    <2> HIDE DEF N
    <2> QED
      BY <1>1, <2>1, <2>2, <2>3
  <1>4. Marked(P, g) \subseteq I \X (Nat \ {0}) /\ Marked(Q, g) \subseteq I \X (Nat \ {0})
        /\ N \subseteq I \X (Nat \ {0})
    BY <1>0, <1>1 DEF Marked
  <1>5. Marked(P, g) = Marked(Q, g) \union N
    <2> HIDE DEF N
    <2>1. ASSUME NEW t \in I \X (Nat \ {0})
          PROVE  t \in Marked(P, g) <=> t \in Marked(Q, g) \union N
      <3>1. PICK b \in I, y \in Nat \ {0} : t = <<b, y>>
        OBVIOUS
      <3> QED
        BY <1>3, <3>1
    <2> QED
      BY <1>4, <2>1
  <1>6. Cardinality(Marked(Q, g)) \in Nat
    BY FS_CardinalityType
  <1> HIDE DEF n
  <1>7. CASE m.group = g
    <2>1. N = {<<a, n>>}
      BY <1>7
    <2> HIDE DEF N
    <2>2. Marked(P, g) = Marked(Q, g) \union {<<a, n>>}
      BY <1>5, <2>1
    <2>3. /\ IsFiniteSet(Marked(Q, g) \union {<<a, n>>})
          /\ Cardinality(Marked(Q, g) \union {<<a, n>>}) = Cardinality(Marked(Q, g)) + 1
      <3>1. ASSUME NEW T, IsFiniteSet(T), NEW e, e \notin T
            PROVE  IsFiniteSet(T \union {e}) /\ Cardinality(T \union {e}) = Cardinality(T) + 1
        BY <3>1, FS_AddElement
      <3> QED
        BY <1>2, <3>1
    <2> QED
      BY <1>7, <2>2, <2>3
  <1>8. CASE m.group # g
    <2>1. N = {}
      BY <1>8
    <2> HIDE DEF N
    <2>2. Marked(P, g) = Marked(Q, g)
      BY <1>5, <2>1
    <2> QED
      BY <1>6, <1>8, <2>2
  <1> QED
    BY <1>7, <1>8

LEMMA WithoutItems ==
  ASSUME NEW S, NEW queue \in Seq(S), NEW x \in 1 .. Len(queue)
  PROVE  /\ Without(queue, x) \in Seq(S)
         /\ Len(Without(queue, x)) = Len(queue) - 1
         /\ \A y \in 1 .. Len(queue) - 1 :
              Without(queue, x)[y] = IF y < x THEN queue[y] ELSE queue[y + 1]
  <1> DEFINE s == SubSeq(queue, 1, x - 1)
             t == SubSeq(queue, x + 1, Len(queue))
  <1>1. s \in Seq(S) /\ Len(s) = x - 1 /\ \A y \in 1 .. x - 1 : s[y] = queue[y]
    OBVIOUS
  <1>2. t \in Seq(S) /\ Len(t) = Len(queue) - x /\ \A y \in 1 .. Len(queue) - x : t[y] = queue[x + y]
    OBVIOUS
  <1>3. Without(queue, x) = s \o t
    BY DEF Without
  <1> HIDE DEF s, t
  <1>4. s \o t \in Seq(S) /\ Len(s \o t) = Len(queue) - 1
    BY <1>1, <1>2
  <1>5. ASSUME NEW y \in 1 .. Len(queue) - 1
        PROVE  (s \o t)[y] = IF y < x THEN queue[y] ELSE queue[y + 1]
    <2>1. CASE y < x
      BY <1>1, <1>2, <2>1
    <2>2. CASE ~(y < x)
      <3>1. y - (x - 1) \in 1 .. Len(queue) - x /\ x + (y - (x - 1)) = y + 1
        BY <2>2
      <3>2. (s \o t)[y] = t[y - (x - 1)]
        BY <1>1, <1>2, <2>2
      <3> QED
        BY <1>2, <2>2, <3>1, <3>2
    <2> QED
      BY <2>1, <2>2
  <1> QED
    BY <1>3, <1>4, <1>5

LEMMA RemoveMarks ==
  ASSUME NEW I, NEW S, NEW Q \in Vectors(I, S), NEW a \in I, NEW x \in 1 .. Len(Q[a]), NEW g,
         NEW P, Put(P, Q, a, Without(Q[a], x)), IsFiniteSet(Marked(Q, g))
  PROVE  /\ IsFiniteSet(Marked(P, g))
         /\ Cardinality(Marked(P, g)) =
              Cardinality(Marked(Q, g)) - (IF Q[a][x].group = g THEN 1 ELSE 0)
  <1> DEFINE n == Len(Q[a])
             A == Marked(Q, g) \ {<<a, x>>}
             B == Marked(P, g)
             shift(t) == IF t[1] = a /\ t[2] > x THEN <<a, t[2] - 1>> ELSE t
             f == [t \in A |-> shift(t)]
  <1>0. Q \in [I -> Seq(S)] /\ DOMAIN Q = I
    BY DEF Vectors
  <1>1. /\ n \in Nat /\ P \in [I -> Seq(S)] /\ Len(P[a]) = n - 1
        /\ \A y \in 1 .. n - 1 : P[a][y] = IF y < x THEN Q[a][y] ELSE Q[a][y + 1]
        /\ \A b \in I \ {a} : P[b] = Q[b]
    <2>1. PICK queue : queue = Q[a]
      OBVIOUS
    <2>2. PICK s : s = Without(queue, x)
      OBVIOUS
    <2>3. queue \in Seq(S) /\ x \in 1 .. Len(queue) /\ n = Len(queue)
      BY <1>0, <2>1
    <2>4. /\ s \in Seq(S) /\ Len(s) = Len(queue) - 1
          /\ \A y \in 1 .. Len(queue) - 1 : s[y] = IF y < x THEN queue[y] ELSE queue[y + 1]
      BY <2>2, <2>3, WithoutItems
    <2>5. P = [Q EXCEPT ![a] = s]
      BY <2>1, <2>2 DEF Put
    <2> QED
      BY <1>0, <2>1, <2>3, <2>4, <2>5
  <1>2. ASSUME NEW t \in A PROVE \E b \in I, y \in Nat \ {0} : t = <<b, y>>
    BY <1>0 DEF Marked
  <1>3. ASSUME NEW t \in B PROVE \E b \in I, y \in Nat \ {0} : t = <<b, y>>
    BY <1>1 DEF Marked
  <1>4. ASSUME NEW b \in I, NEW y \in Nat \ {0}
        PROVE  /\ <<b, y>> \in A <=> y <= Len(Q[b]) /\ Q[b][y].group = g /\ ~(b = a /\ y = x)
               /\ <<b, y>> \in B <=> y <= Len(P[b]) /\ P[b][y].group = g
    <2> HIDE DEF A, B
    <2>1. <<b, y>> \in Marked(Q, g) <=> y <= Len(Q[b]) /\ Q[b][y].group = g
      <3>1. b \in DOMAIN Q
        BY <1>0
      <3> QED
        BY <3>1, MarkedIs
    <2>2. <<b, y>> \in Marked(P, g) <=> y <= Len(P[b]) /\ P[b][y].group = g
      <3>1. b \in DOMAIN P
        BY <1>1
      <3> QED
        BY <3>1, MarkedIs
    <2>3. <<b, y>> = <<a, x>> <=> b = a /\ y = x
      OBVIOUS
    <2>4. <<b, y>> \in A <=> <<b, y>> \in Marked(Q, g) /\ <<b, y>> # <<a, x>>
      BY DEF A
    <2> QED
      BY <2>1, <2>2, <2>3, <2>4 DEF B
  <1>5. ASSUME NEW b \in I, NEW y \in Nat \ {0}
        PROVE  shift(<<b, y>>) = IF b = a /\ y > x THEN <<a, y - 1>> ELSE <<b, y>>
    OBVIOUS
  <1>6. ASSUME NEW t \in A PROVE shift(t) \in B
    <2>1. PICK b \in I, y \in Nat \ {0} : t = <<b, y>>
      BY <1>2
    <2>2. y <= Len(Q[b]) /\ Q[b][y].group = g /\ ~(b = a /\ y = x)
      BY <1>4, <1>6, <2>1
    <2>3. CASE b = a /\ y > x
      <3>1. y - 1 \in Nat \ {0} /\ y - 1 <= n - 1 /\ P[a][y - 1] = Q[a][y]
        BY <1>1, <2>2, <2>3
      <3>2. <<a, y - 1>> \in B
        BY <1>1, <1>4, <2>2, <2>3, <3>1
      <3> QED
        BY <1>5, <2>1, <2>3, <3>2
    <2>4. CASE b = a /\ y < x
      <3>1. y \in 1 .. n - 1 /\ P[a][y] = Q[a][y]
        BY <1>1, <2>2, <2>4
      <3>2. y <= Len(P[b]) /\ P[b][y].group = g
        BY <1>1, <2>2, <2>4, <3>1
      <3>3. <<b, y>> \in B
        BY <1>4, <3>2
      <3> QED
        BY <1>5, <2>1, <2>4, <3>3
    <2>5. CASE b # a
      <3>1. <<b, y>> \in B
        BY <1>1, <1>4, <2>2, <2>5
      <3> QED
        BY <1>5, <2>1, <2>5, <3>1
    <2> QED
      BY <2>2, <2>3, <2>4, <2>5
  <1>7. ASSUME NEW t \in A, NEW u \in A, shift(t) = shift(u) PROVE t = u
    <2>1. PICK b \in I, y \in Nat \ {0} : t = <<b, y>>
      BY <1>2
    <2>2. PICK c \in I, z \in Nat \ {0} : u = <<c, z>>
      BY <1>2
    <2>3. ~(b = a /\ y = x) /\ ~(c = a /\ z = x)
      BY <1>4, <1>7, <2>1, <2>2
    <2>4. (IF b = a /\ y > x THEN <<a, y - 1>> ELSE <<b, y>>) =
          (IF c = a /\ z > x THEN <<a, z - 1>> ELSE <<c, z>>)
      BY <1>5, <1>7, <2>1, <2>2
    <2>5. b = c /\ y = z
      BY <2>3, <2>4
    <2> QED
      BY <2>1, <2>2, <2>5
  <1>8. ASSUME NEW t \in B PROVE \E u \in A : shift(u) = t
    <2>1. PICK b \in I, y \in Nat \ {0} : t = <<b, y>>
      BY <1>3
    <2>2. y <= Len(P[b]) /\ P[b][y].group = g
      BY <1>4, <1>8, <2>1
    <2>3. CASE b = a /\ y >= x
      <3>1. <<a, y + 1>> \in A
        BY <1>1, <1>4, <2>2, <2>3, SMTT(30)
      <3>2. shift(<<a, y + 1>>) = t
        BY <1>5, <2>1, <2>3
      <3> QED
        BY <3>1, <3>2
    <2>4. CASE b # a \/ y < x
      <3>1. t \in A
        <4>1. y <= Len(Q[b]) /\ Q[b][y].group = g /\ ~(b = a /\ y = x)
          <5>1. CASE b # a
            BY <1>1, <2>2, <5>1
          <5>2. CASE b = a /\ y < x
            BY <1>1, <2>2, <5>2
          <5> QED
            BY <2>4, <5>1, <5>2
        <4> QED
          BY <1>4, <2>1, <4>1
      <3>2. shift(t) = t
        BY <1>5, <2>1, <2>4
      <3> QED
        BY <3>1, <3>2
    <2> QED
      BY <2>3, <2>4
  <1> HIDE DEF shift, A, B
  <1>9. f \in Bijection(A, B)
    <2>1. f \in [A -> B]
      BY <1>6
    <2>2. f \in Injection(A, B)
      BY <1>7, <2>1 DEF Injection, IsInjective
    <2>3. f \in Surjection(A, B)
      BY <1>8, <2>1 DEF Surjection
    <2> QED
      BY <2>2, <2>3 DEF Bijection
  <1>10. IsFiniteSet(A) /\ Cardinality(A) =
           IF <<a, x>> \in Marked(Q, g) THEN Cardinality(Marked(Q, g)) - 1
           ELSE Cardinality(Marked(Q, g))
    BY FS_RemoveElement DEF A
  <1>11. <<a, x>> \in Marked(Q, g) <=> Q[a][x].group = g
    <2>1. a \in DOMAIN Q /\ x \in Nat \ {0} /\ x <= Len(Q[a])
      BY <1>0
    <2> QED
      BY <2>1, MarkedIs
  <1>12. IsFiniteSet(B) /\ Cardinality(B) = Cardinality(A)
    BY <1>9, <1>10, FS_Bijection DEF ExistsBijection
  <1>13. Cardinality(Marked(Q, g)) \in Nat
    BY FS_CardinalityType
  <1> QED
    BY <1>10, <1>11, <1>12, <1>13 DEF B

(* The queues of one rank: what it sent to each, and who waits for it. *)
Row(n, R, r) == [q \in R |-> n[<<r, q>>]]
Column(n, R, r) == [q \in R |-> n[<<q, r>>]]
SameRows(N, n, R, a) == \A r \in R \ {a} : Row(N, R, r) = Row(n, R, r)
SameColumns(N, n, R, a) == \A r \in R \ {a} : Column(N, R, r) = Column(n, R, r)

(* The counters of requests d count what waits in the queues n and p. *)
Tallied(n, p, d, R) ==
  \A r \in R, g \in Groups :
    /\ IsFiniteSet(Marked(Row(n, R, r), g)) /\ IsFiniteSet(Marked(Column(p, R, r), g))
    /\ d[r][g] = Cardinality(Marked(Row(n, R, r), g)) + Cardinality(Marked(Column(p, R, r), g))

(* One queue changes. *)
LEMMA OneQueue ==
  ASSUME NEW R, NEW S, NEW n \in Matrices(R, S), NEW a \in R, NEW b \in R, NEW s \in Seq(S),
         NEW N, PutAt(N, n, a, b, s)
  PROVE  /\ N \in Matrices(R, S)
         /\ Put(Row(N, R, a), Row(n, R, a), b, s)
         /\ SameRows(N, n, R, a)
         /\ Put(Column(N, R, b), Column(n, R, b), a, s)
         /\ SameColumns(N, n, R, b)
  <1>1. N \in Matrices(R, S)
    BY DEF PutAt, Matrices
  <1>2. N[<<a, b>>] = s /\ \A q \in R, r \in R : <<q, r>> # <<a, b>> => N[<<q, r>>] = n[<<q, r>>]
    BY DEF PutAt, Matrices
  <1>3. Put(Row(N, R, a), Row(n, R, a), b, s)
    <2>1. \A q \in R : N[<<a, q>>] = IF q = b THEN s ELSE n[<<a, q>>]
      BY <1>2
    <2> QED
      BY <2>1 DEF Row, Put
  <1>4. SameRows(N, n, R, a)
    BY <1>2 DEF Row, SameRows
  <1>5. Put(Column(N, R, b), Column(n, R, b), a, s)
    <2>1. \A q \in R : N[<<q, b>>] = IF q = a THEN s ELSE n[<<q, b>>]
      BY <1>2
    <2> QED
      BY <2>1 DEF Column, Put
  <1>6. SameColumns(N, n, R, b)
    BY <1>2 DEF Column, SameColumns
  <1> QED
    BY <1>1, <1>3, <1>4, <1>5, <1>6

(* From the queues Q to P, the items of group h become c more. *)
Changed(Q, P, h, c) ==
  \A g \in Groups : IsFiniteSet(Marked(Q, g)) =>
    /\ IsFiniteSet(Marked(P, g))
    /\ Cardinality(Marked(P, g)) = Cardinality(Marked(Q, g)) + (IF h = g THEN c ELSE 0)

LEMMA AppendChanges ==
  ASSUME NEW R, NEW S, NEW n \in Matrices(R, S), NEW a \in R, NEW b \in R, NEW m \in S,
         NEW N, AppendedAt(N, n, a, b, m), NEW h, h = m.group
  PROVE  /\ N \in Matrices(R, S)
         /\ Changed(Row(n, R, a), Row(N, R, a), h, 1)
         /\ SameRows(N, n, R, a)
         /\ Changed(Column(n, R, b), Column(N, R, b), h, 1)
         /\ SameColumns(N, n, R, b)
  <1>1. PICK s : s = Append(n[<<a, b>>], m)
    OBVIOUS
  <1>2. n[<<a, b>>] \in Seq(S) /\ s \in Seq(S) /\ PutAt(N, n, a, b, s)
    BY <1>1 DEF AppendedAt, PutAt, Matrices
  <1>3. /\ N \in Matrices(R, S)
        /\ Put(Row(N, R, a), Row(n, R, a), b, s)
        /\ SameRows(N, n, R, a)
        /\ Put(Column(N, R, b), Column(n, R, b), a, s)
        /\ SameColumns(N, n, R, b)
    BY <1>2, OneQueue
  <1>4. ASSUME NEW Q \in Vectors(R, S), NEW q \in R, s = Append(Q[q], m), NEW P, Put(P, Q, q, s)
        PROVE  Changed(Q, P, h, 1)
    <2>1. Appended(P, Q, q, m)
      BY <1>4 DEF Put, Appended
    <2>2. ASSUME NEW g \in Groups, IsFiniteSet(Marked(Q, g))
          PROVE  /\ IsFiniteSet(Marked(P, g))
                 /\ Cardinality(Marked(P, g)) =
                      Cardinality(Marked(Q, g)) + (IF h = g THEN 1 ELSE 0)
      BY <2>1, <2>2, AppendMarks
    <2> QED
      BY <2>2 DEF Changed
  <1>5. /\ Row(n, R, a) \in Vectors(R, S) /\ Row(n, R, a)[b] = n[<<a, b>>]
        /\ Column(n, R, b) \in Vectors(R, S) /\ Column(n, R, b)[a] = n[<<a, b>>]
    BY DEF Row, Column, Vectors, Matrices
  <1>6. Changed(Row(n, R, a), Row(N, R, a), h, 1)
    BY <1>1, <1>3, <1>4, <1>5
  <1>7. Changed(Column(n, R, b), Column(N, R, b), h, 1)
    BY <1>1, <1>3, <1>4, <1>5
  <1> QED
    BY <1>3, <1>6, <1>7

LEMMA RemoveChanges ==
  ASSUME NEW R, NEW S, NEW n \in Matrices(R, S), NEW a \in R, NEW b \in R,
         NEW x, NEW N, RemovedAt(N, n, a, b, x),
         NEW h, h = n[<<a, b>>][x].group
  PROVE  /\ N \in Matrices(R, S)
         /\ Changed(Row(n, R, a), Row(N, R, a), h, -1)
         /\ SameRows(N, n, R, a)
         /\ Changed(Column(n, R, b), Column(N, R, b), h, -1)
         /\ SameColumns(N, n, R, b)
  <1>1. PICK queue : queue = n[<<a, b>>]
    OBVIOUS
  <1>2. PICK s : s = Without(queue, x)
    OBVIOUS
  <1>3. queue \in Seq(S) /\ x \in 1 .. Len(queue) /\ PutAt(N, n, a, b, s)
    BY <1>1, <1>2 DEF RemovedAt, PutAt, Matrices
  <1>4. s \in Seq(S)
    BY <1>2, <1>3, WithoutItems
  <1>5. /\ N \in Matrices(R, S)
        /\ Put(Row(N, R, a), Row(n, R, a), b, s)
        /\ SameRows(N, n, R, a)
        /\ Put(Column(N, R, b), Column(n, R, b), a, s)
        /\ SameColumns(N, n, R, b)
    BY <1>3, <1>4, OneQueue
  <1>6. ASSUME NEW Q \in Vectors(R, S), NEW q \in R, queue = Q[q], NEW P, Put(P, Q, q, s)
        PROVE  Changed(Q, P, h, -1)
    <2>1. Put(P, Q, q, Without(Q[q], x)) /\ x \in 1 .. Len(Q[q]) /\ h = Q[q][x].group
      BY <1>1, <1>2, <1>3, <1>6
    <2>2. ASSUME NEW g \in Groups, IsFiniteSet(Marked(Q, g))
          PROVE  /\ IsFiniteSet(Marked(P, g))
                 /\ Cardinality(Marked(P, g)) =
                      Cardinality(Marked(Q, g)) + (IF h = g THEN -1 ELSE 0)
      <3>1. /\ IsFiniteSet(Marked(P, g))
            /\ Cardinality(Marked(P, g)) =
                 Cardinality(Marked(Q, g)) - (IF Q[q][x].group = g THEN 1 ELSE 0)
        BY <2>1, <2>2, RemoveMarks
      <3>2. Cardinality(Marked(Q, g)) \in Nat
        BY <2>2, FS_CardinalityType
      <3> QED
        BY <2>1, <3>1, <3>2
    <2> QED
      BY <2>2 DEF Changed
  <1>7. /\ Row(n, R, a) \in Vectors(R, S) /\ Row(n, R, a)[b] = queue
        /\ Column(n, R, b) \in Vectors(R, S) /\ Column(n, R, b)[a] = queue
    BY <1>1 DEF Row, Column, Vectors, Matrices
  <1>8. Changed(Row(n, R, a), Row(N, R, a), h, -1)
    BY <1>5, <1>6, <1>7
  <1>9. Changed(Column(n, R, b), Column(N, R, b), h, -1)
    BY <1>5, <1>6, <1>7
  <1> QED
    BY <1>5, <1>8, <1>9

(* Counters that follow the queues. *)
LEMMA TallyKept ==
  ASSUME NEW R, NEW d \in Counters(R), NEW a \in R, NEW h \in Groups, NEW c \in Int,
         NEW D, Added(D, d, a, h, c),
         NEW n, NEW p, NEW N, NEW P, Tallied(n, p, d, R),
         SameRows(N, n, R, a), SameColumns(P, p, R, a),
         \/ Changed(Row(n, R, a), Row(N, R, a), h, c) /\ P = p
         \/ Changed(Column(p, R, a), Column(P, R, a), h, c) /\ N = n
  PROVE  D \in Counters(R) /\ Tallied(N, P, D, R)
  <1>1. D \in Counters(R) /\ \A r \in R, g \in Groups :
          D[r][g] = d[r][g] + (IF r = a /\ h = g THEN c ELSE 0)
    BY DEF Added, Counters
  <1>2. ASSUME NEW r \in R, NEW g \in Groups
        PROVE  /\ IsFiniteSet(Marked(Row(N, R, r), g)) /\ IsFiniteSet(Marked(Column(P, R, r), g))
               /\ D[r][g] = Cardinality(Marked(Row(N, R, r), g))
                              + Cardinality(Marked(Column(P, R, r), g))
    <2>1. /\ IsFiniteSet(Marked(Row(n, R, r), g)) /\ IsFiniteSet(Marked(Column(p, R, r), g))
          /\ d[r][g] = Cardinality(Marked(Row(n, R, r), g))
                         + Cardinality(Marked(Column(p, R, r), g))
      BY DEF Tallied
    <2>2. Cardinality(Marked(Row(n, R, r), g)) \in Nat
          /\ Cardinality(Marked(Column(p, R, r), g)) \in Nat
      BY <2>1, FS_CardinalityType
    <2>3. D[r][g] = d[r][g] + (IF r = a /\ h = g THEN c ELSE 0)
      BY <1>1
    <2>4. CASE r = a /\ Changed(Row(n, R, a), Row(N, R, a), h, c) /\ P = p
      <3>1. /\ IsFiniteSet(Marked(Row(N, R, a), g))
            /\ Cardinality(Marked(Row(N, R, a), g)) =
                 Cardinality(Marked(Row(n, R, a), g)) + (IF h = g THEN c ELSE 0)
        BY <2>1, <2>4 DEF Changed
      <3> QED
        BY <2>1, <2>2, <2>3, <2>4, <3>1
    <2>5. CASE r = a /\ Changed(Column(p, R, a), Column(P, R, a), h, c) /\ N = n
      <3>1. /\ IsFiniteSet(Marked(Column(P, R, a), g))
            /\ Cardinality(Marked(Column(P, R, a), g)) =
                 Cardinality(Marked(Column(p, R, a), g)) + (IF h = g THEN c ELSE 0)
        BY <2>1, <2>5 DEF Changed
      <3> QED
        BY <2>1, <2>2, <2>3, <2>5, <3>1
    <2>6. CASE r # a
      <3>1. Row(N, R, r) = Row(n, R, r) /\ Column(P, R, r) = Column(p, R, r)
        BY <2>6 DEF SameRows, SameColumns
      <3>2. D[r][g] = d[r][g]
        BY <2>1, <2>2, <2>3, <2>6
      <3> QED
        BY <2>1, <3>1, <3>2
    <2> QED
      BY <2>4, <2>5, <2>6
  <1> QED
    BY <1>1, <1>2 DEF Tallied

(* What may wait in the queues of a world: sends and receives of its texts. *)
MessageKinds == {"Send", "Recv", "Isend", "Irecv"}
MessageCalls(w) ==
  {i \in UNION {{Code[w][r][p] : p \in 1 .. Len(Code[w][r])} : r \in DOMAIN Code[w]} :
     i.k \in MessageKinds}
Items(w) ==
  {[tag |-> i.tag, at |-> i.at, group |-> i.group, flag |-> f] : i \in MessageCalls(w), f \in BOOLEAN}
    \union {[tag |-> i.tag, at |-> i.at, group |-> i.group] : i \in MessageCalls(w)}

Queues ==
  /\ net \in [Rank \X Rank -> Seq(Items(world))]
  /\ posted \in [Rank \X Rank -> Seq(Items(world))]
  /\ pend \in [Rank -> [Groups -> Int]]
  /\ Tallied(net, posted, pend, Rank)

LEMMA ItemLemma ==
  ASSUME Types, NEW r \in Rank, ~Finished(r), NEW i, i = At(r), i.k \in MessageKinds
  PROVE  /\ i.peer \in Rank /\ i.group \in Groups
         /\ \A m \in Items(world) : m.group \in Groups
         /\ \A f \in BOOLEAN :
              [tag |-> i.tag, at |-> i.at, group |-> i.group, flag |-> f] \in Items(world)
         /\ [tag |-> i.tag, at |-> i.at, group |-> i.group] \in Items(world)
  <1>1. \A j \in MessageCalls(world) : j.peer \in Rank /\ j.group \in Groups
    BY CodeAssumption DEF MessageCalls, MessageKinds, Types, Rank
  <1>2. i \in MessageCalls(world)
    BY TextLemma DEF MessageCalls, At, Text, Rank
  <1>3. ASSUME NEW m \in Items(world) PROVE m.group \in Groups
    <2>1. PICK j \in MessageCalls(world) : m.group = j.group
      BY DEF Items
    <2> QED
      BY <1>1, <2>1
  <1>4. ASSUME NEW f \in BOOLEAN
        PROVE  [tag |-> i.tag, at |-> i.at, group |-> i.group, flag |-> f] \in Items(world)
    BY <1>2 DEF Items
  <1>5. [tag |-> i.tag, at |-> i.at, group |-> i.group] \in Items(world)
    BY <1>2 DEF Items
  <1> QED
    BY <1>1, <1>2, <1>3, <1>4, <1>5

LEMMA PostSendQueues ==
  ASSUME Types, Queues, NEW r \in Rank, world' = world, ~Finished(r),
         At(r).k \in MessageKinds, PostSend(r, At(r))
  PROVE  Queues'
  <1>0. Rank' = Rank /\ Items(world)' = Items(world)
    BY DEF Rank
  <1>1. PICK i : i = At(r)
    OBVIOUS
  <1>2. PICK S : S = Items(world)
    OBVIOUS
  <1>3. PICK R : R = Rank
    OBVIOUS
  <1>4. PICK a : a = i.peer
    OBVIOUS
  <1>5. /\ r \in R /\ a \in R /\ i.group \in Groups
        /\ \A m \in S : m.group \in Groups
        /\ \A f \in BOOLEAN : [tag |-> i.tag, at |-> i.at, group |-> i.group, flag |-> f] \in S
    BY <1>1, <1>2, <1>3, <1>4, ItemLemma
  <1>6. PICK n, p, d : n = net /\ p = posted /\ d = pend
    OBVIOUS
  <1>7. PICK N, P, D : N = net' /\ P = posted' /\ D = pend'
    OBVIOUS
  <1>8. /\ n \in Matrices(R, S) /\ p \in Matrices(R, S)
        /\ d \in Counters(R) /\ Tallied(n, p, d, R)
    BY <1>2, <1>3, <1>6 DEF Queues, Matrices, Counters
  <1>9. /\ n \in Matrices(R, S) /\ p \in Matrices(R, S) /\ r \in R /\ a \in R
    BY <1>5, <1>8
  <1>10. d \in Counters(R) /\ Tallied(n, p, d, R)
    BY <1>8
  <1>11. CASE Waits(p[<<r, a>>], i.tag)
    <2>1. PICK x : x = FirstOf(p[<<r, a>>], i.tag)
      OBVIOUS
    <2>2. PICK h : h = p[<<r, a>>][x].group
      OBVIOUS
    <2>3. p[<<r, a>>] \in Seq(S)
      BY <1>5, <1>8 DEF Matrices
    <2>4. x \in 1 .. Len(p[<<r, a>>]) /\ p[<<r, a>>][x] \in S
      BY <1>11, <2>1, <2>3, WaitsLemma
    <2>5. h \in Groups
      BY <1>5, <2>2, <2>4
    <2>6. RemovedAt(P, p, r, a, x)
      BY <1>1, <1>4, <1>11, <1>6, <1>7, <2>1, <2>4 DEF PostSend, PostReceive, RemovedAt
    <2>7. D = [d EXCEPT ![a][h] = @ - 1]
      BY <1>1, <1>4, <1>11, <1>6, <1>7, <2>1, <2>2 DEF PostSend
    <2>8. N = n
      BY <1>1, <1>4, <1>11, <1>6, <1>7, <2>1, <2>2 DEF PostSend
    <2>9. Added(D, d, a, h, -1)
      BY <1>5, <1>8, <2>5, <2>7 DEF Added, Counters
    <2>10. /\ P \in Matrices(R, S)
           /\ Changed(Column(p, R, a), Column(P, R, a), h, -1)
           /\ SameColumns(P, p, R, a)
      BY <1>9, <2>2, <2>6, RemoveChanges
    <2>11. SameRows(N, n, R, a)
      BY <2>8 DEF SameRows
    <2>12. D \in Counters(R) /\ Tallied(N, P, D, R)
      BY <1>9, <1>10, <2>5, <2>8, <2>9, <2>10, <2>11, TallyKept
    <2> QED
      BY <1>0, <1>2, <1>3, <1>8, <1>6, <1>7, <2>8, <2>10, <2>12 DEF Queues, Matrices, Counters
  <1>12. CASE ~Waits(p[<<r, a>>], i.tag)
    <2>1. PICK m : m = [tag |-> i.tag, at |-> i.at, group |-> i.group,
                        flag |-> i.errors /\ err[r]]
      OBVIOUS
    <2>2. PICK h : h = m.group
      OBVIOUS
    <2>3. m \in S /\ h = i.group /\ h \in Groups
      <3>1. (i.errors /\ err[r]) \in BOOLEAN
        OBVIOUS
      <3> QED
        BY <1>5, <2>1, <2>2, <3>1
    <2>4. AppendedAt(N, n, r, a, m)
      BY <1>1, <1>4, <1>12, <1>6, <1>7, <2>1 DEF PostSend, PostReceive, AppendedAt
    <2>5. D = [d EXCEPT ![r][i.group] = @ + 1]
      BY <1>1, <1>4, <1>12, <1>6, <1>7, <2>1 DEF PostSend
    <2>6. P = p
      BY <1>1, <1>4, <1>12, <1>6, <1>7, <2>1 DEF PostSend
    <2>7. m \in S /\ h \in Groups
      BY <2>3
    <2>8. Added(D, d, r, h, 1)
      BY <2>3, <2>5 DEF Added, Counters
    <2>9. /\ N \in Matrices(R, S)
          /\ Changed(Row(n, R, r), Row(N, R, r), h, 1)
          /\ SameRows(N, n, R, r)
      BY <1>9, <2>2, <2>7, <2>4, AppendChanges
    <2>10. SameColumns(P, p, R, r)
      BY <2>6 DEF SameColumns
    <2>11. D \in Counters(R) /\ Tallied(N, P, D, R)
      BY <1>9, <1>10, <2>7, <2>6, <2>8, <2>9, <2>10, TallyKept
    <2> QED
      BY <1>0, <1>2, <1>3, <1>8, <1>6, <1>7, <2>6, <2>9, <2>11 DEF Queues, Matrices, Counters
  <1> QED
    BY <1>11, <1>12

LEMMA PostReceiveQueues ==
  ASSUME Types, Queues, NEW r \in Rank, world' = world, ~Finished(r),
         At(r).k \in MessageKinds, PostReceive(r, At(r))
  PROVE  Queues'
  <1>0. Rank' = Rank /\ Items(world)' = Items(world)
    BY DEF Rank
  <1>1. PICK i : i = At(r)
    OBVIOUS
  <1>2. PICK S : S = Items(world)
    OBVIOUS
  <1>3. PICK R : R = Rank
    OBVIOUS
  <1>4. PICK a : a = i.peer
    OBVIOUS
  <1>5. /\ r \in R /\ a \in R /\ i.group \in Groups
        /\ \A m \in S : m.group \in Groups
        /\ [tag |-> i.tag, at |-> i.at, group |-> i.group] \in S
    BY <1>1, <1>2, <1>3, <1>4, ItemLemma
  <1>6. PICK n, p, d : n = net /\ p = posted /\ d = pend
    OBVIOUS
  <1>7. PICK N, P, D : N = net' /\ P = posted' /\ D = pend'
    OBVIOUS
  <1>8. /\ n \in Matrices(R, S) /\ p \in Matrices(R, S)
        /\ d \in Counters(R) /\ Tallied(n, p, d, R)
    BY <1>2, <1>3, <1>6 DEF Queues, Matrices, Counters
  <1>9. /\ n \in Matrices(R, S) /\ p \in Matrices(R, S) /\ r \in R /\ a \in R
    BY <1>5, <1>8
  <1>10. d \in Counters(R) /\ Tallied(n, p, d, R)
    BY <1>8
  <1>11. CASE Waits(n[<<a, r>>], i.tag)
    <2>1. PICK x : x = FirstOf(n[<<a, r>>], i.tag)
      OBVIOUS
    <2>2. PICK h : h = n[<<a, r>>][x].group
      OBVIOUS
    <2>3. n[<<a, r>>] \in Seq(S)
      BY <1>5, <1>8 DEF Matrices
    <2>4. x \in 1 .. Len(n[<<a, r>>]) /\ n[<<a, r>>][x] \in S
      BY <1>11, <2>1, <2>3, WaitsLemma
    <2>5. h \in Groups
      BY <1>5, <2>2, <2>4
    <2>6. RemovedAt(N, n, a, r, x)
      BY <1>1, <1>4, <1>11, <1>6, <1>7, <2>1, <2>4 DEF PostSend, PostReceive, RemovedAt
    <2>7. D = [d EXCEPT ![a][h] = @ - 1]
      BY <1>1, <1>4, <1>11, <1>6, <1>7, <2>1, <2>2 DEF PostReceive
    <2>8. P = p
      BY <1>1, <1>4, <1>11, <1>6, <1>7, <2>1, <2>2 DEF PostReceive
    <2>9. Added(D, d, a, h, -1)
      BY <1>5, <1>8, <2>5, <2>7 DEF Added, Counters
    <2>10. /\ N \in Matrices(R, S)
           /\ Changed(Row(n, R, a), Row(N, R, a), h, -1)
           /\ SameRows(N, n, R, a)
      BY <1>9, <2>2, <2>6, RemoveChanges
    <2>11. SameColumns(P, p, R, a)
      BY <2>8 DEF SameColumns
    <2>12. D \in Counters(R) /\ Tallied(N, P, D, R)
      BY <1>9, <1>10, <2>5, <2>8, <2>9, <2>10, <2>11, TallyKept
    <2> QED
      BY <1>0, <1>2, <1>3, <1>8, <1>6, <1>7, <2>8, <2>10, <2>12 DEF Queues, Matrices, Counters
  <1>12. CASE ~Waits(n[<<a, r>>], i.tag)
    <2>1. PICK m : m = [tag |-> i.tag, at |-> i.at, group |-> i.group]
      OBVIOUS
    <2>2. PICK h : h = m.group
      OBVIOUS
    <2>3. m \in S /\ h = i.group /\ h \in Groups
      BY <1>5, <2>1, <2>2
    <2>4. AppendedAt(P, p, a, r, m)
      BY <1>1, <1>4, <1>12, <1>6, <1>7, <2>1 DEF PostSend, PostReceive, AppendedAt
    <2>5. D = [d EXCEPT ![r][i.group] = @ + 1]
      BY <1>1, <1>4, <1>12, <1>6, <1>7, <2>1 DEF PostReceive
    <2>6. N = n
      BY <1>1, <1>4, <1>12, <1>6, <1>7, <2>1 DEF PostReceive
    <2>7. m \in S /\ h \in Groups
      BY <2>3
    <2>8. Added(D, d, r, h, 1)
      BY <2>3, <2>5 DEF Added, Counters
    <2>9. /\ P \in Matrices(R, S)
          /\ Changed(Column(p, R, r), Column(P, R, r), h, 1)
          /\ SameColumns(P, p, R, r)
      BY <1>9, <2>2, <2>7, <2>4, AppendChanges
    <2>10. SameRows(N, n, R, r)
      BY <2>6 DEF SameRows
    <2>11. D \in Counters(R) /\ Tallied(N, P, D, R)
      BY <1>9, <1>10, <2>7, <2>6, <2>8, <2>9, <2>10, TallyKept
    <2> QED
      BY <1>0, <1>2, <1>3, <1>8, <1>6, <1>7, <2>6, <2>9, <2>11 DEF Queues, Matrices, Counters
  <1> QED
    BY <1>11, <1>12

---------------------------------------------------------------------------
(* Type correctness of the whole machine. *)
Kinds(w) == UNION {{Code[w][r][p].kind : p \in 1 .. Len(Code[w][r])} : r \in DOMAIN Code[w]}
Operation == [to : Rank, kind : Kinds(world), local : BOOLEAN]
Epochs == {"fence", "access", "exposure"}

OneSided ==
  /\ icall \in [Rank -> Nat] /\ \A r \in Rank : icall[r] \in 0 .. Len(calls[r])
  /\ epochs \in [Rank -> SUBSET Epochs]
  /\ ops \in [Rank -> SUBSET Operation]

TypeIInv == SepIInv /\ Queues /\ OneSided

LEMMA TypeInit == Init => TypeIInv
  <1> SUFFICES ASSUME Init PROVE TypeIInv
    OBVIOUS
  <1>1. SepIInv
    BY InitSep
  <1>2. OneSided
    <2>1. \A r \in Rank : icall[r] = 0 /\ Len(calls[r]) = 0
      BY DEF Init
    <2>2. icall \in [Rank -> Nat] /\ epochs \in [Rank -> SUBSET Epochs]
          /\ ops \in [Rank -> SUBSET Operation]
      BY DEF Init
    <2> QED
      BY <2>1, <2>2 DEF OneSided
  <1>3. Tallied(net, posted, pend, Rank)
    <2>1. SUFFICES ASSUME NEW r \in Rank, NEW g \in Groups
                   PROVE  /\ IsFiniteSet(Marked(Row(net, Rank, r), g))
                          /\ IsFiniteSet(Marked(Column(posted, Rank, r), g))
                          /\ pend[r][g] = Cardinality(Marked(Row(net, Rank, r), g))
                                            + Cardinality(Marked(Column(posted, Rank, r), g))
      BY DEF Tallied
    <2>2. ASSUME NEW Q, DOMAIN Q = Rank, \A q \in Rank : Q[q] = <<>>
          PROVE  Marked(Q, g) = {}
      BY <2>2 DEF Marked
    <2>3. /\ DOMAIN Row(net, Rank, r) = Rank
          /\ \A q \in Rank : Row(net, Rank, r)[q] = <<>>
          /\ DOMAIN Column(posted, Rank, r) = Rank
          /\ \A q \in Rank : Column(posted, Rank, r)[q] = <<>>
      BY DEF Init, Row, Column
    <2>4. Marked(Row(net, Rank, r), g) = {} /\ Marked(Column(posted, Rank, r), g) = {}
      BY <2>2, <2>3
    <2>5. pend[r][g] = 0
      BY DEF Init
    <2> QED
      BY <2>4, <2>5, FS_EmptySet
  <1>4. net \in [Rank \X Rank -> Seq(Items(world))] /\ posted \in [Rank \X Rank -> Seq(Items(world))]
        /\ pend \in [Rank -> [Groups -> Int]]
    BY DEF Init
  <1> QED
    BY <1>1, <1>2, <1>3, <1>4 DEF TypeIInv, Queues

(* What a step leaves alone. *)
LEMMA QueuesKept ==
  ASSUME Queues, world' = world, UNCHANGED <<pend, net, posted>>
  PROVE  Queues'
  <1>1. Rank' = Rank /\ Items(world)' = Items(world)
    BY DEF Rank
  <1> QED
    BY <1>1 DEF Queues

LEMMA OneSidedKept ==
  ASSUME OneSided, world' = world, UNCHANGED <<icall, calls, ops, epochs>>
  PROVE  OneSided'
  <1>1. Rank' = Rank /\ Operation' = Operation
    BY DEF Rank, Operation
  <1> QED
    BY <1>1 DEF OneSided

LEMMA StepQueues ==
  ASSUME TypeIInv, NEW r \in Rank, Step(r)
  PROVE  Queues'
  <1> USE DEF TypeIInv
  <1>0. Types
    BY DEF SepIInv
  <1>1. CASE StartMessage(r)
    <2>1. world' = world /\ ~Finished(r) /\ At(r).k \in MessageKinds
          /\ (PostSend(r, At(r)) \/ PostReceive(r, At(r)))
      BY <1>1 DEF StartMessage, Runs, MessageKinds
    <2> QED
      BY <1>0, <2>1, PostSendQueues, PostReceiveQueues
  <1>2. CASE EnterMessage(r)
    <2>1. world' = world /\ ~Finished(r) /\ At(r).k \in MessageKinds
          /\ (PostSend(r, At(r)) \/ PostReceive(r, At(r)))
      BY <1>2 DEF EnterMessage, Runs, MessageKinds
    <2> QED
      BY <1>0, <2>1, PostSendQueues, PostReceiveQueues
  <1>3. CASE \/ EnterCollective(r) \/ LeaveCollective(r) \/ StartCollective(r)
             \/ WaitForCollective(r) \/ PollCollective(r)
    <2>1. world' = world /\ UNCHANGED <<pend, net, posted>>
      BY <1>3 DEF EnterCollective, LeaveCollective, StartCollective, WaitForCollective,
                  PollCollective, messages
    <2> QED
      BY <2>1, QueuesKept
  <1>4. CASE \/ LeaveMessage(r) \/ WaitForMessages(r) \/ Issue(r) \/ FlushOps(r)
             \/ LockTargets(r) \/ UnlockTargets(r)
    <2>1. world' = world /\ UNCHANGED <<pend, net, posted>>
      BY <1>4 DEF LeaveMessage, WaitForMessages, Issue, FlushOps, LockTargets, UnlockTargets,
                  messages
    <2> QED
      BY <2>1, QueuesKept
  <1>5. CASE ActiveTarget(r) \/ Alone(r) \/ AbortAll(r)
    <2>1. world' = world /\ UNCHANGED <<pend, net, posted>>
      BY <1>5 DEF ActiveTarget, Alone, AbortAll, messages
    <2> QED
      BY <2>1, QueuesKept
  <1> QED
    BY <1>1, <1>2, <1>3, <1>4, <1>5 DEF Step

LEMMA FlushedLemma ==
  ASSUME OneSided, NEW r \in Rank, NEW T
  PROVE  /\ Flushed(r, T) \in SUBSET Operation
         /\ FlushedLocally(r, T) \in SUBSET Operation
  <1>1. ops[r] \in SUBSET Operation
    BY DEF OneSided
  <1>2. Flushed(r, T) \in SUBSET Operation
    BY <1>1 DEF Flushed
  <1>3. ASSUME NEW o \in Operation PROVE [o EXCEPT !.local = TRUE] \in Operation
    BY DEF Operation
  <1>4. FlushedLocally(r, T) \in SUBSET Operation
    BY <1>1, <1>2, <1>3 DEF FlushedLocally
  <1> QED
    BY <1>2, <1>4

(* A change to the operations and epochs of one rank. *)
LEMMA OneSidedStep ==
  ASSUME OneSided, world' = world, UNCHANGED <<icall, calls>>, NEW r \in Rank,
         NEW e \in SUBSET Epochs, epochs' = [epochs EXCEPT ![r] = e],
         NEW o \in SUBSET Operation, ops' = [ops EXCEPT ![r] = o]
  PROVE  OneSided'
  <1>1. Rank' = Rank /\ Operation' = Operation
    BY DEF Rank, Operation
  <1>2. epochs' \in [Rank -> SUBSET Epochs] /\ ops' \in [Rank -> SUBSET Operation]
    BY DEF OneSided
  <1> QED
    BY <1>1, <1>2 DEF OneSided

LEMMA EnterOneSided ==
  ASSUME SepIInv, OneSided, NEW r \in Rank, EnterCollective(r) \/ StartCollective(r)
  PROVE  OneSided'
  <1>1. /\ ~Finished(r) /\ At(r).k \in {"Coll", "Icoll"} /\ world' = world /\ Enter(r)
        /\ icall' = icall \/ icall' = [icall EXCEPT ![r] = Len(calls'[r])]
    BY DEF EnterCollective, StartCollective, Runs
  <1>2. /\ Rank' = Rank /\ \A q \in Rank \ {r} : calls'[q] = calls[q]
        /\ Len(calls'[r]) = Len(calls[r]) + 1
    BY <1>1, EnterLemma
  <1>3. Len(calls[r]) \in Nat
    BY DEF SepIInv, Types
  <1>4. icall' \in [Rank -> Nat] /\ \A q \in Rank : icall'[q] \in 0 .. Len(calls'[q])
    <2>1. icall \in [Rank -> Nat] /\ \A q \in Rank : icall[q] \in 0 .. Len(calls[q])
      BY DEF OneSided
    <2>2. PICK n : n = Len(calls[r])
      OBVIOUS
    <2>3. n \in Nat /\ Len(calls'[r]) = n + 1 /\ icall[r] \in 0 .. n
      BY <1>2, <1>3, <2>1, <2>2
    <2>4. icall' = icall \/ icall' = [icall EXCEPT ![r] = n + 1]
      BY <1>1, <2>3
    <2>5. icall' \in [Rank -> Nat] /\ icall'[r] \in 0 .. n + 1
          /\ \A q \in Rank \ {r} : icall'[q] = icall[q]
      BY <2>1, <2>3, <2>4
    <2>6. ASSUME NEW q \in Rank PROVE icall'[q] \in 0 .. Len(calls'[q])
      <3>1. CASE q = r
        BY <2>3, <2>5, <3>1
      <3>2. CASE q # r
        BY <1>2, <2>1, <2>5, <3>2
      <3> QED
        BY <3>1, <3>2
    <2> QED
      BY <2>5, <2>6
  <1>5. Operation' = Operation
    BY <1>1, <1>2 DEF Operation
  <1>6. ops' \in [Rank -> SUBSET Operation]
    BY <1>1 DEF Enter, OneSided
  <1>7. epochs' \in [Rank -> SUBSET Epochs]
    <2>1. PICK e : epochs' = [epochs EXCEPT ![r] = e] /\ (e = {"fence"} \/ e = {} \/ e = epochs[r])
      BY <1>1 DEF Enter
    <2> QED
      BY <2>1 DEF OneSided, Epochs
  <1> QED
    BY <1>2, <1>4, <1>5, <1>6, <1>7 DEF OneSided

LEMMA StepOneSided ==
  ASSUME TypeIInv, NEW r \in Rank, Step(r)
  PROVE  OneSided'
  <1> USE DEF TypeIInv
  <1>0. epochs \in [Rank -> SUBSET Epochs] /\ ops \in [Rank -> SUBSET Operation]
    BY DEF OneSided
  <1>1. CASE EnterCollective(r) \/ StartCollective(r)
    BY <1>1, EnterOneSided
  <1>2. CASE WaitForCollective(r) \/ PollCollective(r)
    <2>1. /\ world' = world /\ calls' = calls /\ UNCHANGED <<ops, epochs>>
          /\ icall' = icall \/ icall' = [icall EXCEPT ![r] = 0]
      BY <1>2 DEF WaitForCollective, PollCollective, windows
    <2>2. Rank' = Rank /\ Operation' = Operation
      BY <2>1 DEF Rank, Operation
    <2>3. \A q \in Rank : Len(calls[q]) \in Nat
      BY DEF SepIInv, Types
    <2> QED
      BY <2>1, <2>2, <2>3 DEF OneSided
  <1>3. CASE \/ LeaveCollective(r) \/ StartMessage(r) \/ EnterMessage(r) \/ LeaveMessage(r)
             \/ WaitForMessages(r) \/ LockTargets(r) \/ Alone(r) \/ AbortAll(r)
    <2>1. world' = world /\ UNCHANGED <<icall, calls, ops, epochs>>
      BY <1>3 DEF LeaveCollective, StartMessage, EnterMessage, LeaveMessage, WaitForMessages,
                  LockTargets, Alone, AbortAll, collectives, windows
    <2> QED
      BY <2>1, OneSidedKept
  <1>4. CASE Issue(r)
    <2>1. PICK i : i = At(r)
      OBVIOUS
    <2>2. /\ world' = world /\ UNCHANGED <<icall, calls, epochs>>
          /\ ops' = [ops EXCEPT ![r] = @ \union {[to |-> i.to, kind |-> i.kind, local |-> FALSE]}]
          /\ ~Finished(r) /\ i.k = "Rma"
      BY <1>4, <2>1 DEF Issue, Runs, collectives
    <2>3. i.to \in Rank /\ i.kind \in Kinds(world)
      <3>1. pc[r] \in 1 .. Len(Text(r)) /\ world \in World
        BY <2>2, TextLemma DEF SepIInv, Types
      <3>2. i = Code[world][r][pc[r]] /\ r \in DOMAIN Code[world]
            /\ pc[r] \in 1 .. Len(Code[world][r])
        BY <2>1, <3>1 DEF At, Text, Rank
      <3> QED
        BY <2>2, <3>1, <3>2, CodeAssumption DEF Kinds, Rank
    <2>4. [to |-> i.to, kind |-> i.kind, local |-> FALSE] \in Operation
      BY <2>3 DEF Operation
    <2>5. PICK o \in SUBSET Operation : ops' = [ops EXCEPT ![r] = o]
      <3>1. PICK x \in Operation : x = [to |-> i.to, kind |-> i.kind, local |-> FALSE]
        BY <2>4
      <3>2. ops' = [ops EXCEPT ![r] = ops[r] \union {x}] /\ ops[r] \union {x} \in SUBSET Operation
        BY <1>0, <2>2, <3>1
      <3> QED
        BY <3>2
    <2>6. epochs' = [epochs EXCEPT ![r] = epochs[r]] /\ epochs[r] \in SUBSET Epochs
      BY <1>0, <2>2
    <2> QED
      BY <2>2, <2>5, <2>6, OneSidedStep
  <1>5. CASE FlushOps(r) \/ UnlockTargets(r)
    <2>1. PICK T : T = At(r).to
      OBVIOUS
    <2>2. /\ world' = world /\ UNCHANGED <<icall, calls, epochs>>
          /\ \/ ops' = [ops EXCEPT ![r] = Flushed(r, T)]
             \/ ops' = [ops EXCEPT ![r] = FlushedLocally(r, T)]
      BY <1>5, <2>1 DEF FlushOps, UnlockTargets, collectives
    <2>3. PICK o \in SUBSET Operation : ops' = [ops EXCEPT ![r] = o]
      BY <2>2, FlushedLemma
    <2>4. epochs' = [epochs EXCEPT ![r] = epochs[r]] /\ epochs[r] \in SUBSET Epochs
      BY <1>0, <2>2
    <2> QED
      BY <2>2, <2>3, <2>4, OneSidedStep
  <1>6. CASE ActiveTarget(r)
    <2>1. PICK T : T = {At(r).to}
      OBVIOUS
    <2>2. /\ world' = world /\ UNCHANGED <<icall, calls>>
          /\ ops' = ops \/ ops' = [ops EXCEPT ![r] = Flushed(r, T)]
          /\ \/ epochs' = [epochs EXCEPT ![r] = @ \union {"exposure"}]
             \/ epochs' = [epochs EXCEPT ![r] = @ \union {"access"}]
             \/ epochs' = [epochs EXCEPT ![r] = @ \ {"access"}]
             \/ epochs' = [epochs EXCEPT ![r] = @ \ {"exposure"}]
      BY <1>6, <2>1 DEF ActiveTarget, collectives
    <2>3. PICK o \in SUBSET Operation : ops' = [ops EXCEPT ![r] = o]
      <3>1. ops = [ops EXCEPT ![r] = ops[r]] /\ ops[r] \in SUBSET Operation
        BY <1>0
      <3>2. Flushed(r, T) \in SUBSET Operation
        BY FlushedLemma
      <3> QED
        BY <2>2, <3>1, <3>2
    <2>4. PICK e \in SUBSET Epochs : epochs' = [epochs EXCEPT ![r] = e]
      <3>1. epochs[r] \in SUBSET Epochs
        BY <1>0
      <3>2. /\ epochs[r] \union {"exposure"} \in SUBSET Epochs
            /\ epochs[r] \union {"access"} \in SUBSET Epochs
            /\ epochs[r] \ {"access"} \in SUBSET Epochs
            /\ epochs[r] \ {"exposure"} \in SUBSET Epochs
        BY <3>1 DEF Epochs
      <3> QED
        BY <2>2, <3>2
    <2> QED
      BY <2>2, <2>3, <2>4, OneSidedStep
  <1> QED
    BY <1>1, <1>2, <1>3, <1>4, <1>5, <1>6 DEF Step

LEMMA TypeNext == TypeIInv /\ [Next]_vars => TypeIInv'
  <1> SUFFICES ASSUME TypeIInv, [Next]_vars PROVE TypeIInv'
    OBVIOUS
  <1>1. SepIInv'
    BY NextSep DEF TypeIInv
  <1>2. ASSUME NEW r \in Rank, Step(r) PROVE Queues' /\ OneSided'
    BY <1>2, StepQueues, StepOneSided
  <1>3. CASE UNCHANGED vars
    <2>1. world' = world /\ UNCHANGED <<pend, net, posted>>
          /\ UNCHANGED <<icall, calls, ops, epochs>>
      BY <1>3 DEF vars
    <2>2. Queues' /\ OneSided'
      BY <2>1, QueuesKept, OneSidedKept DEF TypeIInv
    <2> QED
      BY <1>1, <2>2 DEF TypeIInv
  <1> QED
    BY <1>1, <1>2, <1>3 DEF Next, Done, TypeIInv

(* In every run of every program: the counters by which the benchmarks     *)
(* wait for their requests never go below zero, since they count exactly   *)
(* the messages and the receives that wait for a counterpart; a rank waits *)
(* for a collective operation that it has made; and its epochs and one-    *)
(* sided operations are of the kinds there are, their targets ranks.       *)
THEOREM TypeCorrect == Spec => []TypeOK
  <1>1. ASSUME TypeIInv PROVE TypeOK
    <2>1. Types /\ Queues /\ OneSided
      BY <1>1 DEF TypeIInv, SepIInv
    <2>2. ASSUME NEW r \in Rank, NEW g \in Groups PROVE pend[r][g] \in Nat
      <3>1. PICK A, B : IsFiniteSet(A) /\ IsFiniteSet(B) /\ pend[r][g] = Cardinality(A) + Cardinality(B)
        BY <2>1 DEF Queues, Tallied
      <3>2. Cardinality(A) \in Nat /\ Cardinality(B) \in Nat
        BY <3>1, FS_CardinalityType
      <3> QED
        BY <3>1, <3>2
    <2>3. /\ \A r \in Rank : icall[r] \in 0 .. Len(calls[r])
          /\ \A r \in Rank : epochs[r] \subseteq Epochs
          /\ \A r \in Rank : \A o \in ops[r] : o.to \in Rank
      BY <2>1 DEF OneSided, Operation
    <2> QED
      BY <2>1, <2>2, <2>3 DEF TypeOK, Types, Epochs
  <1>2. TypeIInv => TypeOK
    BY <1>1
  <1> QED
    BY TypeInit, TypeNext, <1>2, PTL DEF Spec

---------------------------------------------------------------------------
(* What a rank does to memory.  A step of rank r changes no operations,    *)
(* epochs and locks but its own.                                           *)
MemoryIs ==
  /\ ops = [r \in Rank |-> ops[r]]
  /\ epochs = [r \in Rank |-> epochs[r]]
  /\ held = [r \in Rank |-> held[r]]

Same(q) == ops'[q] = ops[q] /\ epochs'[q] = epochs[q] /\ held'[q] = held[q]
Effect(r) ==
  /\ ops'[r] = OpsAfter(At(r), ops[r])
  /\ epochs'[r] = EpochsAfter(At(r), epochs[r])
  /\ held'[r] = HeldAfter(world, At(r), held[r])

Apart == {"Coll", "Icoll", "Rma", "Flush", "Unlock", "Lock", "Post", "Start", "Complete", "WinWait"}

LEMMA IdleLemma ==
  ASSUME NEW w, NEW i, i.k \notin Apart, NEW o, NEW e \in SUBSET Epochs, NEW h
  PROVE  OpsAfter(i, o) = o /\ EpochsAfter(i, e) = e /\ HeldAfter(w, i, h) = h
  <1>1. OpsAfter(i, o) = o
    BY DEF OpsAfter, Remains, LeftOrigin, Issued, Apart, Collects
  <1>2. EpochsAfter(i, e) = e
    BY DEF EpochsAfter, Ends, Begins, Apart, Collects, Epochs
  <1>3. HeldAfter(w, i, h) = h
    BY DEF HeldAfter, Locks, Apart
  <1> QED
    BY <1>1, <1>2, <1>3

(* One of the three changed at r.                                          *)
LEMMA MemoryStep ==
  ASSUME MemoryIs, Rank' = Rank, NEW r \in Rank, NEW o, NEW e, NEW h,
         ops' = [ops EXCEPT ![r] = o], epochs' = [epochs EXCEPT ![r] = e],
         held' = [held EXCEPT ![r] = h]
  PROVE  /\ MemoryIs' /\ ops'[r] = o /\ epochs'[r] = e /\ held'[r] = h
         /\ \A q \in Rank \ {r} : Same(q)
  <1>1. /\ ops' = [q \in Rank |-> IF q = r THEN o ELSE ops[q]]
        /\ epochs' = [q \in Rank |-> IF q = r THEN e ELSE epochs[q]]
        /\ held' = [q \in Rank |-> IF q = r THEN h ELSE held[q]]
    BY DEF MemoryIs
  <1>2. /\ ops'[r] = o /\ epochs'[r] = e /\ held'[r] = h
        /\ \A q \in Rank \ {r} : Same(q)
    BY <1>1 DEF Same
  <1>3. /\ ops' = [q \in Rank |-> ops'[q]] /\ epochs' = [q \in Rank |-> epochs'[q]]
        /\ held' = [q \in Rank |-> held'[q]]
    BY <1>1
  <1> QED
    BY <1>2, <1>3 DEF MemoryIs

LEMMA MemoryKept ==
  ASSUME MemoryIs, Rank' = Rank, UNCHANGED <<ops, epochs, held>>
  PROVE  MemoryIs' /\ \A q \in Rank : Same(q)
  BY DEF MemoryIs, Same

LEMMA EnterMemory ==
  ASSUME SepIInv, OneSided, MemoryIs, NEW r \in Rank, EnterCollective(r) \/ StartCollective(r)
  PROVE  MemoryIs' /\ Effect(r) /\ \A q \in Rank \ {r} : Same(q)
  <1>1. /\ Collects(At(r)) /\ world' = world /\ held' = held /\ Enter(r)
    BY DEF EnterCollective, StartCollective, Runs, Collects
  <1>2. PICK i : i = At(r)
    OBVIOUS
  <1> DEFINE o == IF i.quiet THEN {} ELSE ops[r]
             e == IF i.op = "Win_fence" THEN {"fence"}
                  ELSE IF i.op = "Win_free" THEN {} ELSE epochs[r]
  <1>3. ops' = [ops EXCEPT ![r] = o] /\ epochs' = [epochs EXCEPT ![r] = e]
    BY <1>1, <1>2, Zenon DEF Enter
  <1>4. OpsAfter(i, ops[r]) = o /\ EpochsAfter(i, epochs[r]) = e
    <2>1. i.k \in {"Coll", "Icoll"}
      BY <1>1, <1>2 DEF Collects
    <2>2. OpsAfter(i, ops[r]) = o
      BY <2>1 DEF OpsAfter, Remains, LeftOrigin, Issued, Collects
    <2>3. epochs[r] \subseteq Epochs
      BY DEF OneSided
    <2>4. EpochsAfter(i, epochs[r]) = e
      BY <2>1, <2>3 DEF EpochsAfter, Ends, Begins, Collects, Epochs
    <2> QED
      BY <2>2, <2>4
  <1>5. HeldAfter(world, i, held[r]) = held[r]
    BY <1>1, <1>2 DEF HeldAfter, Locks, Collects
  <1> HIDE DEF o, e
  <1>6. Rank' = Rank /\ held' = [held EXCEPT ![r] = held[r]]
    BY <1>1 DEF Rank, MemoryIs
  <1>7. /\ MemoryIs' /\ ops'[r] = o /\ epochs'[r] = e /\ held'[r] = held[r]
        /\ \A q \in Rank \ {r} : Same(q)
    BY <1>3, <1>6, MemoryStep
  <1> QED
    BY <1>2, <1>4, <1>5, <1>7 DEF Effect

(* The other steps: to the next place with what the instruction does, or   *)
(* into a blocking send or receive.                                        *)
Moves(r) ==
  /\ MemoryIs' /\ \A q \in Rank \ {r} : Same(q)
  /\ \/ pc'[r] = Target(At(r), pc[r], err[r]) /\ Effect(r)
     \/ pc'[r] = pc[r] /\ At(r).k \in {"Send", "Recv"} /\ Same(r)

LEMMA NextPlace ==
  ASSUME SepIInv, NEW r \in Rank, Advance(r, 1), At(r).k \notin {"Goto", "Break"}
  PROVE  pc'[r] = Target(At(r), pc[r], err[r])
  <1>1. pc'[r] = pc[r] + 1
    BY DEF Advance, SepIInv, Types
  <1>2. Target(At(r), pc[r], err[r]) = pc[r] + 1
    BY DEF Target
  <1> QED
    BY <1>1, <1>2

LEMMA MovesIdle ==
  ASSUME SepIInv, OneSided, MemoryIs, NEW r \in Rank,
         \/ WaitForCollective(r) \/ PollCollective(r)
         \/ StartMessage(r) \/ EnterMessage(r) \/ LeaveMessage(r) \/ WaitForMessages(r)
         \/ Alone(r)
  PROVE  Moves(r)
  <1>1. world' = world /\ UNCHANGED <<ops, epochs, held>>
    BY DEF WaitForCollective, PollCollective, StartMessage, EnterMessage, LeaveMessage,
           WaitForMessages, Alone, windows
  <1>2. MemoryIs' /\ \A q \in Rank : Same(q)
    <2>1. Rank' = Rank
      BY <1>1 DEF Rank
    <2> QED
      BY <1>1, <2>1, MemoryKept
  <1>3. ASSUME At(r).k \notin Apart PROVE Effect(r)
    <2>1. epochs[r] \in SUBSET Epochs
      BY DEF OneSided
    <2> QED
      BY <1>2, <1>3, <2>1, IdleLemma DEF Effect, Same
  <1>4. CASE WaitForCollective(r) \/ PollCollective(r)
    <2>1. Advance(r, 1) /\ At(r).k \in {"WaitColl", "TestColl"}
      BY <1>4 DEF WaitForCollective, PollCollective, Runs
    <2>2. At(r).k \notin Apart /\ At(r).k \notin {"Goto", "Break"}
      BY <2>1 DEF Apart
    <2> QED
      BY <1>2, <1>3, <2>1, <2>2, NextPlace DEF Moves
  <1>5. CASE StartMessage(r) \/ LeaveMessage(r) \/ WaitForMessages(r)
    <2>1. Advance(r, 1) /\ At(r).k \in {"Send", "Recv", "Isend", "Irecv", "Wait"}
      BY <1>5 DEF StartMessage, LeaveMessage, WaitForMessages, Runs
    <2>2. At(r).k \notin Apart /\ At(r).k \notin {"Goto", "Break"}
      BY <2>1 DEF Apart
    <2> QED
      BY <1>2, <1>3, <2>1, <2>2, NextPlace DEF Moves
  <1>6. CASE EnterMessage(r)
    <2>1. pc' = pc /\ At(r).k \in {"Send", "Recv"}
      BY <1>6 DEF EnterMessage, Runs
    <2> QED
      BY <1>2, <2>1 DEF Moves
  <1>7. CASE Alone(r)
    <2>1. CASE Runs(r, "Validate") \/ Runs(r, "Stop") \/ Runs(r, "Touch")
      <3>1. Advance(r, 1) /\ At(r).k \in {"Validate", "Stop", "Touch"}
        BY <1>7, <2>1 DEF Alone, Runs
      <3>2. At(r).k \notin Apart /\ At(r).k \notin {"Goto", "Break"}
        BY <3>1 DEF Apart
      <3> QED
        BY <1>2, <1>3, <3>1, <3>2, NextPlace DEF Moves
    <2>2. CASE Runs(r, "Break") \/ Runs(r, "Goto")
      <3>1. PICK b : b = (IF At(r).k = "Goto" THEN -At(r).back ELSE IF err[r] THEN At(r).by ELSE 1)
        OBVIOUS
      <3>2. Advance(r, b) /\ ~Finished(r) /\ At(r).k \in {"Break", "Goto"}
        BY <1>7, <2>2, <3>1 DEF Alone, Runs
      <3>3. pc'[r] = pc[r] + b
        BY <3>2 DEF Advance, SepIInv, Types
      <3>4. pc[r] + b = Target(At(r), pc[r], err[r])
        <4>1. CASE At(r).k = "Goto"
          <5>1. At(r).back \in Int
            BY <3>2, <4>1, TextLemma DEF SepIInv, At
          <5>2. pc[r] \in Int /\ Target(At(r), pc[r], err[r]) = pc[r] - At(r).back
            BY <4>1 DEF Target, SepIInv, Types
          <5> QED
            BY <3>1, <4>1, <5>1, <5>2
        <4>2. CASE At(r).k = "Break"
          BY <3>1, <4>2 DEF Target
        <4> QED
          BY <3>2, <4>1, <4>2
      <3>5. At(r).k \notin Apart
        BY <3>2 DEF Apart
      <3> QED
        BY <1>2, <1>3, <3>3, <3>4, <3>5 DEF Moves
    <2> QED
      BY <1>7, <2>1, <2>2 DEF Alone
  <1> QED
    BY <1>4, <1>5, <1>6, <1>7

(* Those that do something to memory.                                      *)
LEMMA MovesMemory ==
  ASSUME SepIInv, OneSided, MemoryIs, NEW r \in Rank,
         \/ Issue(r) \/ FlushOps(r) \/ LockTargets(r) \/ UnlockTargets(r) \/ ActiveTarget(r)
  PROVE  Moves(r)
  <1>1. PICK i, o, e, h : i = At(r) /\ o = ops[r] /\ e = epochs[r] /\ h = held[r]
    OBVIOUS
  <1>2. /\ world' = world /\ Advance(r, 1) /\ i.k \in Apart
        /\ ops = [ops EXCEPT ![r] = o] /\ epochs = [epochs EXCEPT ![r] = e]
        /\ held = [held EXCEPT ![r] = h] /\ e \in SUBSET Epochs
    <2>1. world' = world /\ Advance(r, 1) /\ i.k \in Apart
      BY <1>1 DEF Issue, FlushOps, LockTargets, UnlockTargets, ActiveTarget, Runs, Apart
    <2>2. /\ ops = [ops EXCEPT ![r] = o] /\ epochs = [epochs EXCEPT ![r] = e]
          /\ held = [held EXCEPT ![r] = h]
      BY <1>1 DEF MemoryIs
    <2>3. e \in SUBSET Epochs
      BY <1>1 DEF OneSided
    <2> QED
      BY <2>1, <2>2, <2>3
  <1>3. /\ ops' = [ops EXCEPT ![r] = OpsAfter(i, o)]
        /\ epochs' = [epochs EXCEPT ![r] = EpochsAfter(i, e)]
        /\ held' = [held EXCEPT ![r] = HeldAfter(world, i, h)]
    <2>1. CASE Issue(r)
      <3>1. /\ ops' = [ops EXCEPT ![r] = o \union {[to |-> i.to, kind |-> i.kind, local |-> FALSE]}]
            /\ epochs' = epochs /\ held' = held /\ i.k = "Rma"
        BY <1>1, <2>1 DEF Issue, Runs
      <3>2. OpsAfter(i, o) = o \union {[to |-> i.to, kind |-> i.kind, local |-> FALSE]}
        BY <3>1 DEF OpsAfter, Remains, LeftOrigin, Issued, Collects
      <3>3. EpochsAfter(i, e) = e
        BY <1>2, <3>1 DEF EpochsAfter, Ends, Begins, Collects, Epochs
      <3>4. HeldAfter(world, i, h) = h
        BY <3>1 DEF HeldAfter, Locks
      <3> QED
        BY <1>2, <3>1, <3>2, <3>3, <3>4
    <2>2. CASE FlushOps(r)
      <3>1. /\ ops' = [ops EXCEPT ![r] = IF i.local THEN FlushedLocally(r, i.to) ELSE Flushed(r, i.to)]
            /\ epochs' = epochs /\ held' = held /\ i.k = "Flush"
        BY <1>1, <2>2 DEF FlushOps, Runs
      <3>2. OpsAfter(i, o) = IF i.local THEN FlushedLocally(r, i.to) ELSE Flushed(r, i.to)
        <4>1. {x \in o : Remains(i, x)} = Flushed(r, i.to) /\ Issued(i) = {}
          BY <1>1, <3>1 DEF Remains, Issued, Flushed, Collects
        <4>2. CASE i.local
          <5>1. LeftOrigin(i, o) =
                  {[x EXCEPT !.local = TRUE] : x \in {y \in ops[r] : y.to \in i.to /\ y.kind # "get"}}
            BY <1>1, <3>1, <4>2, Zenon DEF LeftOrigin
          <5> QED
            BY <4>1, <4>2, <5>1, Zenon DEF OpsAfter, FlushedLocally
        <4>3. CASE ~i.local
          <5>1. LeftOrigin(i, o) = {}
            BY <4>3 DEF LeftOrigin
          <5> QED
            BY <4>1, <4>3, <5>1 DEF OpsAfter
        <4> QED
          BY <4>2, <4>3
      <3>3. EpochsAfter(i, e) = e
        BY <1>2, <3>1 DEF EpochsAfter, Ends, Begins, Collects, Epochs
      <3>4. HeldAfter(world, i, h) = h
        BY <3>1 DEF HeldAfter, Locks
      <3> QED
        BY <1>2, <3>1, <3>2, <3>3, <3>4
    <2>3. CASE LockTargets(r) \/ UnlockTargets(r)
      <3>1. /\ i.k \in {"Lock", "Unlock"} /\ epochs' = epochs
            /\ held' = [held EXCEPT ![r] =
                 [t \in Rank |-> IF t \in i.to THEN (IF i.k = "Lock" THEN i.mode ELSE "none") ELSE h[t]]]
            /\ ops' = [ops EXCEPT ![r] = IF i.k = "Lock" THEN o ELSE Flushed(r, i.to)]
        <4>1. CASE LockTargets(r)
          <5>1. /\ i.k = "Lock" /\ epochs' = epochs /\ ops' = ops
                /\ held' = [held EXCEPT ![r] = [t \in Rank |-> IF t \in i.to THEN i.mode ELSE @[t]]]
            BY <1>1, <4>1 DEF LockTargets, Runs
          <5>2. held' = [held EXCEPT ![r] =
                 [t \in Rank |-> IF t \in i.to THEN (IF i.k = "Lock" THEN i.mode ELSE "none") ELSE h[t]]]
            BY <1>1, <5>1
          <5> QED
            BY <1>2, <5>1, <5>2
        <4>2. CASE UnlockTargets(r)
          <5>1. /\ i.k = "Unlock" /\ epochs' = epochs /\ ops' = [ops EXCEPT ![r] = Flushed(r, i.to)]
                /\ held' = [held EXCEPT ![r] = [t \in Rank |-> IF t \in i.to THEN "none" ELSE @[t]]]
            BY <1>1, <4>2 DEF UnlockTargets, Runs
          <5>2. held' = [held EXCEPT ![r] =
                 [t \in Rank |-> IF t \in i.to THEN (IF i.k = "Lock" THEN i.mode ELSE "none") ELSE h[t]]]
            BY <1>1, <5>1
          <5> QED
            BY <5>1, <5>2
        <4> QED
          BY <2>3, <4>1, <4>2
      <3>2. HeldAfter(world, i, h) =
              [t \in Rank |-> IF t \in i.to THEN (IF i.k = "Lock" THEN i.mode ELSE "none") ELSE h[t]]
        BY <3>1 DEF HeldAfter, Locks, Rank
      <3>3. OpsAfter(i, o) = IF i.k = "Lock" THEN o ELSE Flushed(r, i.to)
        BY <1>1, <3>1 DEF OpsAfter, Remains, LeftOrigin, Issued, Collects, Flushed
      <3>4. EpochsAfter(i, e) = e
        BY <1>2, <3>1 DEF EpochsAfter, Ends, Begins, Collects, Epochs
      <3> QED
        BY <1>2, <3>1, <3>2, <3>3, <3>4
    <2>4. CASE ActiveTarget(r)
      <3>1. /\ held' = held
            /\ \/ i.k = "Post" /\ ops' = ops /\ epochs' = [epochs EXCEPT ![r] = e \union {"exposure"}]
               \/ i.k = "Start" /\ ops' = ops /\ epochs' = [epochs EXCEPT ![r] = e \union {"access"}]
               \/ /\ i.k = "Complete" /\ ops' = [ops EXCEPT ![r] = Flushed(r, {i.to})]
                  /\ epochs' = [epochs EXCEPT ![r] = e \ {"access"}]
               \/ i.k = "WinWait" /\ ops' = ops /\ epochs' = [epochs EXCEPT ![r] = e \ {"exposure"}]
        BY <1>1, <2>4 DEF ActiveTarget, Runs
      <3>2. HeldAfter(world, i, h) = h
        BY <3>1 DEF HeldAfter, Locks
      <3>3. OpsAfter(i, o) = IF i.k = "Complete" THEN Flushed(r, {i.to}) ELSE o
        <4>1. i.k \in {"Post", "Start", "Complete", "WinWait"}
          BY <3>1
        <4> QED
          BY <1>1, <4>1 DEF OpsAfter, Remains, LeftOrigin, Issued, Collects, Flushed
      <3>4. EpochsAfter(i, e) = IF i.k = "Post" THEN e \union {"exposure"}
                                ELSE IF i.k = "Start" THEN e \union {"access"}
                                ELSE IF i.k = "Complete" THEN e \ {"access"} ELSE e \ {"exposure"}
        <4>1. i.k \in {"Post", "Start", "Complete", "WinWait"}
          BY <3>1
        <4> QED
          BY <1>2, <4>1 DEF EpochsAfter, Ends, Begins, Collects, Epochs
      <3> QED
        BY <1>2, <3>1, <3>2, <3>3, <3>4
    <2> QED
      BY <2>1, <2>2, <2>3, <2>4
  <1>4. Rank' = Rank
    BY <1>2 DEF Rank
  <1>5. /\ MemoryIs' /\ ops'[r] = OpsAfter(i, o) /\ epochs'[r] = EpochsAfter(i, e)
        /\ held'[r] = HeldAfter(world, i, h) /\ \A q \in Rank \ {r} : Same(q)
    BY <1>3, <1>4, MemoryStep
  <1>6. pc'[r] = Target(At(r), pc[r], err[r])
    BY <1>1, <1>2, NextPlace DEF Apart
  <1> QED
    BY <1>1, <1>5, <1>6 DEF Moves, Effect

---------------------------------------------------------------------------
LEMMA MoreRemains ==
  ASSUME NEW i, NEW o, NEW c, o \subseteq c
  PROVE  OpsAfter(i, o) \subseteq OpsAfter(i, c)
  <1>1. {x \in o : Remains(i, x)} \subseteq {x \in c : Remains(i, x)}
    OBVIOUS
  <1>2. LeftOrigin(i, o) \subseteq LeftOrigin(i, c)
    BY Zenon DEF LeftOrigin
  <1> QED
    BY <1>1, <1>2 DEF OpsAfter

LEMMA FitsEffect ==
  ASSUME NEW chart, NEW r \in Rank, Fits(chart, r), ~InCollective(r), Effect(r),
         pc[r] \in Place(world, r)
  PROVE  HasAfter(world, chart, r, At(r), pc[r], ops'[r], epochs'[r], held'[r])
  <1>1. HasAt(chart, r, pc[r], ops[r], epochs[r], held[r])
    BY DEF Fits
  <1>2. OpsAfter(At(r), ops[r]) \subseteq OpsAfter(At(r), chart.ops[r][pc[r]])
    BY <1>1, MoreRemains DEF HasAt
  <1> QED
    BY <1>1, <1>2 DEF Effect, HasAt, HasAfter

LEMMA ChartedTo ==
  ASSUME NEW w, NEW chart, Charted(w, chart), NEW r \in DOMAIN Code[w], NEW p \in Line(w, r),
         NEW e \in BOOLEAN, NEW o, NEW x, NEW h,
         HasAfter(w, chart, r, Code[w][r][p], p, o, x, h),
         Target(Code[w][r][p], p, e) \in Place(w, r)
  PROVE  HasAt(chart, r, Target(Code[w][r][p], p, e), o, x, h)
  <1>1. PICK i, t : i = Code[w][r][p] /\ t = Target(i, p, e)
    OBVIOUS
  <1>2. /\ OpsAfter(i, chart.ops[r][p]) \subseteq chart.ops[r][t]
        /\ chart.epochs[r][t] = EpochsAfter(i, chart.epochs[r][p])
        /\ chart.held[r][t] = HeldAfter(w, i, chart.held[r][p])
    BY <1>1 DEF Charted
  <1> QED
    BY <1>1, <1>2 DEF HasAfter, HasAt

LEMMA FitsNext ==
  ASSUME SepIInv, NEW chart, Charted(world, chart), NEW r \in Rank, ~Finished(r), world' = world,
         pc'[r] = Target(At(r), pc[r], err[r]), ~InCollective(r)',
         HasAfter(world, chart, r, At(r), pc[r], ops'[r], epochs'[r], held'[r])
  PROVE  Fits(chart, r)'
  <1>1. pc[r] \in Line(world, r) /\ At(r) = Code[world][r][pc[r]] /\ err[r] \in BOOLEAN
        /\ r \in DOMAIN Code[world]
    BY TextLemma DEF SepIInv, Types, Line, Text, At, Rank
  <1>2. SUFFICES ASSUME pc'[r] \in Place(world, r)
                 PROVE  HasAt(chart, r, pc'[r], ops'[r], epochs'[r], held'[r])
    BY DEF Fits
  <1> QED
    BY <1>1, <1>2, ChartedTo

LEMMA FitsStill ==
  ASSUME NEW chart, NEW q \in Rank, Fits(chart, q), Same(q), world' = world,
         pc'[q] = pc[q], inside'[q] = inside[q]
  PROVE  Fits(chart, q)'
  <1>1. At(q)' = At(q) /\ (InCollective(q)' <=> InCollective(q))
    BY DEF At, Text, InCollective
  <1> QED
    BY <1>1 DEF Fits, Same

LEMMA OnLine ==
  ASSUME SepIInv, NEW r \in Rank, ~Finished(r)
  PROVE  /\ pc[r] \in Place(world, r) /\ pc[r] \in Line(world, r)
         /\ Running /\ Going /\ err[r] \in BOOLEAN
  BY TextLemma DEF SepIInv, Types, Place, Line, Text, Running, Going

LEMMA FitsEntering ==
  ASSUME SepIInv, OneSided, MemoryIs, NEW chart, Charted(world, chart), Fitting(chart),
         NEW r \in Rank, EnterCollective(r) \/ StartCollective(r)
  PROVE  Fitting(chart)'
  <1>1. /\ ~Finished(r) /\ Collects(At(r)) /\ ~InCollective(r) /\ world' = world
        /\ \A q \in Rank \ {r} : pc'[q] = pc[q] /\ inside'[q] = inside[q]
        /\ \/ At(r).k = "Coll" /\ inside'[r] /\ pc'[r] = pc[r]
           \/ At(r).k = "Icoll" /\ ~inside'[r] /\ pc'[r] = pc[r] + 1
    BY EnteringSteps DEF Entering
  <1>2. Effect(r) /\ \A q \in Rank \ {r} : Same(q)
    BY EnterMemory
  <1>3. \A q \in Rank : Fits(chart, q)
    BY <1>1, OnLine DEF Fitting
  <1>4. ASSUME NEW q \in Rank \ {r} PROVE Fits(chart, q)'
    BY <1>1, <1>2, <1>3, FitsStill
  <1>5. HasAfter(world, chart, r, At(r), pc[r], ops'[r], epochs'[r], held'[r])
    BY <1>1, <1>2, <1>3, OnLine, FitsEffect
  <1>6. Fits(chart, r)'
    <2>1. CASE At(r).k = "Coll" /\ inside'[r] /\ pc'[r] = pc[r]
      <3>1. At(r)' = At(r) /\ InCollective(r)'
        BY <1>1, <2>1 DEF At, Text, InCollective
      <3> QED
        BY <1>1, <1>5, <2>1, <3>1 DEF Fits
    <2>2. CASE At(r).k = "Icoll" /\ ~inside'[r] /\ pc'[r] = pc[r] + 1
      <3>1. pc'[r] = Target(At(r), pc[r], err[r]) /\ ~InCollective(r)'
        BY <2>2 DEF Target, InCollective
      <3> QED
        BY <1>1, <1>5, <3>1, FitsNext
    <2> QED
      BY <1>1, <2>1, <2>2
  <1>7. Rank' = Rank
    BY <1>1 DEF Rank
  <1> QED
    BY <1>4, <1>6, <1>7 DEF Fitting

LEMMA FitsLeaving ==
  ASSUME SepIInv, OneSided, MemoryIs, NEW chart, Charted(world, chart), Fitting(chart),
         NEW r \in Rank, LeaveCollective(r)
  PROVE  Fitting(chart)'
  <1>1. /\ ~Finished(r) /\ At(r).k = "Coll" /\ inside[r] /\ world' = world
        /\ inside' = [inside EXCEPT ![r] = FALSE] /\ Advance(r, 1)
        /\ UNCHANGED <<ops, epochs, held>>
    BY DEF LeaveCollective, Runs, windows
  <1>2. Rank' = Rank /\ InCollective(r)
    BY <1>1 DEF Rank, InCollective
  <1>3. \A q \in Rank : Same(q)
    BY <1>1, <1>2, MemoryKept
  <1>4. \A q \in Rank : Fits(chart, q)
    BY <1>1, OnLine DEF Fitting
  <1>5. ~inside'[r] /\ \A q \in Rank \ {r} : pc'[q] = pc[q] /\ inside'[q] = inside[q]
    BY <1>1 DEF SepIInv, Types, Advance
  <1>6. ASSUME NEW q \in Rank \ {r} PROVE Fits(chart, q)'
    BY <1>1, <1>3, <1>4, <1>5, FitsStill
  <1>7. Fits(chart, r)'
    <2>1. HasAfter(world, chart, r, At(r), pc[r], ops[r], epochs[r], held[r])
      BY <1>1, <1>2, <1>4, OnLine DEF Fits
    <2>2. HasAfter(world, chart, r, At(r), pc[r], ops'[r], epochs'[r], held'[r])
      BY <1>1, <2>1
    <2>3. pc'[r] = Target(At(r), pc[r], err[r])
      BY <1>1, NextPlace
    <2>4. ~InCollective(r)'
      BY <1>5 DEF InCollective
    <2> QED
      BY <1>1, <2>2, <2>3, <2>4, FitsNext
  <1> QED
    BY <1>2, <1>6, <1>7 DEF Fitting

LEMMA FitsMoving ==
  ASSUME SepIInv, NEW chart, Charted(world, chart), Fitting(chart),
         NEW r \in Rank, Moves(r), Aside(r)
  PROVE  Fitting(chart)'
  <1>1. /\ ~Finished(r) /\ At(r).k # "Coll" /\ world' = world
        /\ \A q \in Rank \ {r} : pc'[q] = pc[q] /\ inside'[q] = inside[q]
        /\ (inside'[r] => pc'[r] = pc[r] /\ At(r).k \in {"Send", "Recv"})
    BY DEF Aside
  <1>2. Rank' = Rank /\ ~InCollective(r)
    BY <1>1 DEF Rank, InCollective
  <1>3. ~InCollective(r)'
    <2>1. CASE inside'[r]
      <3>1. At(r)' = At(r)
        BY <1>1, <2>1 DEF At, Text
      <3> QED
        BY <1>1, <3>1 DEF InCollective
    <2>2. CASE ~inside'[r]
      BY <2>2 DEF InCollective
    <2> QED
      BY <2>1, <2>2
  <1>4. \A q \in Rank : Fits(chart, q)
    BY <1>1, OnLine DEF Fitting
  <1>5. ASSUME NEW q \in Rank \ {r} PROVE Fits(chart, q)'
    <2>1. Same(q)
      BY DEF Moves
    <2> QED
      BY <1>1, <1>4, <2>1, FitsStill
  <1>6. Fits(chart, r)'
    <2>1. CASE pc'[r] = Target(At(r), pc[r], err[r]) /\ Effect(r)
      <3>1. HasAfter(world, chart, r, At(r), pc[r], ops'[r], epochs'[r], held'[r])
        BY <1>1, <1>2, <1>4, <2>1, OnLine, FitsEffect
      <3> QED
        BY <1>1, <1>3, <2>1, <3>1, FitsNext
    <2>2. CASE pc'[r] = pc[r] /\ Same(r)
      <3>1. Fits(chart, r)
        BY <1>4
      <3> QED
        BY <1>1, <1>2, <1>3, <2>2, <3>1 DEF Fits, Same
    <2> QED
      BY <2>1, <2>2 DEF Moves
  <1> QED
    BY <1>2, <1>5, <1>6 DEF Fitting

(* MPI_Abort ends all.                                                     *)
LEMMA AllEnd ==
  ASSUME SepIInv, NEW r \in Rank, AbortAll(r)
  PROVE  ~Running' /\ ~Going' /\ world' = world /\ UNCHANGED <<ops, epochs, held, net, calls>>
  <1>1. /\ pc' = [q \in Rank |-> Len(Text(q)) + 1] /\ world' = world
        /\ UNCHANGED <<ops, epochs, held, net, calls>>
    BY DEF AbortAll, collectives, windows, messages
  <1>2. Rank' = Rank /\ \A q : Text(q)' = Text(q)
    BY <1>1 DEF Rank, Text
  <1>3. \A q \in Rank : Len(Text(q)) \in Nat
    BY TextLemma DEF SepIInv
  <1>4. \A q \in Rank : Finished(q)'
    BY <1>1, <1>2, <1>3 DEF Finished
  <1>5. ~Running'
    BY <1>2, <1>4 DEF Running
  <1>6. Aborts(world)
    <2>1. ~Finished(r) /\ At(r).k = "Abort"
      BY DEF AbortAll, Runs
    <2> QED
      BY <2>1, OnLine DEF Aborts, At, Text, Rank
  <1> QED
    BY <1>1, <1>5, <1>6 DEF Going

LEMMA NextFits ==
  ASSUME SepIInv, OneSided, MemoryIs, NEW chart, Charted(world, chart), Fitting(chart),
         [Next]_vars
  PROVE  Fitting(chart)'
  <1>1. ASSUME NEW r \in Rank, Step(r) PROVE Fitting(chart)'
    <2>1. CASE EnterCollective(r) \/ StartCollective(r)
      BY <2>1, FitsEntering
    <2>2. CASE LeaveCollective(r)
      BY <2>2, FitsLeaving
    <2>3. CASE AbortAll(r)
      BY <2>3, AllEnd DEF Fitting
    <2>4. CASE \/ WaitForCollective(r) \/ PollCollective(r)
               \/ StartMessage(r) \/ EnterMessage(r) \/ LeaveMessage(r) \/ WaitForMessages(r)
               \/ Alone(r)
      <3>1. Aside(r)
        BY <2>4, AsideSteps
      <3>2. Moves(r)
        BY <2>4, MovesIdle
      <3> QED
        BY <3>1, <3>2, FitsMoving
    <2>5. CASE Issue(r) \/ FlushOps(r) \/ LockTargets(r) \/ UnlockTargets(r) \/ ActiveTarget(r)
      <3>1. Aside(r)
        BY <2>5, AsideSteps
      <3>2. Moves(r)
        BY <2>5, MovesMemory
      <3> QED
        BY <3>1, <3>2, FitsMoving
    <2> QED
      BY <1>1, <2>1, <2>2, <2>3, <2>4, <2>5 DEF Step
  <1>2. CASE UNCHANGED vars
    <2>1. world' = world /\ pc' = pc /\ inside' = inside /\ UNCHANGED <<ops, epochs, held>>
      BY <1>2 DEF vars
    <2>2. Rank' = Rank /\ (Going' <=> Going)
      BY <2>1 DEF Rank, Running, Going, Finished, Text
    <2>3. \A q \in Rank : Same(q)
      BY <2>1, <2>2, MemoryKept
    <2>4. ASSUME NEW q \in Rank, Fits(chart, q) PROVE Fits(chart, q)'
      BY <2>1, <2>3, <2>4, FitsStill
    <2> QED
      BY <2>2, <2>3, <2>4 DEF Fitting
  <1> QED
    BY <1>1, <1>2 DEF Next, Done

LEMMA InitFits ==
  ASSUME Init
  PROVE  MemoryIs /\ \A chart : Charted(world, chart) => Fitting(chart)
  <1>1. MemoryIs
    BY DEF Init, MemoryIs
  <1>2. ASSUME NEW chart, Charted(world, chart), NEW r \in Rank PROVE Fits(chart, r)
    <2>1. pc[r] = 1 /\ ~inside[r] /\ ops[r] = {} /\ epochs[r] = {}
          /\ held[r] = [t \in DOMAIN Code[world] |-> "none"]
      BY DEF Init, Rank
    <2>2. chart.epochs[r][1] = {} /\ chart.held[r][1] = [t \in DOMAIN Code[world] |-> "none"]
      BY <1>2 DEF Charted, Rank
    <2> QED
      BY <2>1, <2>2 DEF Fits, HasAt, InCollective
  <1> QED
    BY <1>1, <1>2 DEF Fitting

(* One-sided operations are covered, and windows freed with nothing open.  *)
LEMMA HasHere ==
  ASSUME SepIInv, NEW chart, Fitting(chart), NEW r \in Rank, ~Finished(r), ~InCollective(r)
  PROVE  HasAt(chart, r, pc[r], ops[r], epochs[r], held[r])
  BY OnLine DEF Fitting, Fits

LEMMA EpochsFit ==
  ASSUME SepIInv, NEW chart, Fitting(chart), EpochsOrdered(world, chart)
  PROVE  EpochsHold
  <1>1. ASSUME NEW r \in Rank, Runs(r, "Rma"), At(r).window
        PROVE  epochs[r] \intersect {"fence", "access"} # {} \/ held[r][At(r).to] # "none"
    <2>1. ~Finished(r) /\ ~InCollective(r) /\ pc[r] \in Line(world, r)
          /\ At(r) = Code[world][r][pc[r]]
      BY <1>1, OnLine DEF Runs, InCollective, At, Text
    <2>2. HasAt(chart, r, pc[r], ops[r], epochs[r], held[r])
      BY <2>1, HasHere, SMTT(30)
    <2>3. \/ chart.epochs[r][pc[r]] \intersect {"fence", "access"} # {}
          \/ chart.held[r][pc[r]][At(r).to] # "none"
      BY <1>1, <2>1 DEF EpochsOrdered, Rank, Runs
    <2> QED
      BY <2>2, <2>3 DEF HasAt
  <1>2. ASSUME NEW r \in Rank, Runs(r, "Coll"), At(r).op = "Win_free", ~inside[r]
        PROVE  /\ ops[r] = {} /\ epochs[r] \subseteq {"fence"}
               /\ \A t \in Rank : held[r][t] = "none"
    <2>1. ~Finished(r) /\ ~InCollective(r) /\ pc[r] \in Line(world, r)
          /\ At(r) = Code[world][r][pc[r]]
      BY <1>2, OnLine DEF Runs, InCollective, At, Text
    <2>2. HasAt(chart, r, pc[r], ops[r], epochs[r], held[r])
      BY <2>1, HasHere
    <2>3. /\ chart.ops[r][pc[r]] = {} /\ chart.epochs[r][pc[r]] \subseteq {"fence"}
          /\ \A t \in Rank : chart.held[r][pc[r]][t] = "none"
      BY <1>2, <2>1 DEF EpochsOrdered, Rank, Runs
    <2> QED
      BY <2>2, <2>3 DEF HasAt
  <1> QED
    BY <1>1, <1>2 DEF EpochsHold

---------------------------------------------------------------------------
LEMMA CountedLemma ==
  ASSUME NEW w, NEW chart, Counted(w, chart), NEW r \in DOMAIN Code[w], NEW p \in Line(w, r),
         NEW e \in BOOLEAN, NEW i, i = Code[w][r][p], NEW t, t = Target(i, p, e)
  PROVE  /\ t \in Place(w, r)
         /\ chart.number[r][t] = chart.number[r][p] + IF Collects(i) THEN 1 ELSE 0
         /\ chart.gate[r][t] = IF Gate(i) THEN chart.number[r][t]
                               ELSE chart.gate[r][p]
  BY DEF Counted

LEMMA NumbersAre ==
  ASSUME NEW w, NEW chart, Counted(w, chart), NEW r \in DOMAIN Code[w], NEW p \in Place(w, r)
  PROVE  chart.number[r][p] \in Nat /\ chart.gate[r][p] \in Nat
  BY DEF Counted

LEMMA CountStill ==
  ASSUME SepIInv, NEW chart, Counted(world, chart), NEW q \in Rank, Count(chart, q), world' = world,
         pc'[q] = pc[q], inside'[q] = inside[q], calls'[q] = calls[q],
         \A x \in Rank, k \in Nat : Entered(x, k) => Entered(x, k)'
  PROVE  Count(chart, q)'
  <1>1. At(q)' = At(q) /\ (InCollective(q)' <=> InCollective(q)) /\ Rank' = Rank
    BY DEF At, Text, InCollective, Rank
  <1>2. chart.gate[q][pc[q]] \in Nat
    BY NumbersAre DEF Count, Rank
  <1> QED
    BY <1>1, <1>2 DEF Count

LEMMA CountEntering ==
  ASSUME SepIInv, NEW chart, Counted(world, chart), Counting(chart), NEW r \in Rank, Entering(r)
  PROVE  Counting(chart)'
  <1>1. /\ ~Finished(r) /\ Collects(At(r)) /\ ~InCollective(r) /\ world' = world
        /\ \A q \in Rank \ {r} : pc'[q] = pc[q] /\ inside'[q] = inside[q] /\ calls'[q] = calls[q]
        /\ \A q \in Rank, k \in Nat : Entered(q, k) => Entered(q, k)'
        /\ Rank' = Rank
    BY EnteringLemma DEF Entering
  <1>2. \A q \in Rank : Count(chart, q)
    BY <1>1, OnLine DEF Counting
  <1>3. ASSUME NEW q \in Rank \ {r} PROVE Count(chart, q)'
    BY <1>1, <1>2, CountStill
  <1>4. PICK n \in Nat : n = Len(calls[r])
    BY EnteringLemma
  <1>5. chart.number[r][pc[r]] = n /\ chart.gate[r][pc[r]] \in Nat
    <2>1. n = chart.number[r][pc[r]] + 0 /\ pc[r] \in Place(world, r)
      BY <1>1, <1>2, <1>4 DEF Count
    <2>2. chart.number[r][pc[r]] \in Nat /\ chart.gate[r][pc[r]] \in Nat
      BY <2>1, NumbersAre DEF Rank
    <2> QED
      BY <2>1, <2>2
  <1>6. /\ Len(calls'[r]) = n + 1 /\ calls'[r][n + 1].line = pc[r]
        /\ \A k \in 1 .. n : calls'[r][k] = calls[r][k]
    BY <1>4, EnteringLemma
  <1>7. \A k \in 1 .. n + 1 : chart.number[r][calls'[r][k].line] = k - 1
    <2>1. ASSUME NEW k \in 1 .. n + 1 PROVE chart.number[r][calls'[r][k].line] = k - 1
      <3>1. CASE k \in 1 .. n
        BY <1>2, <1>4, <1>6, <3>1 DEF Count
      <3>2. CASE k = n + 1
        BY <1>4, <1>5, <1>6, <3>2
      <3> QED
        BY <1>4, <3>1, <3>2
    <2> QED
      BY <2>1
  <1>8. \A q \in Rank : Len(calls'[q]) >= chart.gate[r][pc[r]]
    <2>1. PICK g \in Nat : g = chart.gate[r][pc[r]]
      BY <1>5
    <2>2. \A q \in Rank : Entered(q, g)'
      BY <1>1, <1>2, <2>1 DEF Count
    <2> QED
      BY <2>1, <2>2 DEF Entered
  <1>9. CASE At(r).k = "Coll" /\ inside'[r] /\ pc'[r] = pc[r]
    <2>1. InCollective(r)' /\ pc'[r] \in Place(world, r)
      BY <1>1, <1>9, OnLine DEF At, Text, InCollective
    <2>2. Count(chart, r)'
      BY <1>1, <1>5, <1>6, <1>7, <1>8, <1>9, <2>1 DEF Count, Entered
    <2> QED
      BY <1>1, <1>3, <2>2 DEF Counting
  <1>10. CASE At(r).k = "Icoll" /\ ~inside'[r] /\ pc'[r] = pc[r] + 1
    <2>1. /\ pc[r] \in Line(world, r) /\ At(r) = Code[world][r][pc[r]]
          /\ pc'[r] = Target(At(r), pc[r], FALSE) /\ ~Gate(At(r)) /\ r \in DOMAIN Code[world]
      BY <1>1, <1>10, OnLine DEF At, Text, Target, Gate, Rank
    <2>2. /\ pc'[r] \in Place(world, r) /\ chart.number[r][pc'[r]] = n + 1
          /\ chart.gate[r][pc'[r]] = chart.gate[r][pc[r]]
      <3>1. PICK i, p, t, e : i = At(r) /\ p = pc[r] /\ t = pc'[r] /\ e = FALSE
        OBVIOUS
      <3>2. /\ p \in Line(world, r) /\ i = Code[world][r][p] /\ t = Target(i, p, e) /\ e \in BOOLEAN
            /\ ~Gate(i) /\ r \in DOMAIN Code[world] /\ Collects(i)
        BY <1>1, <2>1, <3>1
      <3>3. /\ t \in Place(world, r) /\ chart.number[r][t] = chart.number[r][p] + 1
            /\ chart.gate[r][t] = chart.gate[r][p]
        BY <3>2, CountedLemma
      <3> QED
        BY <1>5, <3>1, <3>3
    <2>3. ~InCollective(r)'
      BY <1>10 DEF InCollective
    <2>4. Count(chart, r)'
      BY <1>1, <1>4, <1>6, <1>7, <1>8, <2>2, <2>3 DEF Count, Entered
    <2> QED
      BY <1>1, <1>3, <2>4 DEF Counting
  <1> QED
    BY <1>9, <1>10 DEF Entering

LEMMA CountLeaving ==
  ASSUME SepIInv, NEW chart, Counted(world, chart), Counting(chart), NEW r \in Rank,
         LeaveCollective(r)
  PROVE  Counting(chart)'
  <1>1. /\ ~Finished(r) /\ At(r).k = "Coll" /\ inside[r] /\ world' = world /\ calls' = calls
        /\ inside' = [inside EXCEPT ![r] = FALSE] /\ Advance(r, 1)
        /\ MayReturn(r, Len(calls[r]))
    BY DEF LeaveCollective, Runs, collectives
  <1>2. Rank' = Rank /\ InCollective(r) /\ \A q, k : Entered(q, k)' <=> Entered(q, k)
    BY <1>1 DEF Rank, InCollective, Entered
  <1>3. /\ ~inside'[r] /\ pc'[r] = pc[r] + 1
        /\ \A q \in Rank \ {r} : pc'[q] = pc[q] /\ inside'[q] = inside[q]
    BY <1>1 DEF SepIInv, Types, Advance
  <1>4. \A q \in Rank : Count(chart, q)
    BY <1>1, OnLine DEF Counting
  <1>5. ASSUME NEW q \in Rank \ {r} PROVE Count(chart, q)'
    BY <1>1, <1>2, <1>3, <1>4, CountStill
  <1>6. /\ pc[r] \in Line(world, r) /\ At(r) = Code[world][r][pc[r]]
        /\ pc'[r] = Target(At(r), pc[r], FALSE) /\ r \in DOMAIN Code[world] /\ Collects(At(r))
    BY <1>1, <1>3, OnLine DEF At, Text, Target, Rank, Collects
  <1>7. /\ pc'[r] \in Place(world, r) /\ chart.number[r][pc'[r]] = chart.number[r][pc[r]] + 1
        /\ chart.gate[r][pc'[r]] = IF Gate(At(r)) THEN chart.number[r][pc'[r]]
                                   ELSE chart.gate[r][pc[r]]
    <2>1. PICK i, p, t, e : i = At(r) /\ p = pc[r] /\ t = pc'[r] /\ e = FALSE
      OBVIOUS
    <2>2. /\ p \in Line(world, r) /\ i = Code[world][r][p] /\ t = Target(i, p, e) /\ e \in BOOLEAN
          /\ r \in DOMAIN Code[world] /\ Collects(i)
      BY <1>6, <2>1
    <2>3. /\ t \in Place(world, r) /\ chart.number[r][t] = chart.number[r][p] + 1
          /\ chart.gate[r][t] = IF Gate(i) THEN chart.number[r][t] ELSE chart.gate[r][p]
      BY <2>2, CountedLemma
    <2> QED
      BY <2>1, <2>3
  <1>8. Len(calls[r]) = chart.number[r][pc'[r]]
    BY <1>2, <1>4, <1>7 DEF Count
  <1>9. \A q \in Rank : Entered(q, chart.gate[r][pc'[r]])
    <2>1. CASE Gate(At(r))
      <3>1. Call(r, Len(calls[r])) = At(r)
        BY <1>1 DEF SepIInv, Busy, Call, At
      <3>2. \A q \in Rank : Entered(q, Len(calls[r]))
        BY <1>1, <2>1, <3>1 DEF MayReturn, Gate
      <3> QED
        BY <1>7, <1>8, <2>1, <3>2
    <2>2. CASE ~Gate(At(r))
      BY <1>4, <1>7, <2>2 DEF Count
    <2> QED
      BY <2>1, <2>2
  <1>10. Count(chart, r)'
    <2>1. ~InCollective(r)'
      BY <1>3 DEF InCollective
    <2>2. \A k \in 1 .. Len(calls[r]) : chart.number[r][calls[r][k].line] = k - 1
      BY <1>4 DEF Count
    <2>3. chart.number[r][pc'[r]] \in Nat
      BY <1>6, <1>7, NumbersAre
    <2> QED
      BY <1>1, <1>2, <1>7, <1>8, <1>9, <2>1, <2>2, <2>3 DEF Count
  <1> QED
    BY <1>2, <1>5, <1>10 DEF Counting

LEMMA CountMoving ==
  ASSUME SepIInv, NEW chart, Counted(world, chart), Counting(chart), NEW r \in Rank,
         Aside(r), Moves(r), At(r).k # "Icoll"
  PROVE  Counting(chart)'
  <1>1. /\ ~Finished(r) /\ At(r).k # "Coll" /\ world' = world /\ calls' = calls
        /\ \A q \in Rank \ {r} : pc'[q] = pc[q] /\ inside'[q] = inside[q]
        /\ (inside'[r] => pc'[r] = pc[r] /\ At(r).k \in {"Send", "Recv"})
    BY DEF Aside
  <1>2. Rank' = Rank /\ ~InCollective(r) /\ (\A q, k : Entered(q, k)' <=> Entered(q, k))
        /\ ~Collects(At(r)) /\ ~Gate(At(r))
    BY <1>1 DEF Rank, InCollective, Entered, Collects, Gate
  <1>3. ~InCollective(r)'
    <2>1. CASE inside'[r]
      <3>1. At(r)' = At(r)
        BY <1>1, <2>1 DEF At, Text
      <3> QED
        BY <1>1, <3>1 DEF InCollective
    <2>2. CASE ~inside'[r]
      BY <2>2 DEF InCollective
    <2> QED
      BY <2>1, <2>2
  <1>4. \A q \in Rank : Count(chart, q)
    BY <1>1, OnLine DEF Counting
  <1>5. ASSUME NEW q \in Rank \ {r} PROVE Count(chart, q)'
    BY <1>1, <1>2, <1>4, CountStill
  <1>6. /\ pc[r] \in Line(world, r) /\ At(r) = Code[world][r][pc[r]]
        /\ r \in DOMAIN Code[world] /\ err[r] \in BOOLEAN
    BY <1>1, OnLine DEF At, Text, Rank
  <1>7. chart.number[r][pc[r]] \in Nat /\ pc[r] \in Place(world, r)
    BY <1>1, <1>6, OnLine, NumbersAre
  <1>8. /\ pc'[r] \in Place(world, r) /\ chart.number[r][pc'[r]] = chart.number[r][pc[r]]
        /\ chart.gate[r][pc'[r]] = chart.gate[r][pc[r]]
    <2>1. CASE pc'[r] = pc[r]
      BY <1>7, <2>1
    <2>2. CASE pc'[r] = Target(At(r), pc[r], err[r])
      <3>1. PICK i, p, t, e : i = At(r) /\ p = pc[r] /\ t = pc'[r] /\ e = err[r]
        OBVIOUS
      <3>2. /\ p \in Line(world, r) /\ i = Code[world][r][p] /\ t = Target(i, p, e)
            /\ r \in DOMAIN Code[world] /\ e \in BOOLEAN /\ ~Collects(i) /\ ~Gate(i)
        BY <1>2, <1>6, <2>2, <3>1
      <3>3. /\ t \in Place(world, r) /\ chart.number[r][t] = chart.number[r][p] + 0
            /\ chart.gate[r][t] = chart.gate[r][p]
        BY <3>2, CountedLemma
      <3> QED
        BY <1>7, <3>1, <3>3
    <2> QED
      BY <2>1, <2>2 DEF Moves
  <1>9. Count(chart, r)'
    BY <1>1, <1>2, <1>3, <1>4, <1>8 DEF Count
  <1> QED
    BY <1>2, <1>5, <1>9 DEF Counting

LEMMA NextCounts ==
  ASSUME SepIInv, OneSided, MemoryIs, NEW chart, Counted(world, chart), Counting(chart),
         [Next]_vars
  PROVE  Counting(chart)'
  <1>1. ASSUME NEW r \in Rank, Step(r) PROVE Counting(chart)'
    <2>1. CASE EnterCollective(r) \/ StartCollective(r)
      BY <2>1, EnteringSteps, CountEntering
    <2>2. CASE LeaveCollective(r)
      BY <2>2, CountLeaving
    <2>3. CASE AbortAll(r)
      BY <2>3, AllEnd DEF Counting
    <2>4. CASE \/ WaitForCollective(r) \/ PollCollective(r)
               \/ StartMessage(r) \/ EnterMessage(r) \/ LeaveMessage(r) \/ WaitForMessages(r)
               \/ Alone(r)
      <3>1. Aside(r)
        BY <2>4, AsideSteps
      <3>2. Moves(r)
        BY <2>4, MovesIdle
      <3>3. At(r).k # "Icoll"
        BY <2>4 DEF WaitForCollective, PollCollective, StartMessage, EnterMessage, LeaveMessage,
                    WaitForMessages, Alone, Runs
      <3> QED
        BY <3>1, <3>2, <3>3, CountMoving
    <2>5. CASE Issue(r) \/ FlushOps(r) \/ LockTargets(r) \/ UnlockTargets(r) \/ ActiveTarget(r)
      <3>1. Aside(r)
        BY <2>5, AsideSteps
      <3>2. Moves(r)
        BY <2>5, MovesMemory
      <3>3. At(r).k # "Icoll"
        BY <2>5 DEF Issue, FlushOps, LockTargets, UnlockTargets, ActiveTarget, Runs
      <3> QED
        BY <3>1, <3>2, <3>3, CountMoving
    <2> QED
      BY <1>1, <2>1, <2>2, <2>3, <2>4, <2>5 DEF Step
  <1>2. CASE UNCHANGED vars
    <2>1. world' = world /\ pc' = pc /\ inside' = inside /\ calls' = calls
      BY <1>2 DEF vars
    <2>2. Rank' = Rank /\ (Running' <=> Running) /\ (\A q, k : Entered(q, k)' <=> Entered(q, k))
      BY <2>1 DEF Rank, Running, Finished, Text, Entered
    <2>3. ASSUME NEW q \in Rank, Count(chart, q) PROVE Count(chart, q)'
      BY <2>1, <2>2, <2>3, CountStill
    <2> QED
      BY <2>2, <2>3 DEF Counting
  <1> QED
    BY <1>1, <1>2 DEF Next, Done

LEMMA InitCounts ==
  ASSUME Init, NEW chart, Counted(world, chart)
  PROVE  Counting(chart)
  <1>1. ASSUME NEW r \in Rank PROVE Count(chart, r)
    <2>1. /\ pc[r] = 1 /\ ~inside[r] /\ \A q \in Rank : calls[q] = <<>>
          /\ Len(Code[world][r]) \in Nat
      BY CodeAssumption DEF Init, Rank
    <2>2. chart.number[r][1] = 0 /\ chart.gate[r][1] = 0
      BY DEF Counted, Rank
    <2>3. pc[r] \in Place(world, r)
      BY <2>1 DEF Place
    <2> QED
      BY <2>1, <2>2, <2>3 DEF Count, InCollective, Entered
  <1> QED
    BY <1>1 DEF Counting

---------------------------------------------------------------------------
(* Who may be where when a rank is at p: what another has in flight it     *)
(* has at a place that p meets.                                            *)
LEMMA InFlight ==
  ASSUME SepIInv, NEW chart, Charted(world, chart), Counted(world, chart),
         Fitting(chart), Counting(chart), NEW r \in Rank, ~Finished(r), ~InCollective(r),
         NEW q \in Rank
  PROVE  \E m \in Place(world, q) :
           Meet(chart, r, pc[r], q, m) /\ ops[q] \subseteq chart.ops[q][m]
  <1>1. PICK p, n, g, m, i : /\ p = pc[r] /\ n = chart.number[r][p] /\ g = chart.gate[r][p]
                             /\ m = pc[q] /\ i = At(q)
    OBVIOUS
  <1>2. Count(chart, r) /\ Count(chart, q) /\ Fits(chart, q)
    BY OnLine DEF Counting, Fitting
  <1>3. /\ Len(calls[r]) = n /\ Len(calls[q]) >= g /\ n >= g
        /\ n >= chart.gate[q][m] /\ m \in Place(world, q)
    <2>1. /\ Len(calls[r]) = n + 0 /\ \A x \in Rank : Entered(x, g)
          /\ m \in Place(world, q) /\ \A x \in Rank : Entered(x, chart.gate[q][m])
          /\ p \in Place(world, r)
      BY <1>1, <1>2 DEF Count
    <2>2. n \in Nat
      BY <1>1, <2>1, NumbersAre DEF Rank
    <2> QED
      BY <2>1, <2>2 DEF Entered
  <1>4. /\ chart.number[q][m] \in Nat /\ chart.gate[q][m] \in Nat /\ n \in Nat /\ g \in Nat
    BY <1>1, <1>2, <1>3, NumbersAre DEF Rank, Count
  <1>5. CASE ~InCollective(q)
    <2>1. Len(calls[q]) = chart.number[q][m] + 0 /\ ops[q] \subseteq chart.ops[q][m]
      BY <1>1, <1>2, <1>3, <1>5 DEF Count, Fits, HasAt
    <2>2. Meet(chart, r, p, q, m)
      BY <1>1, <1>3, <1>4, <2>1 DEF Meet
    <2> QED
      BY <1>1, <1>3, <2>1, <2>2
  <1>6. CASE InCollective(q)
    <2>1. /\ Len(calls[q]) = chart.number[q][m] + 1
          /\ ops[q] \subseteq OpsAfter(i, chart.ops[q][m])
      BY <1>1, <1>2, <1>3, <1>6 DEF Count, Fits, HasAfter
    <2>2. /\ ~Finished(q) /\ m \in Line(world, q) /\ i = Code[world][q][m] /\ i.k = "Coll"
          /\ Collects(i) /\ q \in DOMAIN Code[world]
      <3>1. inside[q] /\ i.k = "Coll"
        BY <1>1, <1>6 DEF InCollective
      <3>2. ~Finished(q)
        BY <3>1 DEF SepIInv, Busy
      <3> QED
        BY <1>1, <3>1, <3>2, OnLine DEF At, Text, Rank, Collects
    <2>3. PICK t, e : e \in BOOLEAN /\ t = Target(i, m, e)
      OBVIOUS
    <2>4. /\ t \in Place(world, q) /\ chart.number[q][t] = chart.number[q][m] + 1
          /\ chart.gate[q][t] = IF Gate(i) THEN chart.number[q][t] ELSE chart.gate[q][m]
      BY <2>2, <2>3, CountedLemma
    <2>5. CASE Gate(i) /\ n <= chart.number[q][m]
      <3>1. ops[q] \subseteq chart.ops[q][m]
        <4>1. OpsAfter(i, chart.ops[q][m]) \subseteq chart.ops[q][m]
          BY <2>2 DEF OpsAfter, LeftOrigin, Issued
        <4> QED
          BY <2>1, <4>1
      <3>2. Meet(chart, r, p, q, m)
        BY <1>1, <1>3, <1>4, <2>5 DEF Meet
      <3> QED
        BY <1>1, <1>3, <3>1, <3>2
    <2>6. CASE ~(Gate(i) /\ n <= chart.number[q][m])
      <3>1. ops[q] \subseteq chart.ops[q][t]
        <4>1. OpsAfter(i, chart.ops[q][m]) \subseteq chart.ops[q][t]
          BY <2>2, <2>3, <2>4 DEF Charted
        <4> QED
          BY <2>1, <4>1
      <3>2. Meet(chart, r, p, q, t)
        BY <1>1, <1>3, <1>4, <2>1, <2>4, <2>6 DEF Meet
      <3> QED
        BY <1>1, <2>4, <3>1, <3>2
    <2> QED
      BY <2>5, <2>6
  <1> QED
    BY <1>5, <1>6

LEMMA OwnMemoryFree ==
  ASSUME SepIInv, NEW chart, Charted(world, chart), MemoryOrdered(world, chart), Fitting(chart),
         Counted(world, chart) => Counting(chart),
         NEW r \in Rank, Runs(r, "Touch"), At(r).ordered, NEW q \in Rank \ {r}
  PROVE  \A o \in ops[q] : o.to # r
  <1>1. ~Finished(r) /\ ~InCollective(r) /\ pc[r] \in Line(world, r)
        /\ At(r) = Code[world][r][pc[r]] /\ UsesOwn(At(r))
    BY OnLine DEF Runs, InCollective, At, Text, UsesOwn
  <1>2. Counted(world, chart) /\ Undisturbed(world, chart, r, pc[r])
    BY <1>1 DEF MemoryOrdered, Rank
  <1>3. PICK m \in Place(world, q) :
          Meet(chart, r, pc[r], q, m) /\ ops[q] \subseteq chart.ops[q][m]
    BY <1>1, <1>2, InFlight
  <1>4. \A o \in chart.ops[q][m] : o.to # r
    BY <1>2, <1>3 DEF Undisturbed, Rank
  <1> QED
    BY <1>3, <1>4

LEMMA SyncFree ==
  ASSUME SepIInv, NEW chart, MemoryOrdered(world, chart),
         Counted(world, chart) => Counting(chart),
         NEW r \in Rank, inside[r], At(r).k = "Coll", UsesSync(At(r)),
         NEW j \in 1 .. Len(calls[r]), j < Len(calls[r]), Call(r, j).psync = At(r).psync, NEW q \in Rank
  PROVE  HasLeft(q, j)
  <1>1. ~Finished(r) /\ InCollective(r) /\ pc[r] \in Line(world, r)
        /\ At(r) = Code[world][r][pc[r]]
    <2>1. ~Finished(r) /\ InCollective(r)
      BY DEF SepIInv, Busy, InCollective
    <2> QED
      BY <2>1, OnLine DEF At, Text
  <1>2. Counted(world, chart) /\ SyncIsFree(world, chart, r, pc[r])
    BY <1>1 DEF MemoryOrdered, Rank
  <1>3. Count(chart, r)
    BY <1>1, <1>2, OnLine DEF Counting
  <1>4. PICK p, n, g, m : /\ p = pc[r] /\ n = chart.number[r][p] /\ g = chart.gate[r][p]
                          /\ m = calls[r][j].line
    OBVIOUS
  <1>5. /\ n \in Nat /\ g \in Nat /\ Len(calls[r]) = n + 1 /\ chart.number[r][m] = j - 1
        /\ \A x \in Rank : Entered(x, g)
    <2>1. /\ Len(calls[r]) = n + 1 /\ \A x \in Rank : Entered(x, g) /\ p \in Place(world, r)
          /\ \A k \in 1 .. Len(calls[r]) : chart.number[r][calls[r][k].line] = k - 1
      BY <1>1, <1>3, <1>4 DEF Count
    <2>2. n \in Nat /\ g \in Nat
      BY <1>2, <1>4, <2>1, NumbersAre DEF Rank
    <2> QED
      BY <1>4, <2>1, <2>2
  <1>6. m \in Line(world, r) /\ Call(r, j) = Code[world][r][m] /\ Collects(Code[world][r][m])
    BY <1>4, RootLemma, SMTT(30) DEF SepIInv, Line, Text, Collects
  <1>7. chart.number[r][m] + 1 < g
    <2>1. chart.number[r][m] < n
      BY <1>5
    <2>2. Code[world][r][m].psync = Code[world][r][p].psync
      BY <1>1, <1>4, <1>6
    <2> QED
      BY <1>2, <1>4, <1>6, <2>1, <2>2 DEF SyncIsFree
  <1>8. Len(calls[q]) \in Nat
    BY DEF SepIInv, Types
  <1> QED
    BY <1>5, <1>7, <1>8 DEF Entered, HasLeft

---------------------------------------------------------------------------
ChartInv(chart) ==
  /\ TypeIInv /\ MemoryIs
  /\ Charted(world, chart) =>
       /\ Fitting(chart)
       /\ Counted(world, chart) => Counting(chart)

LEMMA ChartInit ==
  ASSUME NEW chart, Init
  PROVE  ChartInv(chart)
  <1>1. TypeIInv
    BY TypeInit
  <1> QED
    BY <1>1, InitFits, InitCounts DEF ChartInv

LEMMA ChartNext ==
  ASSUME NEW chart, ChartInv(chart), [Next]_vars
  PROVE  ChartInv(chart)'
  <1>1. TypeIInv /\ MemoryIs /\ SepIInv /\ OneSided
    BY DEF ChartInv, TypeIInv
  <1>2. TypeIInv' /\ world' = world
    BY <1>1, TypeNext, WorldStays
  <1>3. MemoryIs'
    <2>1. ASSUME NEW r \in Rank, Step(r) PROVE MemoryIs'
      <3>1. CASE EnterCollective(r) \/ StartCollective(r)
        BY <1>1, <3>1, EnterMemory
      <3>2. CASE LeaveCollective(r) \/ AbortAll(r)
        <4>1. UNCHANGED <<ops, epochs, held>> /\ Rank' = Rank
          BY <1>2, <3>2 DEF LeaveCollective, AbortAll, windows, Rank
        <4> QED
          BY <1>1, <4>1, MemoryKept
      <3>3. CASE \/ WaitForCollective(r) \/ PollCollective(r)
                 \/ StartMessage(r) \/ EnterMessage(r) \/ LeaveMessage(r) \/ WaitForMessages(r)
                 \/ Alone(r)
        BY <1>1, <3>3, MovesIdle DEF Moves
      <3>4. CASE Issue(r) \/ FlushOps(r) \/ LockTargets(r) \/ UnlockTargets(r) \/ ActiveTarget(r)
        BY <1>1, <3>4, MovesMemory DEF Moves
      <3> QED
        BY <2>1, <3>1, <3>2, <3>3, <3>4 DEF Step
    <2>2. CASE UNCHANGED vars
      <3>1. UNCHANGED <<ops, epochs, held>> /\ Rank' = Rank
        BY <1>2, <2>2 DEF vars, Rank
      <3> QED
        BY <1>1, <3>1, MemoryKept
    <2> QED
      BY <2>1, <2>2 DEF Next, Done
  <1>4. ASSUME Charted(world, chart)
        PROVE  /\ Fitting(chart)'
               /\ Counted(world, chart) => Counting(chart)'
    <2>1. /\ Fitting(chart)
          /\ Counted(world, chart) => Counting(chart)
      BY <1>4 DEF ChartInv
    <2>2. Fitting(chart)'
      BY <1>1, <1>4, <2>1, NextFits
    <2>3. Counted(world, chart) => Counting(chart)'
      BY <1>1, <2>1, NextCounts
    <2> QED
      BY <2>2, <2>3
  <1> QED
    BY <1>2, <1>3, <1>4 DEF ChartInv

(* What the chart of a world says is what its ranks have, in every run.    *)
THEOREM ChartHolds ==
  ASSUME NEW CONSTANT chart
  PROVE  Spec => []ChartInv(chart)
  <1>1. Init => ChartInv(chart)
    BY ChartInit
  <1>2. ChartInv(chart) /\ [Next]_vars => ChartInv(chart)'
    BY ChartNext
  <1> QED
    BY <1>1, <1>2, PTL DEF Spec

(* Where a chart of the texts shows that nobody who may be around has an   *)
(* operation on the memory that a PE uses itself, and that a barrier of    *)
(* all lies between two uses of a pSync array, symmetric memory is free    *)
(* when it is used, in every run with however many PEs.                    *)
THEOREM SymmetricForAll ==
  ASSUME NEW CONSTANT chart
  PROVE  Spec => [](Charted(world, chart) /\ MemoryOrdered(world, chart) => SymmetricMemoryFree)
  <1>1. ChartInv(chart) => (Charted(world, chart) /\ MemoryOrdered(world, chart) => SymmetricMemoryFree)
    <2>1. SUFFICES ASSUME ChartInv(chart), Charted(world, chart), MemoryOrdered(world, chart)
                   PROVE  SymmetricMemoryFree
      OBVIOUS
    <2>2. SepIInv /\ Fitting(chart) /\ (Counted(world, chart) => Counting(chart))
      BY <2>1 DEF ChartInv, TypeIInv
    <2>3. ASSUME NEW r \in Rank, NEW q \in Rank, Runs(r, "Touch"), At(r).ordered, q # r
          PROVE  \A o \in ops[q] : o.to # r
      BY <2>1, <2>2, <2>3, OwnMemoryFree
    <2>4. ASSUME NEW r \in Rank, NEW q \in Rank, inside[r], At(r).k = "Coll", At(r).psync # "",
                 NEW j \in 1 .. Len(calls[r]) - 1, Call(r, j).psync = At(r).psync
          PROVE  HasLeft(q, j)
      <3>1. UsesSync(At(r))
        BY <2>4, Zenon DEF UsesSync
      <3>2. ASSUME NEW n \in Nat, NEW k \in 1 .. n - 1 PROVE k \in 1 .. n /\ k < n
        BY <3>2
      <3>3. Len(calls[r]) \in Nat
        BY <2>2 DEF SepIInv, Types
      <3>4. j \in 1 .. Len(calls[r]) /\ j < Len(calls[r])
        BY <3>2, <3>3
      <3> QED
        BY <2>1, <2>2, <2>4, <3>1, <3>4, SyncFree, Zenon
    <2> QED
      BY <2>3, <2>4, Zenon DEF SymmetricMemoryFree
  <1> QED
    BY ChartHolds, <1>1, PTL

(* Where it shows that an epoch or a lock covers each one-sided operation  *)
(* and that a window is freed with nothing open, that is so in every run.  *)
THEOREM EpochsForAll ==
  ASSUME NEW CONSTANT chart
  PROVE  Spec => [](Charted(world, chart) /\ EpochsOrdered(world, chart) => EpochsHold)
  <1>1. ChartInv(chart) => (Charted(world, chart) /\ EpochsOrdered(world, chart) => EpochsHold)
    BY EpochsFit DEF ChartInv, TypeIInv
  <1> QED
    BY ChartHolds, <1>1, PTL

---------------------------------------------------------------------------
(* Messages by their numbers.                                              *)
LEMMA FirstIs ==
  ASSUME NEW S, NEW queue \in Seq(S), NEW tag, Len(queue) > 0, queue[1].tag = tag
  PROVE  Waits(queue, tag) /\ FirstOf(queue, tag) = 1
  <1>1. 1 \in DOMAIN queue /\ \A j \in 1 .. 1 - 1 : queue[j].tag # tag
    OBVIOUS
  <1>2. ASSUME NEW x \in DOMAIN queue, \A j \in 1 .. x - 1 : queue[j].tag # tag PROVE x = 1
    <2>1. x \in Nat \ {0}
      OBVIOUS
    <2>2. CASE x > 1
      <3>1. 1 \in 1 .. x - 1
        BY <2>1, <2>2
      <3> QED
        BY <1>2, <3>1
    <2> QED
      BY <2>1, <2>2
  <1> QED
    BY <1>1, <1>2 DEF Waits, FirstOf

LEMMA NoneWaits ==
  ASSUME NEW queue, Len(queue) = 0, NEW S, queue \in Seq(S), NEW tag
  PROVE  ~Waits(queue, tag) /\ queue = <<>>
  BY DEF Waits

(* Message number s + 1 finds receives waiting: the first is its own.      *)
LEMMA QueueMeets ==
  ASSUME NEW S, NEW letter, NEW queue \in Seq(S), NEW other \in Seq(S), NEW s \in Nat, NEW n \in Nat,
         Queued(letter, queue, s, n), Queued(letter, other, n, s), s < n
  PROVE  /\ Len(other) > 0 /\ Label(other[1]) = letter[s + 1]
         /\ Queued(letter, queue, s + 1, n) /\ Queued(letter, Without(other, 1), n, s + 1)
  <1>1. Len(queue) = 0 /\ Len(other) = n - s
    BY DEF Queued
  <1>2. Label(other[1]) = letter[s + 1]
    BY <1>1 DEF Queued
  <1>3. /\ Without(other, 1) \in Seq(S) /\ Len(Without(other, 1)) = Len(other) - 1
        /\ \A y \in 1 .. Len(other) - 1 : Without(other, 1)[y] = other[y + 1]
    <2>1. 1 \in 1 .. Len(other)
      BY <1>1
    <2> QED
      BY <2>1, WithoutItems
  <1>4. ASSUME NEW y \in 1 .. n - s - 1
        PROVE  s + 1 + y \in DOMAIN letter /\ Label(Without(other, 1)[y]) = letter[s + 1 + y]
    <2>1. y + 1 \in 1 .. Len(other) /\ s + (y + 1) = s + 1 + y
      BY <1>1
    <2>2. s + (y + 1) \in DOMAIN letter /\ Label(other[y + 1]) = letter[s + (y + 1)]
      BY <2>1 DEF Queued
    <2> QED
      BY <1>1, <1>3, <2>1, <2>2
  <1>5. Len(Without(other, 1)) = n - s - 1
    BY <1>1, <1>3
  <1> QED
    BY <1>1, <1>2, <1>4, <1>5 DEF Queued

(* Or it finds none, and waits behind those before it.                     *)
LEMMA QueueGrows ==
  ASSUME NEW S, NEW letter, NEW queue \in Seq(S), NEW other \in Seq(S), NEW s \in Nat, NEW n \in Nat,
         Queued(letter, queue, s, n), Queued(letter, other, n, s), s >= n,
         NEW m \in S, s + 1 \in DOMAIN letter, Label(m) = letter[s + 1]
  PROVE  /\ Len(other) = 0
         /\ Queued(letter, Append(queue, m), s + 1, n) /\ Queued(letter, other, n, s + 1)
  <1>1. Len(other) = 0 /\ Len(queue) = s - n
    BY DEF Queued
  <1>2. PICK grown : grown = Append(queue, m)
    OBVIOUS
  <1>3. /\ Len(grown) = s - n + 1 /\ grown[s - n + 1] = m
        /\ \A y \in 1 .. s - n : grown[y] = queue[y]
    BY <1>1, <1>2
  <1>4. ASSUME NEW y \in 1 .. s - n + 1
        PROVE  n + y \in DOMAIN letter /\ Label(grown[y]) = letter[n + y]
    <2>1. CASE y = s - n + 1
      BY <1>3, <2>1
    <2>2. CASE y \in 1 .. s - n
      BY <1>1, <1>3, <2>2 DEF Queued
    <2> QED
      BY <2>1, <2>2
  <1>5. Queued(letter, grown, s + 1, n)
    BY <1>3, <1>4 DEF Queued
  <1> QED
    BY <1>1, <1>2, <1>5 DEF Queued

(* What a send does to the queues, if its message is the next for the      *)
(* receives: only those of its own pair change, and it meets its own.      *)
OtherPairs(r, q) ==
  \A pair \in Rank \X Rank : pair # <<r, q>> => net'[pair] = net[pair] /\ posted'[pair] = posted[pair]

LEMMA PostSendOrder ==
  ASSUME Types, Queues, NEW chart, NEW r \in Rank, ~Finished(r), NEW i, i = At(r), Posts(i),
         PostSend(r, i), NEW s \in Nat, NEW n \in Nat,
         InOrder(chart, r, i.peer, s, n), IsLetter(chart, r, i.peer, s + 1, i)
  PROVE  /\ misfit' = misfit /\ OtherPairs(r, i.peer)
         /\ InOrder(chart, r, i.peer, s + 1, n)'
  <1>1. PICK S, a, letter : S = Items(world) /\ a = i.peer /\ letter = chart.letter[r][a]
    OBVIOUS
  <1>2. PICK N, P : N = net[r, a] /\ P = posted[r, a]
    OBVIOUS
  <1>3. /\ a \in Rank /\ <<r, a>> \in Rank \X Rank /\ N \in Seq(S) /\ P \in Seq(S)
        /\ \A f \in BOOLEAN : [tag |-> i.tag, at |-> i.at, group |-> i.group, flag |-> f] \in S
    <2>1. i.k \in MessageKinds
      BY DEF Posts, MessageKinds
    <2> QED
      BY <1>1, <1>2, <2>1, ItemLemma DEF Queues
  <1>4. /\ Queued(letter, N, s, n) /\ Queued(letter, P, n, s)
        /\ s + 1 \in DOMAIN letter /\ letter[s + 1] = Label(i)
    BY <1>1, <1>2 DEF InOrder, IsLetter
  <1>5. /\ net \in [Rank \X Rank -> Seq(S)] /\ posted \in [Rank \X Rank -> Seq(S)]
    BY <1>1 DEF Queues
  <1>6. CASE s < n
    <2>1. /\ Len(P) > 0 /\ Label(P[1]) = Label(i)
          /\ Queued(letter, N, s + 1, n) /\ Queued(letter, Without(P, 1), n, s + 1)
      BY <1>3, <1>4, <1>6, QueueMeets
    <2>2. P[1].tag = i.tag /\ P[1].at = i.at
      BY <2>1 DEF Label
    <2>3. Waits(P, i.tag) /\ FirstOf(P, i.tag) = 1
      BY <1>3, <2>1, <2>2, FirstIs
    <2>4. PICK m : m = [tag |-> i.tag, at |-> i.at, group |-> i.group, flag |-> i.errors /\ err[r]]
      OBVIOUS
    <2>5. /\ Match(r, a, m, P[1]) /\ net' = net
          /\ posted' = [posted EXCEPT ![<<r, a>>] = Without(@, 1)]
      BY <1>1, <1>2, <2>3, <2>4 DEF PostSend
    <2>6. misfit' = misfit
      BY <2>2, <2>4, <2>5 DEF Match
    <2>7. posted'[r, a] = Without(P, 1) /\ net'[r, a] = N
      BY <1>2, <1>3, <1>5, <2>5
    <2>8. OtherPairs(r, a)
      BY <1>3, <1>5, <2>5 DEF OtherPairs
    <2> QED
      BY <1>1, <2>1, <2>6, <2>7, <2>8 DEF InOrder
  <1>7. CASE s >= n
    <2>1. PICK m : m = [tag |-> i.tag, at |-> i.at, group |-> i.group, flag |-> i.errors /\ err[r]]
      OBVIOUS
    <2>2. m \in S /\ Label(m) = letter[s + 1]
      <3>1. (i.errors /\ err[r]) \in BOOLEAN
        OBVIOUS
      <3> QED
        BY <1>3, <1>4, <2>1, <3>1 DEF Label
    <2>3. /\ Len(P) = 0 /\ Queued(letter, Append(N, m), s + 1, n) /\ Queued(letter, P, n, s + 1)
      BY <1>3, <1>4, <1>7, <2>2, QueueGrows
    <2>4. ~Waits(P, i.tag)
      BY <1>3, <2>3, NoneWaits
    <2>5. /\ net' = [net EXCEPT ![<<r, a>>] = Append(@, m)] /\ posted' = posted /\ misfit' = misfit
      BY <1>1, <1>2, <2>1, <2>4 DEF PostSend
    <2>6. net'[r, a] = Append(N, m) /\ posted'[r, a] = P
      BY <1>2, <1>3, <1>5, <2>5
    <2>7. OtherPairs(r, a)
      BY <1>3, <1>5, <2>5 DEF OtherPairs
    <2> QED
      BY <1>1, <2>3, <2>5, <2>6, <2>7 DEF InOrder
  <1> QED
    BY <1>6, <1>7

LEMMA PostReceiveOrder ==
  ASSUME Types, Queues, NEW chart, NEW r \in Rank, ~Finished(r), NEW i, i = At(r), Receives(i),
         PostReceive(r, i), NEW s \in Nat, NEW n \in Nat,
         InOrder(chart, i.peer, r, s, n), IsLetter(chart, i.peer, r, n + 1, i)
  PROVE  /\ misfit' = misfit /\ OtherPairs(i.peer, r)
         /\ InOrder(chart, i.peer, r, s, n + 1)'
  <1>1. PICK S, a, letter : S = Items(world) /\ a = i.peer /\ letter = chart.letter[a][r]
    OBVIOUS
  <1>2. PICK N, P : N = net[a, r] /\ P = posted[a, r]
    OBVIOUS
  <1>3. /\ a \in Rank /\ <<a, r>> \in Rank \X Rank /\ N \in Seq(S) /\ P \in Seq(S)
        /\ [tag |-> i.tag, at |-> i.at, group |-> i.group] \in S
    <2>1. i.k \in MessageKinds
      BY DEF Receives, MessageKinds
    <2> QED
      BY <1>1, <1>2, <2>1, ItemLemma DEF Queues
  <1>4. /\ Queued(letter, N, s, n) /\ Queued(letter, P, n, s)
        /\ n + 1 \in DOMAIN letter /\ letter[n + 1] = Label(i)
    BY <1>1, <1>2 DEF InOrder, IsLetter
  <1>5. /\ net \in [Rank \X Rank -> Seq(S)] /\ posted \in [Rank \X Rank -> Seq(S)]
    BY <1>1 DEF Queues
  <1>6. CASE n < s
    <2>1. /\ Len(N) > 0 /\ Label(N[1]) = Label(i)
          /\ Queued(letter, P, n + 1, s) /\ Queued(letter, Without(N, 1), s, n + 1)
      BY <1>3, <1>4, <1>6, QueueMeets
    <2>2. N[1].tag = i.tag /\ N[1].at = i.at
      BY <2>1 DEF Label
    <2>3. Waits(N, i.tag) /\ FirstOf(N, i.tag) = 1
      BY <1>3, <2>1, <2>2, FirstIs
    <2>4. /\ Match(a, r, N[1], i) /\ posted' = posted
          /\ net' = [net EXCEPT ![<<a, r>>] = Without(@, 1)]
      BY <1>1, <1>2, <2>3 DEF PostReceive
    <2>5. misfit' = misfit
      BY <2>2, <2>4 DEF Match
    <2>6. net'[a, r] = Without(N, 1) /\ posted'[a, r] = P
      BY <1>2, <1>3, <1>5, <2>4
    <2>7. OtherPairs(a, r)
      BY <1>3, <1>5, <2>4 DEF OtherPairs
    <2> QED
      BY <1>1, <2>1, <2>5, <2>6, <2>7 DEF InOrder
  <1>7. CASE n >= s
    <2>1. PICK m : m = [tag |-> i.tag, at |-> i.at, group |-> i.group]
      OBVIOUS
    <2>2. m \in S /\ Label(m) = letter[n + 1]
      BY <1>3, <1>4, <2>1 DEF Label
    <2>3. /\ Len(N) = 0 /\ Queued(letter, Append(P, m), n + 1, s) /\ Queued(letter, N, s, n + 1)
      BY <1>3, <1>4, <1>7, <2>2, QueueGrows
    <2>4. ~Waits(N, i.tag)
      BY <1>3, <2>3, NoneWaits
    <2>5. /\ posted' = [posted EXCEPT ![<<a, r>>] = Append(@, m)] /\ net' = net /\ misfit' = misfit
      BY <1>1, <1>2, <2>1, <2>4 DEF PostReceive
    <2>6. posted'[a, r] = Append(P, m) /\ net'[a, r] = N
      BY <1>2, <1>3, <1>5, <2>5
    <2>7. OtherPairs(a, r)
      BY <1>3, <1>5, <2>5 DEF OtherPairs
    <2> QED
      BY <1>1, <2>3, <2>5, <2>6, <2>7 DEF InOrder
  <1> QED
    BY <1>6, <1>7


---------------------------------------------------------------------------
(* The steps of a rank are of two kinds: those that send or receive, and   *)
(* those that leave messages alone.                                        *)
Others(r) == world' = world /\ \A q \in Rank \ {r} : pc'[q] = pc[q] /\ inside'[q] = inside[q]
Onward(r) == pc'[r] = Target(At(r), pc[r], err[r]) /\ ~inside'[r]
Speaks(r) ==
  /\ ~Finished(r) /\ ~inside[r] /\ Others(r)
  /\ \/ Posts(At(r)) /\ PostSend(r, At(r))
     \/ Receives(At(r)) /\ PostReceive(r, At(r))
  /\ Onward(r) \/ (pc'[r] = pc[r] /\ inside'[r])
Silent(r) ==
  /\ ~Finished(r) /\ Others(r) /\ UNCHANGED <<net, posted, misfit>>
  /\ \/ pc'[r] = pc[r] /\ At(r).k \notin MessageKinds
     \/ Onward(r) /\ (At(r).k \in MessageKinds => inside[r])

LEMMA SpeakSteps ==
  ASSUME SepIInv, NEW r \in Rank, StartMessage(r) \/ EnterMessage(r)
  PROVE  Speaks(r)
  <1>0. inside \in [Rank -> BOOLEAN] /\ pc \in [Rank -> Nat \ {0}]
    BY DEF SepIInv, Types
  <1>1. CASE StartMessage(r)
    <2>1. /\ ~Finished(r) /\ At(r).k \in {"Isend", "Irecv"} /\ Advance(r, 1)
          /\ world' = world /\ inside' = inside
      BY <1>1 DEF StartMessage, Runs
    <2>2. ~inside[r]
      BY <2>1 DEF SepIInv, Busy
    <2>3. pc'[r] = Target(At(r), pc[r], err[r])
      BY <2>1, NextPlace
    <2>4. \A q \in Rank \ {r} : pc'[q] = pc[q]
      BY <1>0, <2>1 DEF Advance
    <2>5. \/ Posts(At(r)) /\ PostSend(r, At(r))
          \/ Receives(At(r)) /\ PostReceive(r, At(r))
      BY <1>1 DEF StartMessage, Runs, Posts, Receives
    <2> QED
      BY <2>1, <2>2, <2>3, <2>4, <2>5 DEF Speaks, Others, Onward
  <1>2. CASE EnterMessage(r)
    <2>1. /\ ~Finished(r) /\ ~inside[r] /\ pc' = pc /\ world' = world
          /\ inside' = [inside EXCEPT ![r] = TRUE]
      BY <1>2 DEF EnterMessage, Runs
    <2>2. inside'[r] /\ \A q \in Rank \ {r} : inside'[q] = inside[q]
      BY <1>0, <2>1
    <2>3. \/ Posts(At(r)) /\ PostSend(r, At(r))
          \/ Receives(At(r)) /\ PostReceive(r, At(r))
      BY <1>2 DEF EnterMessage, Runs, Posts, Receives
    <2> QED
      BY <2>1, <2>2, <2>3 DEF Speaks, Others
  <1> QED
    BY <1>1, <1>2

LEMMA SilentSteps ==
  ASSUME SepIInv, OneSided, MemoryIs, NEW r \in Rank, Step(r),
         ~StartMessage(r), ~EnterMessage(r), ~AbortAll(r)
  PROVE  Silent(r)
  <1>0. inside \in [Rank -> BOOLEAN] /\ pc \in [Rank -> Nat \ {0}]
    BY DEF SepIInv, Types
  <1>1. CASE EnterCollective(r) \/ StartCollective(r)
    <2>1. Entering(r)
      BY <1>1, EnteringSteps
    <2>2. UNCHANGED <<net, posted, misfit>>
      BY <1>1 DEF EnterCollective, StartCollective, messages
    <2>3. At(r).k \notin MessageKinds /\ (At(r).k = "Icoll" => Target(At(r), pc[r], err[r]) = pc[r] + 1)
      BY <2>1 DEF Entering, Collects, MessageKinds, Target
    <2> QED
      BY <2>1, <2>2, <2>3 DEF Entering, Silent, Others, Onward
  <1>2. CASE LeaveCollective(r) \/ LeaveMessage(r)
    <2>1. /\ ~Finished(r) /\ At(r).k \in {"Coll", "Send", "Recv"} /\ inside[r] /\ world' = world
          /\ inside' = [inside EXCEPT ![r] = FALSE] /\ Advance(r, 1)
          /\ UNCHANGED <<net, posted, misfit>>
      BY <1>2 DEF LeaveCollective, LeaveMessage, Runs, messages
    <2>2. ~inside'[r] /\ \A q \in Rank \ {r} : pc'[q] = pc[q] /\ inside'[q] = inside[q]
      BY <1>0, <2>1 DEF Advance
    <2>3. pc'[r] = Target(At(r), pc[r], err[r])
      BY <2>1, NextPlace
    <2> QED
      BY <2>1, <2>2, <2>3 DEF Silent, Others, Onward
  <1>3. CASE \/ WaitForCollective(r) \/ PollCollective(r) \/ WaitForMessages(r) \/ Alone(r)
             \/ Issue(r) \/ FlushOps(r) \/ LockTargets(r) \/ UnlockTargets(r) \/ ActiveTarget(r)
    <2>1. Aside(r) /\ Moves(r)
      BY <1>3, AsideSteps, MovesIdle, MovesMemory
    <2>2. UNCHANGED <<net, posted, misfit>>
      BY <1>3 DEF WaitForCollective, PollCollective, WaitForMessages, Alone, Issue, FlushOps,
                  LockTargets, UnlockTargets, ActiveTarget, messages
    <2>3. At(r).k \notin MessageKinds
      <3>1. CASE WaitForCollective(r) \/ PollCollective(r) \/ WaitForMessages(r) \/ Alone(r)
        BY <3>1 DEF WaitForCollective, PollCollective, WaitForMessages, Alone, Runs, MessageKinds
      <3>2. CASE \/ Issue(r) \/ FlushOps(r) \/ LockTargets(r) \/ UnlockTargets(r)
                 \/ ActiveTarget(r)
        BY <3>2 DEF Issue, FlushOps, LockTargets, UnlockTargets, ActiveTarget, Runs, MessageKinds
      <3> QED
        BY <1>3, <3>1, <3>2
    <2>4. ~inside'[r] /\ pc'[r] = Target(At(r), pc[r], err[r])
      BY <2>1, <2>3 DEF Aside, Moves, MessageKinds
    <2> QED
      BY <2>1, <2>2, <2>3, <2>4 DEF Silent, Others, Onward, Aside
  <1> QED
    BY <1>1, <1>2, <1>3 DEF Step

(* The anchor of a rank moves along: what it has sent and received by the  *)
(* new one is what it had by the old one, and what it says or hears.       *)
Moved(chart, x, m, l) ==
  /\ l \in Anchors(chart, x)'
  /\ \A q \in Rank : /\ Sent(chart, x, l, q)' = Sent(chart, x, m, q)
                     /\ Got(chart, x, l, q)' = Got(chart, x, m, q)
Spoken(chart, x, m, l) ==
  /\ l \in Anchors(chart, x)'
  /\ \A q \in Rank : /\ Sent(chart, x, l, q)' = Sent(chart, x, m, q) + Told(At(x), q)
                     /\ Got(chart, x, l, q)' = Got(chart, x, m, q) + Heard(At(x), q)

LEMMA ToldHeard ==
  ASSUME NEW i, NEW q
  PROVE  /\ Told(i, q) \in {0, 1} /\ Heard(i, q) \in {0, 1}
         /\ i.k \notin MessageKinds => Told(i, q) = 0 /\ Heard(i, q) = 0
         /\ Posts(i) => Heard(i, q) = 0
         /\ Receives(i) => Told(i, q) = 0
  BY DEF Told, Heard, Posts, Receives, MessageKinds

LEMMA AnchorLemma ==
  ASSUME SepIInv, NEW chart, Conversing(world, chart), NEW r \in Rank, NEW m \in Anchors(chart, r)
  PROVE  /\ m \in Place(world, r) /\ chart.plain[r][m]
         /\ OnPlain(chart, r) => m = pc[r]
         /\ \A q \in Rank : /\ chart.sent[r][m][q] \in Nat /\ chart.got[r][m][q] \in Nat
                            /\ Sent(chart, r, m, q) \in Nat /\ Got(chart, r, m, q) \in Nat
  <1>1. m \in Place(world, r) /\ chart.plain[r][m] /\ (OnPlain(chart, r) => m = pc[r])
    BY DEF Anchors, OnPlain
  <1>2. \A q \in Rank : chart.sent[r][m][q] \in Nat /\ chart.got[r][m][q] \in Nat
    <2>1. \A p \in Place(world, r), q \in Rank : chart.sent[r][p][q] \in Nat /\ chart.got[r][p][q] \in Nat
      BY Zenon DEF Conversing, Rank
    <2> QED
      BY <1>1, <2>1
  <1> QED
    BY <1>1, <1>2, ToldHeard DEF Sent, Got

(* At an instruction for a message the rank is at a plain place, and so is *)
(* the next.                                                               *)
LEMMA WordedLemma ==
  ASSUME SepIInv, NEW chart, Conversing(world, chart), NEW r \in Rank, ~Finished(r)
  PROVE  /\ Posts(At(r)) \/ Receives(At(r)) => OnPlain(chart, r) /\ chart.plain[r][pc[r] + 1]
         /\ Posts(At(r)) => IsLetter(chart, r, At(r).peer, chart.sent[r][pc[r]][At(r).peer] + 1, At(r))
         /\ Receives(At(r)) => IsLetter(chart, At(r).peer, r, chart.got[r][pc[r]][At(r).peer] + 1, At(r))
  <1>1. /\ pc[r] \in Line(world, r) /\ pc[r] \in Place(world, r) /\ r \in DOMAIN Code[world]
        /\ At(r) = Code[world][r][pc[r]]
    BY OnLine DEF At, Text, Rank
  <1>2. Worded(world, chart, r, pc[r])
    BY <1>1 DEF Conversing
  <1> QED
    BY <1>1, <1>2 DEF Worded, OnPlain

LEMMA CountsOn ==
  ASSUME SepIInv, NEW chart, Conversing(world, chart), NEW r \in Rank, ~Finished(r), Onward(r),
         pc'[r] \in Place(world, r), chart.plain[r][pc'[r]]
  PROVE  /\ OnPlain(chart, r)
         /\ \A q \in Rank :
              /\ chart.sent[r][pc'[r]][q] = chart.sent[r][pc[r]][q] + Told(At(r), q)
              /\ chart.got[r][pc'[r]][q] = chart.got[r][pc[r]][q] + Heard(At(r), q)
  <1>1. PICK p, e, t : p = pc[r] /\ e = err[r] /\ t = pc'[r]
    OBVIOUS
  <1>2. /\ p \in Line(world, r) /\ p \in Place(world, r) /\ r \in DOMAIN Code[world]
        /\ At(r) = Code[world][r][p] /\ e \in BOOLEAN
    BY <1>1, OnLine DEF At, Text, Rank
  <1>3. t = Target(Code[world][r][p], p, e) /\ t \in Place(world, r)
    BY <1>1, <1>2 DEF Onward
  <1>4. CountsFrom(world, chart, r, p, t)
    BY <1>2, <1>3 DEF Conversing
  <1> QED
    BY <1>1, <1>2, <1>4 DEF CountsFrom, OnPlain, Rank

LEMMA ToAnchor ==
  ASSUME SepIInv, NEW chart, NEW r \in Rank, world' = world,
         pc'[r] \in Place(world, r), chart.plain[r][pc'[r]], NEW l, l = pc'[r]
  PROVE  l \in Anchors(chart, r)'
  <1>1. OnPlain(chart, r)'
    BY DEF OnPlain, Place
  <1> QED
    BY <1>1 DEF Anchors

LEMMA NextLine ==
  ASSUME SepIInv, NEW r \in Rank, ~Finished(r), Onward(r), At(r).k \in MessageKinds
  PROVE  pc'[r] = pc[r] + 1 /\ pc'[r] \in Place(world, r)
  <1>1. pc'[r] = pc[r] + 1
    BY DEF Onward, Target, MessageKinds
  <1>2. pc[r] \in 1 .. Len(Text(r)) /\ Len(Text(r)) \in Nat
    BY TextLemma DEF SepIInv
  <1> QED
    BY <1>1, <1>2 DEF Place, Text

LEMMA AnchorSpeaks ==
  ASSUME SepIInv, NEW chart, Conversing(world, chart), NEW r \in Rank, Speaks(r),
         NEW m \in Anchors(chart, r)
  PROVE  /\ m = pc[r] /\ \E l : Spoken(chart, r, m, l)
         /\ \A q \in Rank : /\ Sent(chart, r, m, q) = chart.sent[r][pc[r]][q]
                            /\ Got(chart, r, m, q) = chart.got[r][pc[r]][q]
  <1>1. /\ ~Finished(r) /\ ~inside[r] /\ world' = world /\ Rank' = Rank
        /\ Posts(At(r)) \/ Receives(At(r))
    BY DEF Speaks, Others, Rank
  <1>2. OnPlain(chart, r) /\ chart.plain[r][pc[r] + 1] /\ m = pc[r]
    BY <1>1, WordedLemma, AnchorLemma
  <1>3. \A q \in Rank : /\ Sent(chart, r, m, q) = chart.sent[r][m][q] /\ chart.sent[r][m][q] \in Nat
                        /\ Got(chart, r, m, q) = chart.got[r][m][q] /\ chart.got[r][m][q] \in Nat
    BY <1>1, AnchorLemma DEF Sent, Got
  <1>4. CASE Onward(r)
    <2>1. pc'[r] = pc[r] + 1 /\ pc'[r] \in Place(world, r)
      BY <1>1, <1>4, NextLine DEF Posts, Receives, MessageKinds
    <2>2. PICK l : l = pc'[r]
      OBVIOUS
    <2>3. l \in Anchors(chart, r)'
      BY <1>1, <1>2, <2>1, <2>2, ToAnchor
    <2>4. \A q \in Rank : /\ chart.sent[r][l][q] = chart.sent[r][m][q] + Told(At(r), q)
                          /\ chart.got[r][l][q] = chart.got[r][m][q] + Heard(At(r), q)
      BY <1>1, <1>2, <1>4, <2>1, <2>2, CountsOn
    <2>5. \A q \in Rank : /\ Sent(chart, r, l, q)' = chart.sent[r][l][q] + 0
                          /\ Got(chart, r, l, q)' = chart.got[r][l][q] + 0
      BY <1>4 DEF Onward, Sent, Got
    <2>6. Spoken(chart, r, m, l)
      BY <1>3, <2>3, <2>4, <2>5, ToldHeard DEF Spoken
    <2> QED
      BY <1>2, <1>3, <2>6
  <1>5. CASE pc'[r] = pc[r] /\ inside'[r]
    <2>1. m \in Anchors(chart, r)'
      BY <1>1, <1>2, <1>5, ToAnchor DEF OnPlain
    <2>2. At(r)' = At(r)
      BY <1>1, <1>5 DEF At, Text
    <2>3. \A q \in Rank : /\ Sent(chart, r, m, q)' = chart.sent[r][m][q] + Told(At(r), q)
                          /\ Got(chart, r, m, q)' = chart.got[r][m][q] + Heard(At(r), q)
      BY <1>5, <2>2 DEF Sent, Got
    <2>4. Spoken(chart, r, m, m)
      BY <1>3, <2>1, <2>3 DEF Spoken
    <2> QED
      BY <1>2, <1>3, <2>4
  <1> QED
    BY <1>4, <1>5 DEF Speaks

LEMMA AnchorSilent ==
  ASSUME SepIInv, NEW chart, Conversing(world, chart), NEW r \in Rank, Silent(r),
         NEW m \in Anchors(chart, r)
  PROVE  \E l : Moved(chart, r, m, l)
  <1>1. ~Finished(r) /\ world' = world /\ Rank' = Rank
    BY DEF Silent, Others, Rank
  <1>2. m \in Place(world, r) /\ chart.plain[r][m]
        /\ \A q \in Rank : chart.sent[r][m][q] \in Nat /\ chart.got[r][m][q] \in Nat
    BY AnchorLemma
  <1>3. CASE pc'[r] = pc[r] /\ At(r).k \notin MessageKinds
    <2>1. At(r)' = At(r)
      BY <1>1, <1>3 DEF At, Text
    <2>2. m \in Anchors(chart, r)'
      BY <1>1, <1>3 DEF Anchors, OnPlain, Place
    <2>3. \A q \in Rank : Sent(chart, r, m, q)' = Sent(chart, r, m, q) /\ Got(chart, r, m, q)' = Got(chart, r, m, q)
      BY <1>2, <1>3, <2>1, ToldHeard DEF Sent, Got
    <2> QED
      BY <2>2, <2>3 DEF Moved
  <1>4. CASE Onward(r) /\ At(r).k \in MessageKinds /\ inside[r]
    <2>1. pc'[r] = pc[r] + 1 /\ pc'[r] \in Place(world, r)
      BY <1>1, <1>4, NextLine
    <2>2. OnPlain(chart, r) /\ chart.plain[r][pc[r] + 1] /\ m = pc[r]
      BY <1>1, <1>4, WordedLemma, AnchorLemma DEF Posts, Receives, MessageKinds
    <2>3. PICK l : l = pc'[r]
      OBVIOUS
    <2>4. l \in Anchors(chart, r)'
      BY <1>1, <2>1, <2>2, <2>3, ToAnchor
    <2>5. \A q \in Rank : /\ chart.sent[r][l][q] = chart.sent[r][m][q] + Told(At(r), q)
                          /\ chart.got[r][l][q] = chart.got[r][m][q] + Heard(At(r), q)
      BY <1>1, <1>4, <2>1, <2>2, <2>3, CountsOn
    <2>6. \A q \in Rank : /\ Sent(chart, r, l, q)' = chart.sent[r][l][q] + 0
                          /\ Got(chart, r, l, q)' = chart.got[r][l][q] + 0
      BY <1>4 DEF Onward, Sent, Got
    <2>7. \A q \in Rank : /\ Sent(chart, r, m, q) = chart.sent[r][m][q] + Told(At(r), q)
                          /\ Got(chart, r, m, q) = chart.got[r][m][q] + Heard(At(r), q)
      BY <1>4 DEF Sent, Got
    <2>8. Moved(chart, r, m, l)
      BY <1>2, <2>4, <2>5, <2>6, <2>7, ToldHeard DEF Moved
    <2> QED
      BY <2>8
  <1>5. CASE Onward(r) /\ At(r).k \notin MessageKinds
    <2>1. \A q \in Rank : Sent(chart, r, m, q) = chart.sent[r][m][q] /\ Got(chart, r, m, q) = chart.got[r][m][q]
      BY <1>2, <1>5, ToldHeard DEF Sent, Got
    <2>2. \A l, q : Sent(chart, r, l, q)' = chart.sent[r][l][q] + 0 /\ Got(chart, r, l, q)' = chart.got[r][l][q] + 0
      BY <1>5 DEF Onward, Sent, Got
    <2>3. CASE pc'[r] \in Place(world, r) /\ chart.plain[r][pc'[r]]
      <3>1. OnPlain(chart, r) /\ m = pc[r]
        BY <1>1, <1>5, <2>3, CountsOn, AnchorLemma
      <3>2. PICK l : l = pc'[r]
        OBVIOUS
      <3>3. l \in Anchors(chart, r)'
        BY <1>1, <2>3, <3>2, ToAnchor
      <3>4. \A q \in Rank : chart.sent[r][l][q] = chart.sent[r][m][q] + 0 /\ chart.got[r][l][q] = chart.got[r][m][q] + 0
        BY <1>1, <1>5, <2>3, <3>1, <3>2, CountsOn, ToldHeard
      <3>5. Moved(chart, r, m, l)
        BY <1>2, <2>1, <2>2, <3>3, <3>4 DEF Moved
      <3> QED
        BY <3>5
    <2>4. CASE ~(pc'[r] \in Place(world, r) /\ chart.plain[r][pc'[r]])
      <3>1. ~OnPlain(chart, r)'
        BY <1>1, <2>4 DEF OnPlain, Place
      <3>2. m \in Anchors(chart, r)'
        BY <1>1, <1>2, <3>1 DEF Anchors, Place
      <3>3. Moved(chart, r, m, m)
        BY <1>2, <2>1, <2>2, <3>2 DEF Moved
      <3> QED
        BY <3>3
    <2> QED
      BY <2>3, <2>4
  <1> QED
    BY <1>3, <1>4, <1>5 DEF Silent

(* The others stay where they are.                                         *)
LEMMA AnchorStays ==
  ASSUME NEW chart, NEW q \in Rank, world' = world, pc'[q] = pc[q], inside'[q] = inside[q],
         NEW m \in Anchors(chart, q)
  PROVE  Moved(chart, q, m, m)
  <1>1. Anchors(chart, q)' = Anchors(chart, q)
    BY DEF Anchors, OnPlain, Place
  <1>2. At(q)' = At(q)
    BY DEF At, Text
  <1> QED
    BY <1>1, <1>2 DEF Moved, Sent, Got

(* So the queues hold what the anchors say, whoever does what.             *)
LEMMA SilentKeeps ==
  ASSUME SepIInv, NEW chart, Conversing(world, chart), Exchanging(chart), NEW r \in Rank, Silent(r)
  PROVE  Exchanging(chart)'
  <1>1. /\ ~Finished(r) /\ Others(r) /\ UNCHANGED <<net, posted>> /\ Rank' = Rank
    BY DEF Silent, Others, Rank
  <1>2. ASSUME NEW q \in Rank, NEW m \in Anchors(chart, q) PROVE \E l : Moved(chart, q, m, l)
    <2>1. CASE q = r
      BY <1>2, <2>1, AnchorSilent
    <2>2. CASE q # r
      BY <1>1, <1>2, <2>2, AnchorStays DEF Others
    <2> QED
      BY <2>1, <2>2
  <1>3. ASSUME NEW x \in Rank, NEW y \in Rank PROVE Exchanged(chart, x, y)'
    <2>1. Exchanged(chart, x, y)
      BY <1>1, OnLine DEF Exchanging
    <2>2. PICK m \in Anchors(chart, x), l \in Anchors(chart, y) :
            /\ InOrder(chart, x, y, Sent(chart, x, m, y), Got(chart, y, l, x))
            /\ InOrder(chart, y, x, Sent(chart, y, l, x), Got(chart, x, m, y))
      BY <2>1 DEF Exchanged
    <2>3. PICK mm, ll : Moved(chart, x, m, mm) /\ Moved(chart, y, l, ll)
      BY <1>2
    <2>4. ASSUME NEW a \in Rank, NEW b \in Rank, NEW s, NEW n, InOrder(chart, a, b, s, n)
          PROVE  InOrder(chart, a, b, s, n)'
      BY <1>1, <2>4 DEF InOrder
    <2>5. PICK s, n, u, v : /\ s = Sent(chart, x, m, y) /\ n = Got(chart, y, l, x)
                            /\ u = Sent(chart, y, l, x) /\ v = Got(chart, x, m, y)
      OBVIOUS
    <2>6. InOrder(chart, x, y, s, n)' /\ InOrder(chart, y, x, u, v)'
      BY <2>2, <2>4, <2>5
    <2>7. /\ mm \in Anchors(chart, x)' /\ ll \in Anchors(chart, y)'
          /\ Sent(chart, x, mm, y)' = s /\ Got(chart, y, ll, x)' = n
          /\ Sent(chart, y, ll, x)' = u /\ Got(chart, x, mm, y)' = v
      BY <2>3, <2>5 DEF Moved
    <2> QED
      BY <2>6, <2>7 DEF Exchanged
  <1> QED
    BY <1>1, <1>3 DEF Exchanging

LEMMA OtherQueues ==
  ASSUME NEW chart, NEW r, NEW q, OtherPairs(r, q), NEW a \in Rank, NEW b \in Rank, <<a, b>> # <<r, q>>,
         NEW s, NEW n, InOrder(chart, a, b, s, n)
  PROVE  InOrder(chart, a, b, s, n)'
  <1>1. net'[a, b] = net[a, b] /\ posted'[a, b] = posted[a, b]
    BY DEF OtherPairs
  <1> QED
    BY <1>1 DEF InOrder

LEMMA SpeakPairs ==
  ASSUME TypeIInv, NEW r \in Rank, ~Finished(r), NEW i, i = At(r), Posts(i) \/ Receives(i)
  PROVE  /\ PostSend(r, i) => OtherPairs(r, i.peer)
         /\ PostReceive(r, i) => OtherPairs(i.peer, r)
  <1>1. i.peer \in Rank
    BY ItemLemma DEF TypeIInv, SepIInv, Posts, Receives, MessageKinds
  <1>2. PICK S : net \in [Rank \X Rank -> Seq(S)] /\ posted \in [Rank \X Rank -> Seq(S)]
    BY DEF TypeIInv, Queues
  <1>3. ASSUME PostSend(r, i) PROVE OtherPairs(r, i.peer)
    BY <1>1, <1>2, <1>3 DEF PostSend, OtherPairs
  <1>4. ASSUME PostReceive(r, i) PROVE OtherPairs(i.peer, r)
    BY <1>1, <1>2, <1>4 DEF PostReceive, OtherPairs
  <1> QED
    BY <1>3, <1>4

(* One queue, in one direction, when r speaks.                             *)
Follows(chart, r, x, m, l) == IF x = r THEN Spoken(chart, x, m, l) ELSE Moved(chart, x, m, l)
Meant(r, x, y) ==
  \/ Posts(At(r)) /\ x = r /\ y = At(r).peer
  \/ Receives(At(r)) /\ x = At(r).peer /\ y = r

LEMMA SpeakOrder ==
  ASSUME TypeIInv, NEW chart, Conversing(world, chart), NEW r \in Rank, Speaks(r),
         NEW x \in Rank, NEW y \in Rank, NEW m \in Anchors(chart, x), NEW l \in Anchors(chart, y),
         InOrder(chart, x, y, Sent(chart, x, m, y), Got(chart, y, l, x)),
         NEW mm, NEW ll, Follows(chart, r, x, m, mm), Follows(chart, r, y, l, ll)
  PROVE  /\ InOrder(chart, x, y, Sent(chart, x, mm, y), Got(chart, y, ll, x))'
         /\ Meant(r, x, y) => misfit' = misfit
  <1>0. SepIInv /\ Types /\ Queues /\ ~Finished(r) /\ Rank' = Rank
    BY DEF TypeIInv, SepIInv, Speaks, Others, Rank
  <1>1. PICK i, a, s, n : /\ i = At(r) /\ a = i.peer
                          /\ s = Sent(chart, x, m, y) /\ n = Got(chart, y, l, x)
    OBVIOUS
  <1>2. PICK ss, nn : ss = Sent(chart, x, mm, y)' /\ nn = Got(chart, y, ll, x)'
    OBVIOUS
  <1>3. s \in Nat /\ n \in Nat /\ InOrder(chart, x, y, s, n)
    BY <1>0, <1>1, AnchorLemma
  <1>4. /\ ss = s + IF x = r THEN Told(i, y) ELSE 0
        /\ nn = n + IF y = r THEN Heard(i, x) ELSE 0
    BY <1>1, <1>2, <1>3 DEF Follows, Spoken, Moved
  <1>5. /\ x = r => s = chart.sent[r][pc[r]][y]
        /\ y = r => n = chart.got[r][pc[r]][x]
    BY <1>0, <1>1, AnchorSpeaks
  <1>6. CASE Posts(i) /\ PostSend(r, i)
    <2>1. Heard(i, x) = 0 /\ Told(i, y) = (IF a = y THEN 1 ELSE 0) /\ ~Receives(i)
      BY <1>1, <1>6, ToldHeard DEF Told, Posts, Receives
    <2>2. CASE x = r /\ y = a
      <3>1. ss = s + 1 /\ nn = n
        BY <1>3, <1>4, <2>1, <2>2
      <3>2. IsLetter(chart, r, a, chart.sent[r][pc[r]][a] + 1, i)
        BY <1>0, <1>1, <1>6, WordedLemma
      <3>3. InOrder(chart, r, i.peer, s, n) /\ IsLetter(chart, r, i.peer, s + 1, i)
        BY <1>1, <1>3, <1>5, <2>2, <3>2
      <3>4. InOrder(chart, r, i.peer, s + 1, n)' /\ misfit' = misfit
        BY <1>0, <1>1, <1>3, <1>6, <3>3, PostSendOrder
      <3> QED
        BY <1>1, <1>2, <2>2, <3>1, <3>4
    <2>3. CASE ~(x = r /\ y = a)
      <3>1. ss = s /\ nn = n /\ ~Meant(r, x, y)
        BY <1>1, <1>3, <1>4, <2>1, <2>3 DEF Meant
      <3>2. InOrder(chart, x, y, s, n)'
        BY <1>0, <1>1, <1>3, <1>6, <2>3, SpeakPairs, OtherQueues
      <3> QED
        BY <1>2, <3>1, <3>2
    <2> QED
      BY <2>2, <2>3
  <1>7. CASE Receives(i) /\ PostReceive(r, i)
    <2>1. Told(i, y) = 0 /\ Heard(i, x) = (IF a = x THEN 1 ELSE 0) /\ ~Posts(i)
      BY <1>1, <1>7, ToldHeard DEF Heard, Posts, Receives
    <2>2. CASE x = a /\ y = r
      <3>1. ss = s /\ nn = n + 1
        BY <1>3, <1>4, <2>1, <2>2
      <3>2. IsLetter(chart, a, r, chart.got[r][pc[r]][a] + 1, i)
        BY <1>0, <1>1, <1>7, WordedLemma
      <3>3. InOrder(chart, i.peer, r, s, n) /\ IsLetter(chart, i.peer, r, n + 1, i)
        BY <1>1, <1>3, <1>5, <2>2, <3>2
      <3>4. InOrder(chart, i.peer, r, s, n + 1)' /\ misfit' = misfit
        BY <1>0, <1>1, <1>3, <1>7, <3>3, PostReceiveOrder
      <3> QED
        BY <1>1, <1>2, <2>2, <3>1, <3>4
    <2>3. CASE ~(x = a /\ y = r)
      <3>1. ss = s /\ nn = n /\ ~Meant(r, x, y)
        BY <1>1, <1>3, <1>4, <2>1, <2>3 DEF Meant
      <3>2. InOrder(chart, x, y, s, n)'
        BY <1>0, <1>1, <1>3, <1>7, <2>3, SpeakPairs, OtherQueues
      <3> QED
        BY <1>2, <3>1, <3>2
    <2> QED
      BY <2>2, <2>3
  <1> QED
    BY <1>1, <1>6, <1>7 DEF Speaks

LEMMA SpeakKeeps ==
  ASSUME TypeIInv, NEW chart, Conversing(world, chart), Exchanging(chart), NEW r \in Rank, Speaks(r)
  PROVE  Exchanging(chart)' /\ misfit' = misfit
  <1>1. SepIInv /\ ~Finished(r) /\ Others(r) /\ Rank' = Rank
    BY DEF Speaks, Others, Rank, TypeIInv
  <1>2. ASSUME NEW q \in Rank, NEW m \in Anchors(chart, q) PROVE \E l : Follows(chart, r, q, m, l)
    <2>1. CASE q = r
      BY <1>1, <1>2, <2>1, AnchorSpeaks DEF Follows
    <2>2. CASE q # r
      BY <1>1, <1>2, <2>2, AnchorStays DEF Others, Follows
    <2> QED
      BY <2>1, <2>2
  <1>3. ASSUME NEW x \in Rank, NEW y \in Rank
        PROVE Exchanged(chart, x, y)' /\ (Meant(r, x, y) => misfit' = misfit)
    <2>1. Exchanged(chart, x, y)
      BY <1>1, OnLine DEF Exchanging
    <2>2. PICK m \in Anchors(chart, x), l \in Anchors(chart, y) :
            /\ InOrder(chart, x, y, Sent(chart, x, m, y), Got(chart, y, l, x))
            /\ InOrder(chart, y, x, Sent(chart, y, l, x), Got(chart, x, m, y))
      BY <2>1 DEF Exchanged
    <2>3. PICK mm, ll : Follows(chart, r, x, m, mm) /\ Follows(chart, r, y, l, ll)
      BY <1>2
    <2>4. /\ InOrder(chart, x, y, Sent(chart, x, mm, y), Got(chart, y, ll, x))'
          /\ InOrder(chart, y, x, Sent(chart, y, ll, x), Got(chart, x, mm, y))'
          /\ Meant(r, x, y) => misfit' = misfit
      BY <2>2, <2>3, SpeakOrder
    <2>5. mm \in Anchors(chart, x)' /\ ll \in Anchors(chart, y)'
      BY <2>3 DEF Follows, Spoken, Moved
    <2> QED
      BY <2>4, <2>5 DEF Exchanged
  <1>4. misfit' = misfit
    <2>1. At(r).peer \in Rank /\ (Posts(At(r)) \/ Receives(At(r)))
      BY <1>1, ItemLemma DEF Speaks, Posts, Receives, MessageKinds, SepIInv
    <2>2. Meant(r, r, At(r).peer) \/ Meant(r, At(r).peer, r)
      BY <2>1 DEF Meant
    <2> QED
      BY <1>3, <2>1, <2>2
  <1> QED
    BY <1>1, <1>3, <1>4 DEF Exchanging

LEMMA NextExchanges ==
  ASSUME TypeIInv, MemoryIs, NEW chart, Conversing(world, chart), Exchanging(chart), [Next]_vars
  PROVE  Exchanging(chart)' /\ misfit' \subseteq misfit
  <1>0. SepIInv /\ OneSided
    BY DEF TypeIInv
  <1>1. ASSUME NEW r \in Rank, Step(r) PROVE Exchanging(chart)' /\ misfit' \subseteq misfit
    <2>1. CASE StartMessage(r) \/ EnterMessage(r)
      BY <1>0, <2>1, SpeakSteps, SpeakKeeps
    <2>2. CASE AbortAll(r)
      <3>1. misfit' = misfit
        BY <2>2 DEF AbortAll, messages
      <3> QED
        BY <1>0, <2>2, <3>1, AllEnd DEF Exchanging
    <2>3. CASE ~(StartMessage(r) \/ EnterMessage(r) \/ AbortAll(r))
      <3>1. Silent(r)
        BY <1>0, <1>1, <2>3, SilentSteps
      <3> QED
        BY <1>0, <3>1, SilentKeeps DEF Silent
    <2> QED
      BY <2>1, <2>2, <2>3
  <1>2. CASE UNCHANGED vars
    <2>1. world' = world /\ pc' = pc /\ inside' = inside /\ UNCHANGED <<net, posted, misfit>>
      BY <1>2 DEF vars
    <2>2. Rank' = Rank /\ (Going' <=> Going)
      BY <2>1 DEF Rank, Running, Going, Finished, Text
    <2>3. ASSUME NEW x \in Rank, NEW y \in Rank, Exchanged(chart, x, y)
          PROVE  Exchanged(chart, x, y)'
      <3>1. /\ Anchors(chart, x)' = Anchors(chart, x) /\ Anchors(chart, y)' = Anchors(chart, y)
            /\ At(x)' = At(x) /\ At(y)' = At(y)
        BY <2>1 DEF Anchors, OnPlain, Place, At, Text
      <3> QED
        BY <2>1, <2>3, <3>1 DEF Exchanged, InOrder, Sent, Got
    <2> QED
      BY <2>1, <2>2, <2>3 DEF Exchanging
  <1> QED
    BY <1>1, <1>2 DEF Next, Done

LEMMA InitExchanges ==
  ASSUME Init, NEW chart, Conversing(world, chart)
  PROVE  Exchanging(chart)
  <1>1. ASSUME NEW x \in Rank, NEW y \in Rank PROVE Exchanged(chart, x, y)
    <2>1. ASSUME NEW q \in Rank
          PROVE  /\ 1 \in Anchors(chart, q)
                 /\ \A z \in Rank : Sent(chart, q, 1, z) = 0 /\ Got(chart, q, 1, z) = 0
      <3>1. pc[q] = 1 /\ ~inside[q] /\ 1 \in Place(world, q)
        BY CodeAssumption DEF Init, Place, Rank
      <3>2. /\ chart.plain[q][1]
            /\ \A z \in Rank : chart.sent[q][1][z] = 0 /\ chart.got[q][1][z] = 0
        BY DEF Conversing, Rank
      <3> QED
        BY <3>1, <3>2 DEF Anchors, OnPlain, Sent, Got
    <2>2. \A a, b \in Rank : net[a, b] = <<>> /\ posted[a, b] = <<>>
      BY DEF Init
    <2>3. \A a, b \in Rank : InOrder(chart, a, b, 0, 0)
      <3>1. ASSUME NEW letter, NEW queue, queue = <<>> PROVE Queued(letter, queue, 0, 0)
        <4>1. Len(queue) = 0
          BY <3>1
        <4> QED
          BY <4>1 DEF Queued
      <3> QED
        BY <2>2, <3>1 DEF InOrder
    <2>4. /\ InOrder(chart, x, y, Sent(chart, x, 1, y), Got(chart, y, 1, x))
          /\ InOrder(chart, y, x, Sent(chart, y, 1, x), Got(chart, x, 1, y))
      BY <2>1, <2>3
    <2> QED
      BY <2>1, <2>4 DEF Exchanged
  <1> QED
    BY <1>1 DEF Exchanging

---------------------------------------------------------------------------
(* The receives that a rank may have to wait for.                          *)
GroupsOf(queue) == {queue[x].group : x \in 1 .. Len(queue)}

LEMMA WantedIs ==
  ASSUME NEW r \in Rank
  PROVE  /\ \A g : g \in Wanted(r) <=> \E q \in Rank : g \in GroupsOf(posted[q, r])
         /\ Rank' = Rank => \A g : g \in Wanted(r)' <=> \E q \in Rank : g \in GroupsOf(posted'[q, r])
  BY DEF Wanted, GroupsOf

LEMMA GroupsLemma ==
  ASSUME NEW S, NEW queue \in Seq(S)
  PROVE  /\ \A x \in 1 .. Len(queue) : GroupsOf(Without(queue, x)) \subseteq GroupsOf(queue)
         /\ \A m \in S : GroupsOf(Append(queue, m)) \subseteq GroupsOf(queue) \union {m.group}
  <1>1. ASSUME NEW x \in 1 .. Len(queue) PROVE GroupsOf(Without(queue, x)) \subseteq GroupsOf(queue)
    <2>1. ASSUME NEW y \in 1 .. Len(Without(queue, x))
          PROVE  \E z \in 1 .. Len(queue) : Without(queue, x)[y] = queue[z]
      <3>1. /\ Len(queue) \in Nat /\ y \in 1 .. Len(queue) - 1
            /\ Without(queue, x)[y] = IF y < x THEN queue[y] ELSE queue[y + 1]
        BY WithoutItems
      <3>2. y \in 1 .. Len(queue) /\ y + 1 \in 1 .. Len(queue)
        BY <3>1
      <3> QED
        BY <3>1, <3>2
    <2> QED
      BY <2>1 DEF GroupsOf
  <1>2. ASSUME NEW m \in S PROVE GroupsOf(Append(queue, m)) \subseteq GroupsOf(queue) \union {m.group}
    <2>1. \A y \in 1 .. Len(Append(queue, m)) :
            (y \in 1 .. Len(queue) /\ Append(queue, m)[y] = queue[y]) \/ Append(queue, m)[y] = m
      OBVIOUS
    <2> QED
      BY <2>1 DEF GroupsOf
  <1> QED
    BY <1>1, <1>2

LEMMA SpeakWants ==
  ASSUME TypeIInv, NEW r \in Rank, Speaks(r), NEW y \in Rank
  PROVE  Wanted(y)' \subseteq Wanted(y) \union (IF y = r /\ Receives(At(r)) THEN {At(r).group} ELSE {})
  <1>1. PICK i, a, S : i = At(r) /\ a = i.peer /\ S = Items(world)
    OBVIOUS
  <1>2. /\ posted \in [Rank \X Rank -> Seq(S)] /\ a \in Rank /\ Rank' = Rank
        /\ [tag |-> i.tag, at |-> i.at, group |-> i.group] \in S
    BY <1>1, ItemLemma DEF TypeIInv, SepIInv, Queues, Speaks, Others, Rank, Posts, Receives, MessageKinds
  <1>3. ASSUME NEW q \in Rank
        PROVE  GroupsOf(posted'[q, y]) \subseteq
                 GroupsOf(posted[q, y]) \union (IF y = r /\ Receives(i) THEN {i.group} ELSE {})
    <2>1. CASE Posts(i) /\ PostSend(r, i)
      <3>1. CASE Waits(posted[r, a], i.tag)
        <4>1. PICK x : x = FirstOf(posted[r, a], i.tag)
          OBVIOUS
        <4>2. posted' = [posted EXCEPT ![<<r, a>>] = Without(@, x)]
          BY <1>1, <2>1, <3>1, <4>1 DEF PostSend
        <4>3. x \in 1 .. Len(posted[r, a])
          BY <1>2, <3>1, <4>1, WaitsLemma
        <4>4. GroupsOf(Without(posted[r, a], x)) \subseteq GroupsOf(posted[r, a])
          BY <1>2, <4>3, GroupsLemma
        <4>5. posted'[q, y] = IF <<q, y>> = <<r, a>> THEN Without(posted[r, a], x) ELSE posted[q, y]
          BY <1>2, <4>2
        <4> QED
          BY <4>4, <4>5
      <3>2. CASE ~Waits(posted[r, a], i.tag)
        BY <1>1, <2>1, <3>2 DEF PostSend
      <3> QED
        BY <3>1, <3>2
    <2>2. CASE Receives(i) /\ PostReceive(r, i)
      <3>1. CASE Waits(net[a, r], i.tag)
        BY <1>1, <2>2, <3>1 DEF PostReceive
      <3>2. CASE ~Waits(net[a, r], i.tag)
        <4>1. PICK m : m = [tag |-> i.tag, at |-> i.at, group |-> i.group]
          OBVIOUS
        <4>2. posted' = [posted EXCEPT ![<<a, r>>] = Append(@, m)]
          BY <1>1, <2>2, <3>2, <4>1 DEF PostReceive
        <4>3. GroupsOf(Append(posted[a, r], m)) \subseteq GroupsOf(posted[a, r]) \union {m.group}
          <5>1. m \in S /\ posted[a, r] \in Seq(S)
            BY <1>2, <4>1
          <5> QED
            BY <5>1, GroupsLemma
        <4>4. posted'[q, y] = IF <<q, y>> = <<a, r>> THEN Append(posted[a, r], m) ELSE posted[q, y]
          BY <1>2, <4>2
        <4> QED
          BY <2>2, <4>1, <4>3, <4>4
      <3> QED
        BY <3>1, <3>2
    <2> QED
      BY <1>1, <2>1, <2>2 DEF Speaks
  <1> QED
    BY <1>1, <1>2, <1>3, WantedIs

LEMMA SilentWants ==
  ASSUME world' = world, posted' = posted, NEW y \in Rank
  PROVE  Wanted(y)' = Wanted(y)
  BY DEF Wanted, Rank

LEMMA MarkedHere ==
  ASSUME NEW p, NEW R, NEW r \in R, NEW q \in R, NEW s, s = p[<<q, r>>], Len(s) \in Nat,
         NEW x \in 1 .. Len(s), NEW g, s[x].group = g
  PROVE  <<q, x>> \in Marked(Column(p, R, r), g)
  <1>1. PICK Q : Q = Column(p, R, r)
    OBVIOUS
  <1>2. Q[q] = s /\ q \in DOMAIN Q
    BY <1>1 DEF Column
  <1>3. <<q, x>> \in Marked(Q, g)
    BY <1>2, MarkedIs
  <1> QED
    BY <1>1, <1>3

(* The counter of a group tells whether a receive of it waits.             *)
LEMMA NotWanted ==
  ASSUME Queues, NEW r \in Rank, NEW g \in Groups, pend[r][g] <= 0
  PROVE  g \notin Wanted(r)
  <1>1. SUFFICES ASSUME g \in Wanted(r) PROVE FALSE
    OBVIOUS
  <1>2. PICK q \in Rank : g \in GroupsOf(posted[q, r])
    BY <1>1, WantedIs
  <1>3. PICK s : s = posted[<<q, r>>] /\ g \in GroupsOf(s)
    BY <1>2
  <1>4. PICK x \in 1 .. Len(s) : s[x].group = g
    BY <1>3 DEF GroupsOf
  <1>5. PICK d, Q, A, B : /\ d = pend[r][g] /\ Q = Column(posted, Rank, r) /\ B = Marked(Q, g)
                          /\ IsFiniteSet(A) /\ IsFiniteSet(B) /\ d = Cardinality(A) + Cardinality(B)
    BY DEF Queues, Tallied
  <1>6. <<q, x>> \in B
    <2>1. Len(s) \in Nat
      <3>1. PICK S : posted \in [Rank \X Rank -> Seq(S)]
        BY DEF Queues
      <3>2. <<q, r>> \in Rank \X Rank
        BY <1>2
      <3>3. s \in Seq(S)
        BY <1>3, <3>1, <3>2
      <3> QED
        BY <3>3
    <2>2. <<q, x>> \in Marked(Column(posted, Rank, r), g)
      BY <1>3, <1>4, <2>1, MarkedHere
    <2> QED
      BY <1>5, <2>2
  <1>7. Cardinality(A) \in Nat /\ Cardinality(B) \in Nat /\ Cardinality(B) # 0
    BY <1>5, <1>6, FS_CardinalityType, FS_EmptySet
  <1> QED
    BY <1>5, <1>7

Quits(r) ==
  /\ At(r).k = "Recv" => "receiving" \notin Wanted(r)
  /\ At(r).k = "Wait" /\ At(r).group = "recv" /\ At(r).left = 0 => "recv" \notin Wanted(r)

LEMMA QuitSteps ==
  ASSUME TypeIInv, NEW r \in Rank, Step(r), ~AbortAll(r), Onward(r)
  PROVE  Quits(r)
  <1>0. Queues /\ inside \in [Rank -> BOOLEAN] /\ "receiving" \in Groups /\ "recv" \in Groups
    BY DEF TypeIInv, SepIInv, Types, Groups
  <1>1. CASE EnterMessage(r)
    <2>1. inside'[r]
      BY <1>0, <1>1 DEF EnterMessage
    <2> QED
      BY <2>1 DEF Onward
  <1>2. CASE LeaveMessage(r)
    <2>1. At(r).k \in {"Send", "Recv"} /\ (At(r).k = "Recv" => pend[r]["receiving"] = 0)
      BY <1>2 DEF LeaveMessage, Runs
    <2> QED
      BY <1>0, <2>1, NotWanted DEF Quits
  <1>3. CASE WaitForMessages(r)
    <2>1. At(r).k = "Wait" /\ (At(r).group = "recv" => pend[r]["recv"] <= At(r).left)
      BY <1>3 DEF WaitForMessages, Runs
    <2> QED
      BY <1>0, <2>1, NotWanted DEF Quits
  <1>4. CASE \/ EnterCollective(r) \/ StartCollective(r) \/ LeaveCollective(r) \/ StartMessage(r)
             \/ WaitForCollective(r) \/ PollCollective(r) \/ Alone(r)
             \/ Issue(r) \/ FlushOps(r) \/ LockTargets(r) \/ UnlockTargets(r) \/ ActiveTarget(r)
    <2>1. At(r).k \notin {"Recv", "Wait"}
      <3>1. CASE \/ EnterCollective(r) \/ StartCollective(r) \/ LeaveCollective(r) \/ StartMessage(r)
                 \/ WaitForCollective(r) \/ PollCollective(r) \/ Alone(r)
        BY <3>1 DEF EnterCollective, StartCollective, LeaveCollective, StartMessage,
                    WaitForCollective, PollCollective, Alone, Runs
      <3>2. CASE \/ Issue(r) \/ FlushOps(r) \/ LockTargets(r) \/ UnlockTargets(r) \/ ActiveTarget(r)
        BY <3>2 DEF Issue, FlushOps, LockTargets, UnlockTargets, ActiveTarget, Runs
      <3> QED
        BY <1>4, <3>1, <3>2
    <2> QED
      BY <2>1 DEF Quits
  <1> QED
    BY <1>1, <1>2, <1>3, <1>4 DEF Step

LEMMA AwaitedTo ==
  ASSUME SepIInv, NEW chart, Awaited(world, chart), NEW r \in Rank, ~Finished(r), Onward(r),
         pc'[r] \in Place(world, r)
  PROVE  OpenAfter(At(r), chart.open[r][pc[r]]) \subseteq chart.open[r][pc'[r]]
  <1>1. PICK p, e, t : p = pc[r] /\ e = err[r] /\ t = pc'[r]
    OBVIOUS
  <1>2. /\ p \in Line(world, r) /\ r \in DOMAIN Code[world]
        /\ At(r) = Code[world][r][p] /\ e \in BOOLEAN
    BY <1>1, OnLine DEF At, Text, Rank
  <1>3. t = Target(Code[world][r][p], p, e) /\ t \in Place(world, r)
    BY <1>1, <1>2 DEF Onward
  <1> QED
    BY <1>1, <1>2, <1>3 DEF Awaited

LEMMA StillAwaits ==
  ASSUME SepIInv, NEW chart, NEW q \in Rank, Going, Awaiting(chart),
         world' = world, pc'[q] = pc[q], inside'[q] = inside[q], Wanted(q)' \subseteq Wanted(q)
  PROVE  pc'[q] \in Place(world', q) => Wanted(q)' \subseteq Opened(chart, q)'
  <1>1. Opened(chart, q)' = Opened(chart, q)
    BY DEF Opened, At, Text
  <1> QED
    BY <1>1 DEF Awaiting

LEMMA NextAwaits ==
  ASSUME TypeIInv, MemoryIs, NEW chart, Awaited(world, chart), Awaiting(chart), [Next]_vars
  PROVE  Awaiting(chart)'
  <1>0. SepIInv /\ OneSided
    BY DEF TypeIInv
  <1>1. ASSUME NEW r \in Rank, Step(r), ~AbortAll(r) PROVE Awaiting(chart)'
    <2>1. Speaks(r) \/ (Silent(r) /\ posted' = posted)
      BY <1>0, <1>1, SpeakSteps, SilentSteps DEF Silent
    <2>2. ~Finished(r) /\ Others(r) /\ Rank' = Rank /\ world' = world /\ Going
      BY <1>0, <2>1, OnLine DEF Speaks, Silent, Others, Rank
    <2>3. ASSUME NEW y \in Rank
          PROVE  Wanted(y)' \subseteq Wanted(y) \union
                   (IF y = r /\ Receives(At(r)) THEN {At(r).group} ELSE {})
      BY <2>1, <2>2, SpeakWants, SilentWants
    <2>4. ASSUME NEW q \in Rank \ {r}
          PROVE  pc'[q] \in Place(world', q) => Wanted(q)' \subseteq Opened(chart, q)'
      BY <1>0, <2>2, <2>3, StillAwaits DEF Others
    <2>5. Wanted(r) \subseteq Opened(chart, r) /\ pc[r] \in Place(world, r)
      BY <1>0, <2>2, OnLine DEF Awaiting
    <2>6. CASE Onward(r)
      <3>1. SUFFICES ASSUME pc'[r] \in Place(world, r), NEW g \in Wanted(r)'
                     PROVE  g \in Opened(chart, r)'
        BY <2>2, <2>4 DEF Awaiting, Place
      <3>2. g \in chart.open[r][pc[r]] \/ (Receives(At(r)) /\ g = At(r).group)
        BY <2>3, <2>5 DEF Opened
      <3>3. Quits(r)
        BY <1>1, <2>6, QuitSteps
      <3>4. CASE g \in Wanted(r)
        <4>1. g \in OpenAfter(At(r), chart.open[r][pc[r]])
          BY <3>2, <3>3, <3>4 DEF OpenAfter, Quits
        <4> QED
          BY <1>0, <2>2, <2>6, <3>1, <4>1, AwaitedTo DEF Opened, Onward
      <3>5. CASE g \notin Wanted(r)
        <4>1. ~(At(r).k = "Recv")
          <5>1. Speaks(r) /\ (StartMessage(r) \/ EnterMessage(r))
            BY <1>0, <1>1, <2>2, <3>1, <3>5, SilentSteps, SilentWants, SpeakSteps DEF Silent
          <5>2. ~EnterMessage(r)
            <6>1. inside \in [Rank -> BOOLEAN]
              BY <1>0 DEF SepIInv, Types
            <6> QED
              BY <2>6, <6>1 DEF EnterMessage, Onward
          <5> QED
            BY <5>1, <5>2 DEF StartMessage, Runs
        <4>2. Receives(At(r))
          BY <2>3, <3>1, <3>5
        <4>3. g \in OpenAfter(At(r), chart.open[r][pc[r]])
          BY <3>2, <4>1, <4>2 DEF OpenAfter, Receives
        <4> QED
          BY <1>0, <2>2, <2>6, <3>1, <4>3, AwaitedTo DEF Opened, Onward
      <3> QED
        BY <3>4, <3>5
    <2>7. CASE pc'[r] = pc[r] /\ ~Onward(r)
      <3>1. At(r)' = At(r)
        BY <2>2, <2>7 DEF At, Text
      <3>2. Wanted(r)' \subseteq Opened(chart, r)'
        <4>1. CASE Speaks(r)
          <5>1. ~inside[r] /\ inside'[r]
            BY <2>7, <4>1 DEF Speaks
          <5> QED
            BY <2>3, <2>5, <2>7, <3>1, <5>1 DEF Opened
        <4>2. CASE Silent(r) /\ posted' = posted
          <5>1. ~Receives(At(r))
            BY <2>7, <4>2 DEF Silent, Receives, MessageKinds
          <5> QED
            BY <2>3, <2>5, <2>7, <3>1, <5>1 DEF Opened
        <4> QED
          BY <2>1, <4>1, <4>2
      <3> QED
        BY <2>2, <2>4, <3>2 DEF Awaiting
    <2>8. Onward(r) \/ pc'[r] = pc[r]
      BY <2>1 DEF Speaks, Silent
    <2> QED
      BY <2>6, <2>7, <2>8
  <1>2. ASSUME NEW r \in Rank, AbortAll(r) PROVE Awaiting(chart)'
    BY <1>0, <1>2, AllEnd DEF Awaiting
  <1>3. CASE UNCHANGED vars
    <2>1. world' = world /\ pc' = pc /\ inside' = inside /\ posted' = posted
      BY <1>3 DEF vars
    <2>2. Rank' = Rank /\ (Going' <=> Going)
      BY <2>1 DEF Rank, Running, Going, Finished, Text
    <2>3. ASSUME NEW q \in Rank, Going
          PROVE  pc'[q] \in Place(world', q) => Wanted(q)' \subseteq Opened(chart, q)'
      BY <1>0, <2>1, <2>3, StillAwaits, SilentWants
    <2> QED
      BY <2>2, <2>3 DEF Awaiting
  <1> QED
    BY <1>1, <1>2, <1>3 DEF Next, Done

LEMMA InitAwaits ==
  ASSUME Init, NEW chart
  PROVE  Awaiting(chart)
  <1>1. ASSUME NEW r \in Rank PROVE Wanted(r) = {}
    <2>1. \A q \in Rank : posted[q, r] = <<>>
      BY DEF Init
    <2>2. \A q \in Rank : GroupsOf(posted[q, r]) = {}
      <3>1. ASSUME NEW queue, queue = <<>> PROVE GroupsOf(queue) = {}
        <4>1. Len(queue) = 0
          BY <3>1
        <4> QED
          BY <4>1 DEF GroupsOf
      <3> QED
        BY <2>1, <3>1
    <2> QED
      BY <2>2, WantedIs
  <1> QED
    BY <1>1 DEF Awaiting

---------------------------------------------------------------------------
(* The tokens of active target synchronisation, and what has been begun.   *)
Walks(r) == ~Finished(r) /\ Others(r) /\ (Onward(r) \/ pc'[r] = pc[r])

LEMMA WalkSteps ==
  ASSUME SepIInv, OneSided, MemoryIs, NEW r \in Rank, Step(r), ~AbortAll(r)
  PROVE  Walks(r)
  <1>1. Speaks(r) \/ Silent(r)
    BY SpeakSteps, SilentSteps
  <1> QED
    BY <1>1 DEF Speaks, Silent, Walks

LEMMA WalkTo ==
  ASSUME SepIInv, NEW r \in Rank, ~Finished(r), Onward(r)
  PROVE  \E p, e, t : /\ p = pc[r] /\ t = pc'[r] /\ r \in DOMAIN Code[world]
                      /\ p \in Line(world, r) /\ p \in Place(world, r) /\ e \in BOOLEAN
                      /\ At(r) = Code[world][r][p] /\ t = Target(Code[world][r][p], p, e)
  <1>1. PICK p, e, t : p = pc[r] /\ e = err[r] /\ t = pc'[r]
    OBVIOUS
  <1>2. /\ p \in Line(world, r) /\ p \in Place(world, r) /\ r \in DOMAIN Code[world]
        /\ At(r) = Code[world][r][p] /\ e \in BOOLEAN
    BY <1>1, OnLine DEF At, Text, Rank
  <1>3. t = Target(Code[world][r][p], p, e)
    BY <1>1, <1>2 DEF Onward
  <1> QED
    BY <1>1, <1>2, <1>3

TokensOf(A) == [A -> [post : Int, done : Int]]
PairTokens(R) == TokensOf(R \X R)
Tokens == tokens \in PairTokens(Rank)

SetPost(N, n, a, v) == N = [n EXCEPT ![a].post = v]
SetDone(N, n, a, v) == N = [n EXCEPT ![a].done = v]
MakesPost(N, n, r, to) == N = [n EXCEPT ![<<r, to>>].post = @ + 1]
MakesComplete(N, n, r, to) == N = [n EXCEPT ![<<to, r>>].post = @ - 1, ![<<r, to>>].done = @ + 1]
MakesWait(N, n, r, to) == N = [n EXCEPT ![<<to, r>>].done = @ - 1]

PostIs(N, n, A, a, v) ==
  /\ N \in TokensOf(A)
  /\ \A b \in A : N[b].post = (IF b = a THEN v ELSE n[b].post) /\ N[b].done = n[b].done
DoneIs(N, n, A, a, v) ==
  /\ N \in TokensOf(A)
  /\ \A b \in A : N[b].done = (IF b = a THEN v ELSE n[b].done) /\ N[b].post = n[b].post

LEMMA PostField ==
  ASSUME NEW A, NEW n \in TokensOf(A), NEW a, NEW v, a \in A => v \in Int,
         NEW N, SetPost(N, n, a, v)
  PROVE  PostIs(N, n, A, a, v)
  <1>1. \A b \in A : n[b] \in [post : Int, done : Int]
    BY DEF TokensOf, SetPost
  <1>2. \A b \in A : N[b] = IF b = a THEN [n[b] EXCEPT !.post = v] ELSE n[b]
    BY DEF TokensOf, SetPost
  <1>3. \A b \in A : N[b] \in [post : Int, done : Int]
    BY <1>1, <1>2
  <1>4. N = [b \in A |-> N[b]]
    BY DEF TokensOf, SetPost
  <1>5. N \in TokensOf(A)
    BY <1>3, <1>4 DEF TokensOf, SetPost
  <1> QED
    BY <1>1, <1>2, <1>5 DEF PostIs

LEMMA DoneField ==
  ASSUME NEW A, NEW n \in TokensOf(A), NEW a, NEW v, a \in A => v \in Int,
         NEW N, SetDone(N, n, a, v)
  PROVE  DoneIs(N, n, A, a, v)
  <1>1. \A b \in A : n[b] \in [post : Int, done : Int]
    BY DEF TokensOf, SetDone
  <1>2. \A b \in A : N[b] = IF b = a THEN [n[b] EXCEPT !.done = v] ELSE n[b]
    BY DEF TokensOf, SetDone
  <1>3. \A b \in A : N[b] \in [post : Int, done : Int]
    BY <1>1, <1>2
  <1>4. N = [b \in A |-> N[b]]
    BY DEF TokensOf, SetDone
  <1>5. N \in TokensOf(A)
    BY <1>3, <1>4 DEF TokensOf, SetDone
  <1> QED
    BY <1>1, <1>2, <1>5 DEF DoneIs

(* What the tokens of a pair become when r executes i.                     *)
Marks(n, N, r, i, x, y) ==
  /\ N[<<x, y>>].post = n[<<x, y>>].post + (IF x = r THEN Acts(i, "Post", y) ELSE 0)
                                 - (IF y = r THEN Acts(i, "Complete", x) ELSE 0)
  /\ N[<<x, y>>].done = n[<<x, y>>].done + (IF x = r THEN Acts(i, "Complete", y) ELSE 0)
                                 - (IF y = r THEN Acts(i, "WinWait", x) ELSE 0)

LEMMA PostMarks ==
  ASSUME NEW R, NEW n \in PairTokens(R), NEW r \in R, NEW i, i.k = "Post", NEW N,
         MakesPost(N, n, r, i.to)
  PROVE  N \in PairTokens(R) /\ \A x, y \in R : Marks(n, N, r, i, x, y)
  <1>0. PICK A : A = R \X R
    OBVIOUS
  <1>1. PICK a, v : a = <<r, i.to>> /\ v = n[a].post + 1
    OBVIOUS
  <1>2. \A x, y \in R : n[<<x, y>>].post \in Int /\ n[<<x, y>>].done \in Int
    BY DEF PairTokens, TokensOf
  <1>3. SetPost(N, n, a, v) /\ (a \in A => v \in Int) /\ n \in TokensOf(A)
    BY <1>0, <1>1, <1>2 DEF PairTokens, MakesPost, SetPost
  <1>4. PostIs(N, n, A, a, v)
    BY <1>3, PostField
  <1>5. ASSUME NEW x \in R, NEW y \in R PROVE Marks(n, N, r, i, x, y)
    <2>1. /\ N[<<x, y>>].post = (IF x = r /\ y = i.to THEN v ELSE n[<<x, y>>].post)
          /\ N[<<x, y>>].done = n[<<x, y>>].done
      BY <1>0, <1>1, <1>4 DEF PostIs
    <2>2. /\ Acts(i, "Post", y) = (IF y = i.to THEN 1 ELSE 0)
          /\ Acts(i, "Complete", x) = 0 /\ Acts(i, "Complete", y) = 0 /\ Acts(i, "WinWait", x) = 0
      BY DEF Acts
    <2> QED
      BY <1>1, <1>2, <2>1, <2>2 DEF Marks
  <1> QED
    BY <1>0, <1>4, <1>5 DEF PairTokens, PostIs

LEMMA WaitMarks ==
  ASSUME NEW R, NEW n \in PairTokens(R), NEW r \in R, NEW i, i.k = "WinWait", NEW N,
         MakesWait(N, n, r, i.to)
  PROVE  N \in PairTokens(R) /\ \A x, y \in R : Marks(n, N, r, i, x, y)
  <1>0. PICK A : A = R \X R
    OBVIOUS
  <1>1. PICK a, v : a = <<i.to, r>> /\ v = n[a].done - 1
    OBVIOUS
  <1>2. \A x, y \in R : n[<<x, y>>].post \in Int /\ n[<<x, y>>].done \in Int
    BY DEF PairTokens, TokensOf
  <1>3. SetDone(N, n, a, v) /\ (a \in A => v \in Int) /\ n \in TokensOf(A)
    BY <1>0, <1>1, <1>2 DEF PairTokens, MakesWait, SetDone
  <1>4. DoneIs(N, n, A, a, v)
    BY <1>3, DoneField
  <1>5. ASSUME NEW x \in R, NEW y \in R PROVE Marks(n, N, r, i, x, y)
    <2>1. /\ N[<<x, y>>].done = (IF y = r /\ x = i.to THEN v ELSE n[<<x, y>>].done)
          /\ N[<<x, y>>].post = n[<<x, y>>].post
      BY <1>0, <1>1, <1>4 DEF DoneIs
    <2>2. /\ Acts(i, "WinWait", x) = (IF x = i.to THEN 1 ELSE 0)
          /\ Acts(i, "Complete", x) = 0 /\ Acts(i, "Complete", y) = 0 /\ Acts(i, "Post", y) = 0
      BY DEF Acts
    <2> QED
      BY <1>1, <1>2, <2>1, <2>2 DEF Marks
  <1> QED
    BY <1>0, <1>4, <1>5 DEF PairTokens, DoneIs

LEMMA CompleteMarks ==
  ASSUME NEW R, NEW n \in PairTokens(R), NEW r \in R, NEW i, i.k = "Complete", NEW N,
         MakesComplete(N, n, r, i.to)
  PROVE  N \in PairTokens(R) /\ \A x, y \in R : Marks(n, N, r, i, x, y)
  <1>0. PICK A : A = R \X R
    OBVIOUS
  <1>1. PICK a, v, b, u, M : /\ a = <<i.to, r>> /\ v = n[a].post - 1
                             /\ SetPost(M, n, a, v)
                             /\ b = <<r, i.to>> /\ u = M[b].done + 1
    BY DEF SetPost
  <1>2. \A x, y \in R : n[<<x, y>>].post \in Int /\ n[<<x, y>>].done \in Int
    BY DEF PairTokens, TokensOf
  <1>3. (a \in A => v \in Int) /\ n \in TokensOf(A)
    BY <1>0, <1>1, <1>2 DEF PairTokens
  <1>4. PostIs(M, n, A, a, v)
    BY <1>1, <1>3, PostField
  <1>5. SetDone(N, M, b, u) /\ (b \in A => u \in Int)
    <2>1. N = [[n EXCEPT ![a].post = @ - 1] EXCEPT ![b].done = @ + 1]
      BY <1>1 DEF MakesComplete
    <2>2. SetDone(N, M, b, u)
      BY <1>1, <2>1 DEF SetPost, SetDone
    <2>3. b \in A => M[b].done \in Int
      BY <1>4 DEF TokensOf, PostIs
    <2> QED
      BY <1>1, <2>2, <2>3
  <1>6. DoneIs(N, M, A, b, u)
    BY <1>4, <1>5, DoneField DEF PostIs
  <1>7. ASSUME NEW x \in R, NEW y \in R PROVE Marks(n, N, r, i, x, y)
    <2>1. /\ N[<<x, y>>].post = (IF y = r /\ x = i.to THEN v ELSE n[<<x, y>>].post)
          /\ N[<<x, y>>].done = (IF x = r /\ y = i.to THEN u ELSE n[<<x, y>>].done)
      BY <1>0, <1>1, <1>4, <1>6 DEF PostIs, DoneIs
    <2>2. /\ Acts(i, "Complete", x) = (IF x = i.to THEN 1 ELSE 0)
          /\ Acts(i, "Complete", y) = (IF y = i.to THEN 1 ELSE 0)
          /\ Acts(i, "Post", y) = 0 /\ Acts(i, "WinWait", x) = 0
      BY DEF Acts
    <2>3. x = r /\ y = i.to => u = n[<<x, y>>].done + 1
      BY <1>0, <1>1, <1>4 DEF PostIs
    <2>4. y = r /\ x = i.to => v = n[<<x, y>>].post - 1
      BY <1>1
    <2> QED
      BY <1>2, <2>1, <2>2, <2>3, <2>4 DEF Marks
  <1> QED
    BY <1>0, <1>6, <1>7 DEF PairTokens, DoneIs

LEMMA IdleMarks ==
  ASSUME NEW R, NEW n \in PairTokens(R), NEW r, NEW i, i.k \notin Calls
  PROVE  \A x, y \in R : Marks(n, n, r, i, x, y)
  <1>1. \A x, y \in R : n[<<x, y>>].post \in Int /\ n[<<x, y>>].done \in Int
    BY DEF PairTokens, TokensOf
  <1>2. \A q : /\ Acts(i, "Post", q) = 0 /\ Acts(i, "Complete", q) = 0 /\ Acts(i, "WinWait", q) = 0
    BY DEF Acts, Calls
  <1> TAKE x, y \in R
  <1>3. n[<<x, y>>].post \in Int /\ n[<<x, y>>].done \in Int
    BY <1>1
  <1> QED
    BY <1>2, <1>3 DEF Marks

LEMMA KindSteps ==
  ASSUME NEW r \in Rank, Step(r), ~ActiveTarget(r), ~AbortAll(r)
  PROVE  tokens' = tokens /\ At(r).k \notin Calls
  <1>1. CASE EnterCollective(r) \/ StartCollective(r) \/ LeaveCollective(r)
    BY <1>1 DEF EnterCollective, StartCollective, LeaveCollective, windows, Runs, Calls
  <1>2. CASE WaitForCollective(r) \/ PollCollective(r) \/ Alone(r)
    BY <1>2 DEF WaitForCollective, PollCollective, Alone, windows, Runs, Calls
  <1>3. CASE StartMessage(r) \/ EnterMessage(r) \/ LeaveMessage(r) \/ WaitForMessages(r)
    BY <1>3 DEF StartMessage, EnterMessage, LeaveMessage, WaitForMessages, windows, Runs, Calls
  <1>4. CASE Issue(r) \/ FlushOps(r) \/ LockTargets(r) \/ UnlockTargets(r)
    BY <1>4 DEF Issue, FlushOps, LockTargets, UnlockTargets, windows, Runs, Calls
  <1> QED
    BY <1>1, <1>2, <1>3, <1>4 DEF Step

LEMMA TokenSteps ==
  ASSUME TypeIInv, Tokens, NEW r \in Rank, Step(r), ~AbortAll(r), world' = world
  PROVE  /\ Tokens'
         /\ \A x, y \in Rank : Marks(tokens, tokens', r, At(r), x, y)
         /\ pc'[r] = pc[r] => tokens' = tokens
  <1>0. PICK R, n, N, i : R = Rank /\ n = tokens /\ N = tokens' /\ i = At(r)
    OBVIOUS
  <1>1. n \in PairTokens(R) /\ r \in R /\ Rank' = R
    BY <1>0 DEF Tokens, Rank
  <1>2. /\ N \in PairTokens(R)
        /\ \A x, y \in R : Marks(n, N, r, i, x, y)
        /\ pc'[r] = pc[r] => N = n
    <2>1. CASE ActiveTarget(r)
      <3>1. pc'[r] # pc[r]
        <4>1. Advance(r, 1) /\ pc \in [Rank -> Nat \ {0}]
          BY <2>1 DEF ActiveTarget, TypeIInv, SepIInv, Types
        <4> QED
          BY <4>1 DEF Advance
      <3>2. \/ i.k = "Start" /\ N = n
            \/ i.k = "Post" /\ MakesPost(N, n, r, i.to)
            \/ i.k = "Complete" /\ MakesComplete(N, n, r, i.to)
            \/ i.k = "WinWait" /\ MakesWait(N, n, r, i.to)
        BY <1>0, <2>1, Zenon DEF ActiveTarget, Runs, MakesPost, MakesComplete, MakesWait
      <3>3. CASE i.k = "Start" /\ N = n
        BY <1>1, <3>1, <3>3, IdleMarks DEF Calls
      <3>4. CASE i.k = "Post" /\ MakesPost(N, n, r, i.to)
        BY <1>1, <3>1, <3>4, PostMarks
      <3>5. CASE i.k = "Complete" /\ MakesComplete(N, n, r, i.to)
        BY <1>1, <3>1, <3>5, CompleteMarks
      <3>6. CASE i.k = "WinWait" /\ MakesWait(N, n, r, i.to)
        BY <1>1, <3>1, <3>6, WaitMarks
      <3> QED
        BY <3>2, <3>3, <3>4, <3>5, <3>6
    <2>2. CASE ~ActiveTarget(r)
      <3>1. N = n /\ i.k \notin Calls
        BY <1>0, <2>2, KindSteps
      <3> QED
        BY <1>1, <3>1, IdleMarks
    <2> QED
      BY <2>1, <2>2
  <1> QED
    BY <1>0, <1>1, <1>2 DEF Tokens

LEMMA ActsLemma ==
  ASSUME NEW i, NEW k, NEW q
  PROVE  Acts(i, k, q) \in {0, 1}
  <1>1. CASE i.k = k /\ i.to = q
    BY <1>1 DEF Acts
  <1>2. CASE ~(i.k = k /\ i.to = q)
    BY <1>2 DEF Acts
  <1> QED
    BY <1>1, <1>2

LEMMA ActsTo ==
  ASSUME SepIInv, NEW chart, Noted(world, chart), NEW r \in Rank, ~Finished(r), Onward(r),
         pc'[r] \in Place(world, r)
  PROVE  /\ At(r).k = "Icoll" \/ (chart.begun[r][pc[r]] /\ At(r).k # "WaitColl") => chart.begun[r][pc'[r]]
         /\ \A k \in Calls, q \in Rank :
              chart.acts[r][pc'[r]][k][q] = chart.acts[r][pc[r]][k][q] + Acts(At(r), k, q)
  <1>1. PICK p, e, t : /\ p = pc[r] /\ t = pc'[r] /\ r \in DOMAIN Code[world]
                       /\ p \in Line(world, r) /\ p \in Place(world, r) /\ e \in BOOLEAN
                       /\ At(r) = Code[world][r][p] /\ t = Target(Code[world][r][p], p, e)
    BY WalkTo
  <1>2. t \in Place(world, r)
    BY <1>1
  <1>3. NotedFrom(world, chart, r, p, t)
    BY <1>1, <1>2, Zenon DEF Noted
  <1>4. r \in DOMAIN Code[world] /\ Rank = DOMAIN Code[world]
    BY <1>1 DEF Rank
  <1>5. PICK i : i = Code[world][r][p] /\ i = At(r)
    BY <1>1
  <1>6. /\ i.k = "Icoll" \/ (chart.begun[r][p] /\ i.k # "WaitColl") => chart.begun[r][t]
        /\ \A k \in Calls, q \in Rank :
             chart.acts[r][t][k][q] = chart.acts[r][p][k][q] + Acts(i, k, q)
    BY <1>3, <1>4, <1>5, Zenon DEF NotedFrom
  <1> QED
    BY <1>1, <1>5, <1>6, Zenon

LEMMA ActsOf ==
  ASSUME NEW chart, Noted(world, chart), NEW r \in Rank, NEW p \in Place(world, r),
         NEW k \in Calls, NEW q \in Rank
  PROVE  chart.acts[r][p][k][q] \in Int
  BY DEF Noted, Rank

(* What a pair of ranks at places p and m owe each other.                  *)
Owed(chart, r, p, q, m) ==
  [post |-> chart.acts[r][p]["Post"][q] - chart.acts[q][m]["Complete"][r],
   done |-> chart.acts[r][p]["Complete"][q] - chart.acts[q][m]["WinWait"][r]]

LEMMA OwedNext ==
  ASSUME Tokens, Tokens', NEW chart, Noted(world, chart), world' = world, NEW r \in Rank, NEW i,
         NEW x \in Rank, NEW y \in Rank, Marks(tokens, tokens', r, i, x, y),
         NEW p \in Place(world, x), NEW m \in Place(world, y), NEW t, NEW v,
         tokens[<<x, y>>] = Owed(chart, x, p, y, m),
         \A k \in Calls, q \in Rank :
           /\ chart.acts[x][t][k][q] = chart.acts[x][p][k][q] + IF x = r THEN Acts(i, k, q) ELSE 0
           /\ chart.acts[y][v][k][q] = chart.acts[y][m][k][q] + IF y = r THEN Acts(i, k, q) ELSE 0
  PROVE  tokens'[<<x, y>>] = Owed(chart, x, t, y, v)
  <1>1. PICK n, N : n = tokens[<<x, y>>] /\ N = tokens'[<<x, y>>]
    OBVIOUS
  <1>2. "Post" \in Calls /\ "Complete" \in Calls /\ "WinWait" \in Calls
    BY DEF Calls
  <1>3. PICK a, b, c, d : /\ a = chart.acts[x][p]["Post"][y] /\ b = chart.acts[y][m]["Complete"][x]
                          /\ c = chart.acts[x][p]["Complete"][y] /\ d = chart.acts[y][m]["WinWait"][x]
    OBVIOUS
  <1>4. a \in Int /\ b \in Int /\ c \in Int /\ d \in Int
    BY <1>2, <1>3, ActsOf
  <1>5. PICK aa, bb, cc, dd : /\ aa = Acts(i, "Post", y) /\ bb = Acts(i, "Complete", x)
                              /\ cc = Acts(i, "Complete", y) /\ dd = Acts(i, "WinWait", x)
    OBVIOUS
  <1>6. aa \in {0, 1} /\ bb \in {0, 1} /\ cc \in {0, 1} /\ dd \in {0, 1}
    BY <1>5, ActsLemma
  <1>7. n.post = a - b /\ n.done = c - d
    BY <1>1, <1>3 DEF Owed
  <1>8. /\ N.post = n.post + (IF x = r THEN aa ELSE 0) - (IF y = r THEN bb ELSE 0)
        /\ N.done = n.done + (IF x = r THEN cc ELSE 0) - (IF y = r THEN dd ELSE 0)
    BY <1>1, <1>5 DEF Marks
  <1>9. /\ chart.acts[x][t]["Post"][y] = a + (IF x = r THEN aa ELSE 0)
        /\ chart.acts[y][v]["Complete"][x] = b + (IF y = r THEN bb ELSE 0)
        /\ chart.acts[x][t]["Complete"][y] = c + (IF x = r THEN cc ELSE 0)
        /\ chart.acts[y][v]["WinWait"][x] = d + (IF y = r THEN dd ELSE 0)
    BY <1>2, <1>3, <1>5
  <1>10. N = [post |-> N.post, done |-> N.done]
    <2>1. <<x, y>> \in (Rank \X Rank)' /\ Rank' = Rank
      BY DEF Rank
    <2>2. N \in [post : Int, done : Int]
      BY <1>1, <2>1 DEF Tokens, PairTokens, TokensOf
    <2> QED
      BY <2>2
  <1>11. /\ N.post = (a + (IF x = r THEN aa ELSE 0)) - (b + (IF y = r THEN bb ELSE 0))
         /\ N.done = (c + (IF x = r THEN cc ELSE 0)) - (d + (IF y = r THEN dd ELSE 0))
    BY <1>4, <1>6, <1>7, <1>8
  <1>12. N = Owed(chart, x, t, y, v)
    BY <1>9, <1>10, <1>11 DEF Owed
  <1> QED
    BY <1>1, <1>12

Owing(chart) ==
  Going => \A x, y \in Rank :
    pc[x] \in Place(world, x) /\ pc[y] \in Place(world, y) =>
      tokens[<<x, y>>] = Owed(chart, x, pc[x], y, pc[y])
LEMMA OwedIs == ASSUME NEW chart, Tokens PROVE Answering(chart) <=> Owing(chart)
  <1>1. \A x, y \in Rank : tokens[x, y] = tokens[<<x, y>>]
    BY DEF Tokens, PairTokens, TokensOf
  <1> QED
    BY <1>1 DEF Answering, Owing, Owed
LEMMA OwedPrimed == ASSUME NEW chart, Tokens', world' = world PROVE Answering(chart)' <=> Owing(chart)'
  <1>1. Rank' = Rank
    BY DEF Rank
  <1>2. \A x, y \in Rank : tokens'[x, y] = tokens'[<<x, y>>]
    BY <1>1 DEF Tokens, PairTokens, TokensOf
  <1> QED
    BY <1>1, <1>2 DEF Answering, Owing, Owed

LEMMA StepAnswers ==
  ASSUME TypeIInv, MemoryIs, Tokens, NEW chart, Noted(world, chart), Answering(chart),
         NEW r \in Rank, Step(r), ~AbortAll(r)
  PROVE  Tokens' /\ Answering(chart)'
  <1>0. SepIInv /\ OneSided
    BY DEF TypeIInv
  <1>1. Walks(r)
    BY <1>0, WalkSteps
  <1>2. /\ ~Finished(r) /\ world' = world /\ Rank' = Rank /\ Going
        /\ \A q \in Rank \ {r} : pc'[q] = pc[q]
    BY <1>0, <1>1, OnLine DEF Walks, Others, Rank
  <1>3. /\ Tokens' /\ \A x, y \in Rank : Marks(tokens, tokens', r, At(r), x, y)
        /\ (pc'[r] = pc[r] => tokens' = tokens)
    BY <1>2, TokenSteps
  <1>4. Owing(chart)
    BY OwedIs
  <1>5. CASE Onward(r)
    <2>1. ASSUME NEW q \in Rank, pc'[q] \in Place(world, q)
          PROVE  /\ pc[q] \in Place(world, q)
                 /\ \A k \in Calls, z \in Rank :
                      chart.acts[q][pc'[q]][k][z] =
                        chart.acts[q][pc[q]][k][z] + IF q = r THEN Acts(At(r), k, z) ELSE 0
      <3>1. CASE q = r
        BY <1>0, <1>2, <1>5, <2>1, <3>1, OnLine, ActsTo
      <3>2. CASE q # r
        <4>1. pc'[q] = pc[q]
          BY <1>2, <3>2
        <4>2. \A k \in Calls, z \in Rank : chart.acts[q][pc[q]][k][z] \in Int
          BY <2>1, <4>1, ActsOf
        <4> QED
          BY <2>1, <3>2, <4>1, <4>2
      <3> QED
        BY <3>1, <3>2
    <2>2. ASSUME NEW x \in Rank, NEW y \in Rank, pc'[x] \in Place(world, x), pc'[y] \in Place(world, y)
          PROVE  tokens'[<<x, y>>] = Owed(chart, x, pc'[x], y, pc'[y])
      <3>1. PICK i, p, m, t, v : /\ i = At(r) /\ p = pc[x] /\ m = pc[y] /\ t = pc'[x] /\ v = pc'[y]
        OBVIOUS
      <3>2. p \in Place(world, x) /\ m \in Place(world, y)
        BY <2>1, <2>2, <3>1
      <3>3. tokens[<<x, y>>] = Owed(chart, x, p, y, m)
        BY <1>2, <1>4, <3>1, <3>2 DEF Owing
      <3>4. \A k \in Calls, q \in Rank :
              /\ chart.acts[x][t][k][q] = chart.acts[x][p][k][q] + IF x = r THEN Acts(i, k, q) ELSE 0
              /\ chart.acts[y][v][k][q] = chart.acts[y][m][k][q] + IF y = r THEN Acts(i, k, q) ELSE 0
        BY <2>1, <2>2, <3>1
      <3>5. Marks(tokens, tokens', r, i, x, y)
        BY <1>3, <3>1
      <3>6. tokens'[<<x, y>>] = Owed(chart, x, t, y, v)
        BY <1>2, <1>3, <3>2, <3>3, <3>4, <3>5, OwedNext
      <3> QED
        BY <3>1, <3>6
    <2>3. Owing(chart)'
      BY <1>2, <2>2 DEF Owing, Place
    <2> QED
      BY <1>2, <1>3, <2>3, OwedPrimed
  <1>6. CASE pc'[r] = pc[r]
    <2>1. tokens' = tokens /\ \A q \in Rank : pc'[q] = pc[q]
      BY <1>2, <1>3, <1>6
    <2>2. Owing(chart)'
      BY <1>2, <1>4, <2>1 DEF Owing, Owed, Place
    <2> QED
      BY <1>2, <1>3, <2>2, OwedPrimed
  <1> QED
    BY <1>1, <1>5, <1>6 DEF Walks

LEMMA InitAnswers ==
  ASSUME Init, NEW chart, Noted(world, chart)
  PROVE  Tokens /\ Answering(chart)
  <1>1. Tokens
    BY DEF Init, Tokens, PairTokens, TokensOf
  <1>2. ASSUME NEW x \in Rank, NEW y \in Rank
        PROVE  tokens[x, y] = [post |-> chart.acts[x][1]["Post"][y] - chart.acts[y][1]["Complete"][x],
                               done |-> chart.acts[x][1]["Complete"][y] - chart.acts[y][1]["WinWait"][x]]
    <2>1. \A q, z \in Rank : \A k \in {"Post", "Complete", "WinWait"} : chart.acts[q][1][k][z] = 0
      BY DEF Noted, Calls, Rank
    <2>2. tokens[x, y] = [post |-> 0, done |-> 0]
      BY DEF Init
    <2>3. PICK a, b, c, d : /\ a = chart.acts[x][1]["Post"][y] /\ b = chart.acts[y][1]["Complete"][x]
                            /\ c = chart.acts[x][1]["Complete"][y] /\ d = chart.acts[y][1]["WinWait"][x]
      OBVIOUS
    <2>4. a = 0 /\ b = 0 /\ c = 0 /\ d = 0
      BY <2>1, <2>3
    <2>5. a - b = 0 /\ c - d = 0
      BY <2>4
    <2> QED
      BY <2>2, <2>3, <2>5
  <1>3. \A q \in Rank : pc[q] = 1
    BY DEF Init
  <1> QED
    BY <1>1, <1>2, <1>3 DEF Answering

(* A nonblocking collective operation that has not been waited for.        *)
LEMMA CallSteps ==
  ASSUME OneSided, NEW r \in Rank, Step(r), ~AbortAll(r)
  PROVE  /\ \A q \in Rank \ {r} : icall'[q] = icall[q]
         /\ At(r).k = "WaitColl" => icall'[r] = 0
         /\ At(r).k # "Icoll" => icall'[r] \in {icall[r], 0}
  <1>0. icall \in [Rank -> Nat]
    BY DEF OneSided
  <1>1. CASE StartCollective(r)
    <2>1. At(r).k = "Icoll" /\ \E n : icall' = [icall EXCEPT ![r] = n]
      BY <1>1 DEF StartCollective, Runs
    <2> QED
      BY <1>0, <2>1
  <1>2. CASE WaitForCollective(r) \/ PollCollective(r)
    BY <1>0, <1>2 DEF WaitForCollective, PollCollective, Runs
  <1>3. CASE EnterCollective(r) \/ LeaveCollective(r) \/ Alone(r)
    BY <1>0, <1>3 DEF EnterCollective, LeaveCollective, Alone, collectives, Runs
  <1>4. CASE StartMessage(r) \/ EnterMessage(r) \/ LeaveMessage(r) \/ WaitForMessages(r)
    BY <1>0, <1>4 DEF StartMessage, EnterMessage, LeaveMessage, WaitForMessages, collectives, Runs
  <1>5. CASE Issue(r) \/ FlushOps(r) \/ LockTargets(r) \/ UnlockTargets(r) \/ ActiveTarget(r)
    BY <1>0, <1>5 DEF Issue, FlushOps, LockTargets, UnlockTargets, ActiveTarget, collectives, Runs
  <1> QED
    BY <1>1, <1>2, <1>3, <1>4, <1>5 DEF Step

LEMMA StayKind ==
  ASSUME TypeIInv, NEW r \in Rank, Step(r), ~AbortAll(r), At(r).k = "Icoll"
  PROVE  Onward(r)
  <1>1. StartCollective(r)
    <2>1. ~(EnterCollective(r) \/ LeaveCollective(r) \/ WaitForCollective(r) \/ PollCollective(r))
      BY DEF EnterCollective, LeaveCollective, WaitForCollective, PollCollective, Runs
    <2>2. ~(StartMessage(r) \/ EnterMessage(r) \/ LeaveMessage(r) \/ WaitForMessages(r) \/ Alone(r))
      BY DEF StartMessage, EnterMessage, LeaveMessage, WaitForMessages, Alone, Runs
    <2>3. ~(Issue(r) \/ FlushOps(r) \/ LockTargets(r) \/ UnlockTargets(r) \/ ActiveTarget(r))
      BY DEF Issue, FlushOps, LockTargets, UnlockTargets, ActiveTarget, Runs
    <2> QED
      BY <2>1, <2>2, <2>3 DEF Step
  <1>2. Entering(r)
    BY <1>1, EnteringSteps DEF TypeIInv
  <1> QED
    BY <1>2 DEF Entering, Onward, Target

LEMMA StepBegins ==
  ASSUME TypeIInv, MemoryIs, NEW chart, Noted(world, chart), Beginning(chart),
         NEW r \in Rank, Step(r), ~AbortAll(r)
  PROVE  Beginning(chart)'
  <1>0. SepIInv /\ OneSided
    BY DEF TypeIInv
  <1>1. Walks(r)
    BY <1>0, WalkSteps
  <1>2. /\ ~Finished(r) /\ world' = world /\ Rank' = Rank /\ Going
        /\ \A q \in Rank \ {r} : pc'[q] = pc[q]
    BY <1>0, <1>1, OnLine DEF Walks, Others, Rank
  <1>3. /\ \A q \in Rank \ {r} : icall'[q] = icall[q]
        /\ At(r).k = "WaitColl" => icall'[r] = 0
        /\ At(r).k # "Icoll" => icall'[r] \in {icall[r], 0}
    BY <1>0, CallSteps
  <1>4. SUFFICES ASSUME NEW q \in Rank, pc'[q] \in Place(world, q), icall'[q] # 0
                 PROVE  chart.begun[q][pc'[q]]
    BY <1>2 DEF Beginning, Place
  <1>5. CASE q # r
    BY <1>2, <1>3, <1>4, <1>5 DEF Beginning
  <1>6. CASE q = r
    <2>1. At(r).k # "Icoll" => chart.begun[r][pc[r]]
      BY <1>0, <1>2, <1>3, <1>4, <1>6, OnLine DEF Beginning
    <2>2. CASE Onward(r)
      BY <1>0, <1>2, <1>3, <1>4, <1>6, <2>1, <2>2, ActsTo
    <2>3. CASE ~Onward(r)
      <3>1. pc'[r] = pc[r] /\ At(r).k # "Icoll"
        BY <1>1, <2>3, StayKind DEF Walks
      <3> QED
        BY <1>6, <2>1, <3>1
    <2> QED
      BY <2>2, <2>3
  <1> QED
    BY <1>5, <1>6

(* Ranks whose texts have no jump beyond the end stay in them.             *)
Confined(w) ==
  \A r \in DOMAIN Code[w] : \A p \in Line(w, r), e \in BOOLEAN :
    Target(Code[w][r][p], p, e) \in Place(w, r)
InPlace == Going => \A r \in Rank : pc[r] \in Place(world, r)

LEMMA StepInPlace ==
  ASSUME SepIInv, OneSided, MemoryIs, Confined(world), InPlace, NEW r \in Rank, Step(r), ~AbortAll(r)
  PROVE  InPlace'
  <1>1. Walks(r)
    BY WalkSteps
  <1>2. /\ ~Finished(r) /\ world' = world /\ Rank' = Rank /\ Going
        /\ \A q \in Rank \ {r} : pc'[q] = pc[q]
    BY <1>1, OnLine DEF Walks, Others, Rank
  <1>3. pc'[r] \in Place(world, r)
    <2>1. CASE Onward(r)
      <3>1. PICK p, e, t : /\ p = pc[r] /\ t = pc'[r] /\ r \in DOMAIN Code[world]
                           /\ p \in Line(world, r) /\ p \in Place(world, r) /\ e \in BOOLEAN
                           /\ At(r) = Code[world][r][p] /\ t = Target(Code[world][r][p], p, e)
        BY <1>2, <2>1, WalkTo
      <3> QED
        BY <3>1 DEF Confined
    <2>2. CASE pc'[r] = pc[r]
      BY <1>2, <2>2, OnLine
    <2> QED
      BY <1>1, <2>1, <2>2 DEF Walks
  <1>4. \A q \in Rank : pc'[q] \in Place(world, q)
    BY <1>2, <1>3 DEF InPlace
  <1> QED
    BY <1>2, <1>4 DEF InPlace, Place

LEMMA NextTokens ==
  ASSUME TypeIInv, MemoryIs, NEW chart, Noted(world, chart),
         Tokens, Answering(chart), Beginning(chart), [Next]_vars
  PROVE  Tokens' /\ Answering(chart)' /\ Beginning(chart)'
  <1>1. ASSUME NEW r \in Rank, Step(r), ~AbortAll(r)
        PROVE  Tokens' /\ Answering(chart)' /\ Beginning(chart)'
    BY <1>1, StepAnswers, StepBegins
  <1>2. ASSUME NEW r \in Rank, AbortAll(r)
        PROVE  Tokens' /\ Answering(chart)' /\ Beginning(chart)'
    <2>1. ~Going' /\ world' = world
      BY <1>2, AllEnd DEF TypeIInv
    <2>2. tokens' = tokens
      BY <1>2 DEF AbortAll, windows
    <2>3. Tokens'
      BY <2>1, <2>2 DEF Tokens, Rank
    <2> QED
      BY <2>1, <2>3 DEF Answering, Beginning
  <1>3. CASE UNCHANGED vars
    <2>1. world' = world /\ pc' = pc /\ tokens' = tokens /\ icall' = icall
      BY <1>3 DEF vars
    <2>2. Rank' = Rank /\ (Going' <=> Going)
      BY <2>1 DEF Rank, Running, Going, Finished, Text
    <2>3. Tokens'
      BY <2>1, <2>2 DEF Tokens
    <2>4. Beginning(chart)'
      BY <2>1, <2>2 DEF Beginning, Place
    <2>5. Owing(chart)'
      <3>1. Owing(chart)
        BY OwedIs
      <3> QED
        BY <2>1, <2>2, <3>1 DEF Owing, Owed, Place
    <2> QED
      BY <2>1, <2>3, <2>4, <2>5, OwedPrimed
  <1> QED
    BY <1>1, <1>2, <1>3 DEF Next, Done

LEMMA NextInPlace ==
  ASSUME TypeIInv, MemoryIs, Confined(world), InPlace, [Next]_vars
  PROVE  InPlace'
  <1>0. SepIInv /\ OneSided
    BY DEF TypeIInv
  <1>1. ASSUME NEW r \in Rank, Step(r), ~AbortAll(r) PROVE InPlace'
    BY <1>0, <1>1, StepInPlace
  <1>2. ASSUME NEW r \in Rank, AbortAll(r) PROVE InPlace'
    BY <1>0, <1>2, AllEnd DEF InPlace
  <1>3. CASE UNCHANGED vars
    <2>1. world' = world /\ pc' = pc
      BY <1>3 DEF vars
    <2>2. Rank' = Rank /\ (Going' <=> Going)
      BY <2>1 DEF Rank, Running, Going, Finished, Text
    <2> QED
      BY <2>1, <2>2 DEF InPlace, Place
  <1> QED
    BY <1>1, <1>2, <1>3 DEF Next, Done

LEMMA InitBegins ==
  ASSUME Init, NEW chart
  PROVE  Beginning(chart) /\ InPlace
  <1>1. ASSUME NEW r \in Rank PROVE pc[r] \in Place(world, r) /\ icall[r] = 0
    <2>1. pc[r] = 1 /\ icall[r] = 0 /\ Len(Code[world][r]) \in Nat
      BY TextLemma, InitSep DEF Init, SepIInv, Text
    <2> QED
      BY <2>1 DEF Place
  <1> QED
    BY <1>1 DEF Beginning, InPlace

(* What the chart of a world says of its messages, and of what is begun.   *)
TalkInv(chart) ==
  /\ TypeIInv /\ MemoryIs
  /\ Conversing(world, chart) => Exchanging(chart) /\ misfit = {}
  /\ Awaited(world, chart) => Awaiting(chart)
  /\ Noted(world, chart) => Tokens /\ Answering(chart) /\ Beginning(chart)
  /\ Confined(world) => InPlace

LEMMA TalkInit ==
  ASSUME NEW chart, Init
  PROVE  TalkInv(chart)
  <1>1. misfit = {}
    BY DEF Init
  <1> QED
    BY <1>1, TypeInit, InitFits, InitExchanges, InitAwaits, InitAnswers, InitBegins DEF TalkInv

LEMMA TalkNext ==
  ASSUME NEW chart, TalkInv(chart), ChartInv(chart)', [Next]_vars
  PROVE  TalkInv(chart)'
  <1>1. TypeIInv' /\ MemoryIs' /\ world' = world
    BY WorldStays DEF ChartInv, TalkInv, TypeIInv
  <1>2. TypeIInv /\ MemoryIs
    BY DEF TalkInv
  <1>3. Conversing(world, chart) => Exchanging(chart)' /\ misfit' = {}
    BY <1>2, NextExchanges DEF TalkInv
  <1>4. Awaited(world, chart) => Awaiting(chart)'
    BY <1>2, NextAwaits DEF TalkInv
  <1>5. Noted(world, chart) => Tokens' /\ Answering(chart)' /\ Beginning(chart)'
    BY <1>2, NextTokens DEF TalkInv
  <1>6. Confined(world) => InPlace'
    BY <1>2, NextInPlace DEF TalkInv
  <1> QED
    BY <1>1, <1>3, <1>4, <1>5, <1>6 DEF TalkInv

(* What the chart of a world says of its messages and of what is begun is  *)
(* what its ranks have, in every run.                                      *)
THEOREM TalkHolds ==
  ASSUME NEW CONSTANT chart
  PROVE  Spec => []TalkInv(chart)
  <1>1. Init => TalkInv(chart)
    BY TalkInit
  <1>2. TalkInv(chart) /\ ChartInv(chart)' /\ [Next]_vars => TalkInv(chart)'
    BY TalkNext
  <1> QED
    BY <1>1, <1>2, ChartHolds, PTL DEF Spec

(* Where a chart of the texts counts the messages of a world, and gives    *)
(* the n-th that a rank sends to another the tag, the size and the         *)
(* iteration that the other's n-th receive from it expects, no message is  *)
(* taken for another, although all iterations use one tag: in every run,   *)
(* with however many ranks, messages under way and buffers.                *)
THEOREM OwnForAll ==
  ASSUME NEW CONSTANT chart
  PROVE  Spec => [](Conversing(world, chart) => OwnIteration)
  <1>1. TalkInv(chart) => (Conversing(world, chart) => OwnIteration)
    BY DEF TalkInv, OwnIteration
  <1> QED
    BY <1>1, TalkHolds, PTL

(* Where the clock stops.                                                  *)
LEMMA QueueEmpty ==
  ASSUME NEW S, NEW queue \in Seq(S), NEW letter, NEW s \in Nat, NEW n \in Nat,
         Queued(letter, queue, s, n)
  PROVE  queue = <<>> <=> s <= n
  <1>1. Len(queue) \in Nat /\ Len(queue) = IF s > n THEN s - n ELSE 0
    BY DEF Queued
  <1> QED
    BY <1>1

LEMMA NoneWanted ==
  ASSUME Queues, NEW r \in Rank, NEW q \in Rank, Wanted(r) = {}
  PROVE  posted[q, r] = <<>>
  <1>1. PICK queue, S : queue = posted[q, r] /\ S = Items(world)
    OBVIOUS
  <1>2. queue \in Seq(S)
    BY <1>1 DEF Queues
  <1>3. \A x \in 1 .. Len(queue) : queue[x].group \in Wanted(r)
    <2>1. \A g \in GroupsOf(queue) : g \in Wanted(r)
      BY <1>1, WantedIs
    <2> QED
      BY <2>1 DEF GroupsOf
  <1>4. Len(queue) \in Nat /\ ~(1 \in 1 .. Len(queue))
    BY <1>2, <1>3
  <1>5. queue = <<>>
    BY <1>2, <1>4
  <1> QED
    BY <1>1, <1>5

LEMMA StillOutside ==
  ASSUME SepIInv, NEW r \in Rank, Runs(r, "Stop")
  PROVE  ~inside[r] /\ ~InCollective(r) /\ ~Finished(r)
  BY DEF SepIInv, Busy, Runs, InCollective

LEMMA InsideOnly ==
  ASSUME SepIInv, NEW r \in Rank, inside[r]
  PROVE  ~Finished(r)
  BY DEF SepIInv, Busy

LEMMA AllHeard ==
  ASSUME TypeIInv, NEW chart, Conversing(world, chart), Exchanging(chart), Awaiting(chart),
         NEW r \in Rank, Runs(r, "Stop"), Answered(world, chart, r, pc[r]), NEW q \in Rank
  PROVE  net[r, q] = <<>>
  <1>0. SepIInv /\ Queues /\ ~inside[r] /\ ~Finished(r)
    BY StillOutside DEF TypeIInv
  <1>1. Going /\ pc[r] \in Place(world, r) /\ OnPlain(chart, r)
    BY <1>0, OnLine DEF Answered, OnPlain
  <1>2. PICK m \in Anchors(chart, r), l \in Anchors(chart, q) :
          /\ InOrder(chart, r, q, Sent(chart, r, m, q), Got(chart, q, l, r))
          /\ InOrder(chart, q, r, Sent(chart, q, l, r), Got(chart, r, m, q))
    BY <1>1 DEF Exchanging, Exchanged
  <1>3. /\ m = pc[r] /\ l \in Place(world, q) /\ chart.plain[q][l]
        /\ chart.sent[q][l][r] \in Nat /\ chart.got[q][l][r] \in Nat
        /\ chart.sent[r][m][q] \in Nat /\ chart.got[r][m][q] \in Nat
        /\ Sent(chart, q, l, r) \in Nat /\ Got(chart, q, l, r) \in Nat
        /\ OnPlain(chart, q) => l = pc[q]
    BY <1>0, <1>1, AnchorLemma
  <1>4. Sent(chart, r, m, q) = chart.sent[r][m][q] /\ Got(chart, r, m, q) = chart.got[r][m][q]
    BY <1>0, <1>3 DEF Sent, Got
  <1>5. chart.got[r][m][q] <= Sent(chart, q, l, r)
    <2>1. Wanted(r) = {}
      BY <1>0, <1>1 DEF Awaiting, Opened, Answered
    <2>2. posted[q, r] = <<>>
      BY <1>0, <2>1, NoneWanted
    <2>3. PICK queue, S, letter : queue = posted[q, r] /\ S = Items(world) /\ letter = chart.letter[q][r]
      OBVIOUS
    <2>4. PICK s, n : s = Sent(chart, q, l, r) /\ n = chart.got[r][m][q]
      OBVIOUS
    <2>5. queue \in Seq(S) /\ queue = <<>>
      BY <1>0, <2>2, <2>3 DEF Queues
    <2>6. Queued(letter, queue, n, s)
      BY <1>2, <1>4, <2>3, <2>4 DEF InOrder
    <2>7. s \in Nat /\ n \in Nat
      BY <1>3, <2>4
    <2>8. n <= s
      BY <2>5, <2>6, <2>7, QueueEmpty
    <2> QED
      BY <2>4, <2>8
  <1>6. Sent(chart, q, l, r) <=
          chart.sent[q][l][r] + IF l \in Line(world, q) THEN Told(Code[world][q][l], r) ELSE 0
    <2>1. CASE inside[q] /\ Posts(At(q))
      <3>1. ~Finished(q)
        BY <1>0, <2>1, InsideOnly
      <3>2. l = pc[q] /\ l \in Line(world, q) /\ At(q) = Code[world][q][l]
        BY <1>0, <1>3, <2>1, <3>1, WordedLemma, OnLine DEF At, Text
      <3>3. Sent(chart, q, l, r) = chart.sent[q][l][r] + Told(Code[world][q][l], r)
        BY <2>1, <3>2 DEF Sent
      <3> QED
        BY <1>3, <3>2, <3>3
    <2>2. CASE ~(inside[q] /\ Posts(At(q)))
      <3>1. Sent(chart, q, l, r) = chart.sent[q][l][r]
        BY <1>3, <2>2 DEF Sent, Told
      <3>2. Told(Code[world][q][l], r) \in {0, 1}
        BY ToldHeard
      <3> QED
        BY <1>3, <3>1, <3>2
    <2> QED
      BY <2>1, <2>2
  <1>7. chart.sent[r][m][q] <= chart.got[q][l][r]
    <2>1. PICK a, s, t, b :
            /\ a = chart.got[r][m][q] /\ s = Sent(chart, q, l, r)
            /\ t = chart.sent[q][l][r] /\ b = Told(Code[world][q][l], r)
      OBVIOUS
    <2>2. b \in {0, 1}
      BY <2>1, ToldHeard
    <2>3. a <= t + IF l \in Line(world, q) THEN b ELSE 0
      BY <1>3, <1>5, <1>6, <2>1, <2>2
    <2>4. q \in DOMAIN Code[world]
      BY DEF Rank
    <2> QED
      BY <1>3, <2>1, <2>3, <2>4 DEF Answered
  <1>8. chart.got[q][l][r] <= Got(chart, q, l, r)
    BY <1>3, ToldHeard DEF Got
  <1>9. PICK s, g, n : s = chart.sent[r][m][q] /\ g = chart.got[q][l][r] /\ n = Got(chart, q, l, r)
    OBVIOUS
  <1>10. PICK queue, S, letter : queue = net[r, q] /\ S = Items(world) /\ letter = chart.letter[r][q]
    OBVIOUS
  <1>11. queue \in Seq(S)
    BY <1>0, <1>10 DEF Queues
  <1>12. Queued(letter, queue, s, n)
    BY <1>2, <1>4, <1>9, <1>10 DEF InOrder
  <1>13. s \in Nat /\ g \in Nat /\ n \in Nat
    BY <1>3, <1>9
  <1>14. s <= n
    BY <1>7, <1>8, <1>9, <1>13
  <1>15. queue = <<>>
    BY <1>11, <1>12, <1>13, <1>14, QueueEmpty
  <1> QED
    BY <1>10, <1>15

LEMMA ClockStops ==
  ASSUME TypeIInv, NEW chart, Fitting(chart), Conversing(world, chart), Exchanging(chart),
         Awaiting(chart), ClockOrdered(world, chart)
  PROVE  TimedWorkDone
  <1>0. SepIInv
    BY DEF TypeIInv
  <1> SUFFICES ASSUME NEW r \in Rank, Runs(r, "Stop")
               PROVE  /\ \A q \in Rank : At(r).local \/ net[r, q] = <<>>
                      /\ \A o \in ops[r] : At(r).local /\ o.local
    BY DEF TimedWorkDone
  <1>1. ~Finished(r) /\ ~InCollective(r) /\ pc[r] \in Line(world, r) /\ At(r) = Code[world][r][pc[r]]
    BY <1>0, StillOutside, OnLine DEF At, Text
  <1>2. /\ At(r).local \/ Answered(world, chart, r, pc[r])
        /\ \A o \in chart.ops[r][pc[r]] : At(r).local /\ o.local
    BY <1>1 DEF ClockOrdered, Rank, Runs
  <1>3. ops[r] \subseteq chart.ops[r][pc[r]]
    BY <1>0, <1>1, HasHere DEF HasAt
  <1>4. ASSUME NEW q \in Rank PROVE At(r).local \/ net[r, q] = <<>>
    BY <1>2, AllHeard
  <1> QED
    BY <1>2, <1>3, <1>4

(* Where a chart of the texts shows that a rank that stops the clock has   *)
(* no receive open, that the others cannot have sent it what it received   *)
(* before they received what it sent, and that its one-sided operations    *)
(* are complete, what the benchmark timed has happened, in every run.      *)
THEOREM TimedForAll ==
  ASSUME NEW CONSTANT chart
  PROVE  Spec => [](Charted(world, chart) /\ Conversing(world, chart) /\
                    Awaited(world, chart) /\ ClockOrdered(world, chart) => TimedWorkDone)
  <1>1. ChartInv(chart) /\ TalkInv(chart) =>
          (Charted(world, chart) /\ Conversing(world, chart) /\
           Awaited(world, chart) /\ ClockOrdered(world, chart) => TimedWorkDone)
    <2>1. SUFFICES ASSUME ChartInv(chart), TalkInv(chart), Charted(world, chart),
                          Conversing(world, chart), Awaited(world, chart), ClockOrdered(world, chart)
                   PROVE  TimedWorkDone
      OBVIOUS
    <2>2. TypeIInv /\ Fitting(chart) /\ Exchanging(chart) /\ Awaiting(chart)
      BY <2>1 DEF ChartInv, TalkInv
    <2> QED
      BY <2>1, <2>2, ClockStops
  <1> QED
    BY <1>1, ChartHolds, TalkHolds, PTL

(* Where all ranks have ended.                                             *)
LEMMA AtTheEnd ==
  ASSUME TypeIInv, InPlace, Going, NEW r \in Rank, Finished(r)
  PROVE  pc[r] = End(world, r) /\ pc[r] \in Place(world, r) /\ ~inside[r]
  <1>1. pc[r] \in Place(world, r) /\ Len(Code[world][r]) \in Nat
    BY TextLemma DEF InPlace, TypeIInv, SepIInv, Text
  <1>2. pc[r] = End(world, r)
    BY <1>1 DEF Finished, Text, Place, End
  <1>3. ~inside[r]
    BY DEF TypeIInv, SepIInv, Busy
  <1> QED
    BY <1>1, <1>2, <1>3

LEMMA NothingUnread ==
  ASSUME TypeIInv, NEW chart, Conversing(world, chart), Exchanging(chart), InPlace, Going,
         NEW r \in Rank, NEW q \in Rank, Finished(r), Finished(q),
         Balanced(world, chart, r, q), Balanced(world, chart, q, r)
  PROVE  net[r, q] = <<>> /\ posted[r, q] = <<>>
  <1>0. SepIInv /\ Queues
    BY DEF TypeIInv
  <1>1. /\ pc[r] = End(world, r) /\ pc[q] = End(world, q) /\ ~inside[r] /\ ~inside[q]
        /\ pc[r] \in Place(world, r) /\ pc[q] \in Place(world, q)
    BY AtTheEnd
  <1>2. OnPlain(chart, r) /\ OnPlain(chart, q)
    BY <1>1 DEF Balanced, OnPlain
  <1>3. PICK m \in Anchors(chart, r), l \in Anchors(chart, q) :
          InOrder(chart, r, q, Sent(chart, r, m, q), Got(chart, q, l, r))
    BY DEF Exchanging, Exchanged
  <1>4. m = End(world, r) /\ l = End(world, q)
    BY <1>0, <1>1, <1>2, <1>3, AnchorLemma
  <1>5. /\ chart.sent[r][m][q] \in Nat /\ chart.got[q][l][r] \in Nat
    BY <1>0, <1>3, AnchorLemma
  <1>6. Sent(chart, r, m, q) = chart.sent[r][m][q] /\ Got(chart, q, l, r) = chart.sent[r][m][q]
    BY <1>1, <1>4, <1>5 DEF Sent, Got, Balanced
  <1>7. PICK n : n = chart.sent[r][m][q]
    OBVIOUS
  <1>8. PICK queue, posts, S, letter :
          queue = net[r, q] /\ posts = posted[r, q] /\ S = Items(world) /\ letter = chart.letter[r][q]
    OBVIOUS
  <1>9. queue \in Seq(S) /\ posts \in Seq(S)
    <2>1. queue \in Seq(S)
      BY <1>0, <1>8 DEF Queues
    <2>2. posts \in Seq(S)
      BY <1>0, <1>8 DEF Queues
    <2> QED
      BY <2>1, <2>2
  <1>10. Queued(letter, queue, n, n) /\ Queued(letter, posts, n, n)
    BY <1>3, <1>6, <1>7, <1>8 DEF InOrder
  <1>11. n \in Nat /\ n <= n
    BY <1>5, <1>7
  <1>12. queue = <<>> /\ posts = <<>>
    BY <1>9, <1>10, <1>11, QueueEmpty
  <1> QED
    BY <1>8, <1>12

LEMMA NothingOwed ==
  ASSUME TypeIInv, NEW chart, Noted(world, chart), Tokens, Answering(chart), InPlace, Going,
         NEW r \in Rank, NEW q \in Rank, Finished(r), Finished(q), Balanced(world, chart, r, q)
  PROVE  tokens[<<r, q>>] = [post |-> 0, done |-> 0]
  <1>1. PICK p, m : p = End(world, r) /\ m = End(world, q)
    OBVIOUS
  <1>2. pc[r] = p /\ pc[q] = m /\ p \in Place(world, r) /\ m \in Place(world, q)
    BY <1>1, AtTheEnd
  <1>3. tokens[<<r, q>>] = Owed(chart, r, p, q, m)
    <2>1. Owing(chart)
      BY OwedIs
    <2> QED
      BY <1>2, <2>1 DEF Owing
  <1>4. PICK a, b, c, d : /\ a = chart.acts[r][p]["Post"][q] /\ b = chart.acts[q][m]["Complete"][r]
                          /\ c = chart.acts[r][p]["Complete"][q] /\ d = chart.acts[q][m]["WinWait"][r]
    OBVIOUS
  <1>5. a \in Int /\ b \in Int /\ c \in Int /\ d \in Int
    BY <1>2, <1>4, ActsOf DEF Calls
  <1>6. a = b /\ c = d
    BY <1>1, <1>4 DEF Balanced
  <1>7. a - b = 0 /\ c - d = 0
    BY <1>5, <1>6
  <1> QED
    BY <1>3, <1>4, <1>7 DEF Owed

LEMMA NothingOpen ==
  ASSUME TypeIInv, NEW chart, Fitting(chart), Beginning(chart), InPlace, Going,
         NEW r \in Rank, Finished(r), Over(world, chart, r)
  PROVE  /\ icall[r] = 0 /\ ops[r] = {} /\ epochs[r] = {}
         /\ \A t \in Rank : held[r][t] = "none"
  <1>1. pc[r] = End(world, r) /\ pc[r] \in Place(world, r) /\ ~InCollective(r)
    BY AtTheEnd DEF InCollective
  <1>2. HasAt(chart, r, pc[r], ops[r], epochs[r], held[r])
    BY <1>1 DEF Fitting, Fits
  <1>3. ops[r] = {} /\ epochs[r] = {} /\ \A t \in Rank : held[r][t] = "none"
    BY <1>1, <1>2 DEF HasAt, Over, Rank
  <1>4. icall[r] = 0
    BY <1>1 DEF Beginning, Over
  <1> QED
    BY <1>3, <1>4

(* Where a chart of the texts shows that every way through them leads to   *)
(* their ends, that all messages sent are received there, the posts of     *)
(* windows answered and the nonblocking operations waited for, and no rank *)
(* calls MPI_Abort, nothing is left when all ranks have ended, in every    *)
(* run, with however many ranks, messages under way and buffers.           *)
THEOREM NothingLeftForAll ==
  ASSUME NEW CONSTANT chart
  PROVE  Spec => [](Charted(world, chart) /\ Conversing(world, chart) /\
                    Noted(world, chart) /\ Concluded(world, chart) => NothingLeft)
  <1>1. ChartInv(chart) /\ TalkInv(chart) =>
          (Charted(world, chart) /\ Conversing(world, chart) /\
           Noted(world, chart) /\ Concluded(world, chart) => NothingLeft)
    <2>1. SUFFICES ASSUME ChartInv(chart), TalkInv(chart), Charted(world, chart),
                          Conversing(world, chart), Noted(world, chart),
                          Concluded(world, chart), \A r \in Rank : Finished(r)
                   PROVE  /\ \A pair \in Rank \X Rank : net[pair] = <<>> /\ posted[pair] = <<>>
                          /\ \A pair \in Rank \X Rank : tokens[pair] = [post |-> 0, done |-> 0]
                          /\ \A r \in Rank :
                               /\ icall[r] = 0 /\ ops[r] = {} /\ epochs[r] = {}
                               /\ \A t \in Rank : held[r][t] = "none"
      BY DEF NothingLeft
    <2>2. Going /\ \A r, q \in Rank : Over(world, chart, r) /\ Balanced(world, chart, r, q)
      BY <2>1 DEF Concluded, Going, Rank
    <2>3. /\ TypeIInv /\ Fitting(chart) /\ Exchanging(chart) /\ Tokens
          /\ Answering(chart) /\ Beginning(chart)
      BY <2>1 DEF ChartInv, TalkInv
    <2>4. InPlace
      <3>1. Confined(world)
        BY <2>2 DEF Confined, Over, Rank
      <3> QED
        BY <2>1, <3>1 DEF TalkInv
    <2>5. ASSUME NEW r \in Rank, NEW q \in Rank
          PROVE  net[<<r, q>>] = <<>> /\ posted[<<r, q>>] = <<>>
      <3>1. net[r, q] = <<>> /\ posted[r, q] = <<>>
        BY <2>1, <2>2, <2>3, <2>4, NothingUnread
      <3>2. PICK S : net \in [Rank \X Rank -> Seq(S)] /\ posted \in [Rank \X Rank -> Seq(S)]
        BY <2>3 DEF TypeIInv, Queues
      <3> QED
        BY <3>1, <3>2
    <2>6. ASSUME NEW r \in Rank, NEW q \in Rank PROVE tokens[<<r, q>>] = [post |-> 0, done |-> 0]
      BY <2>1, <2>2, <2>3, <2>4, NothingOwed
    <2>7. ASSUME NEW r \in Rank
          PROVE  /\ icall[r] = 0 /\ ops[r] = {} /\ epochs[r] = {}
                 /\ \A t \in Rank : held[r][t] = "none"
      BY <2>1, <2>2, <2>3, <2>4, NothingOpen
    <2>8. \A pair \in Rank \X Rank : \E r, q \in Rank : pair = <<r, q>>
      OBVIOUS
    <2> QED
      BY <2>5, <2>6, <2>7, <2>8
  <1> QED
    BY <1>1, ChartHolds, TalkHolds, PTL

---------------------------------------------------------------------------
(* The ring of round_robin_pt2pt.C, and mpi_io_collective_read.py.         *)

(* The sum and the difference of two ranks wrap around at most once. *)
LEMMA UpIs ==
  ASSUME NEW w, w.n \in Nat \ {0}, NEW r \in Ranks(w), NEW rc \in Ranks(w)
  PROVE  ProcUp(w, r, rc) = IF r + rc < w.n THEN r + rc ELSE r + rc - w.n
  <1> DEFINE n == w.n
  <1>1. n \in Nat \ {0} /\ r \in 0 .. n - 1 /\ rc \in 0 .. n - 1
    BY DEF Ranks
  <1> HIDE DEF n
  <1>2. (n + r + rc) % n = IF r + rc < n THEN r + rc ELSE r + rc - n
    BY <1>1
  <1> QED
    BY <1>2 DEF ProcUp, n

LEMMA DnIs ==
  ASSUME NEW w, w.n \in Nat \ {0}, NEW r \in Ranks(w), NEW rc \in Ranks(w)
  PROVE  ProcDn(w, r, rc) = IF r >= rc THEN r - rc ELSE w.n + r - rc
  <1> DEFINE n == w.n
  <1>1. n \in Nat \ {0} /\ r \in 0 .. n - 1 /\ rc \in 0 .. n - 1
    BY DEF Ranks
  <1> HIDE DEF n
  <1>2. (n + r - rc) % n = IF r >= rc THEN r - rc ELSE n + r - rc
    BY <1>1
  <1> QED
    BY <1>2 DEF ProcDn, n

(* The assertions of round_robin_pt2pt.C:106 and 107, and that who is up   *)
(* of whom is down of: whoever r sends up to receives that from below.     *)
THEOREM Neighbours ==
  ASSUME NEW w, w.n \in Nat \ {0}, NEW r \in Ranks(w), NEW rc \in Ranks(w)
  PROVE  /\ ProcUp(w, r, rc) \in Ranks(w)
         /\ ProcDn(w, r, rc) \in Ranks(w)
         /\ \A q \in Ranks(w) : ProcUp(w, r, rc) = q <=> ProcDn(w, q, rc) = r
  <1>0. w.n \in Nat \ {0} /\ r \in 0 .. w.n - 1 /\ rc \in 0 .. w.n - 1
    BY DEF Ranks
  <1>1. ProcUp(w, r, rc) \in Ranks(w)
    BY <1>0, UpIs DEF Ranks
  <1>2. ProcDn(w, r, rc) \in Ranks(w)
    BY <1>0, DnIs DEF Ranks
  <1>3. ASSUME NEW q \in Ranks(w) PROVE ProcUp(w, r, rc) = q <=> ProcDn(w, q, rc) = r
    <2>1. q \in 0 .. w.n - 1
      BY <1>3 DEF Ranks
    <2>2. ProcDn(w, q, rc) = IF q >= rc THEN q - rc ELSE w.n + q - rc
      BY <1>3, DnIs
    <2>3. ProcUp(w, r, rc) = IF r + rc < w.n THEN r + rc ELSE r + rc - w.n
      BY UpIs
    <2> QED
      BY <1>0, <2>1, <2>2, <2>3
  <1> QED
    BY <1>1, <1>2, <1>3

---------------------------------------------------------------------------
(* In every step of round_robin_pt2pt.C each of the two sends of a rank is *)
(* addressed to a rank that has a receive from it, in the same step and    *)
(* under the same tag, also when a rank is its own neighbour and when both *)
(* neighbours are one rank (lines 120 to 123).                             *)
THEOREM RingPairs ==
  ASSUME NEW w, w.n \in Nat \ {0}, NEW r \in Ranks(w), NEW q \in Ranks(w),
         NEW rc \in Ranks(w), NEW step \in Nat
  PROVE  LET mine == RingStep(w, r, rc, step)
             its == RingStep(w, q, rc, step)
         IN  /\ mine[1].peer = q <=> its[3].peer = r
             /\ mine[2].peer = q <=> its[4].peer = r
             /\ mine[1].tag = its[3].tag /\ mine[2].tag = its[4].tag
  <1>1. ProcUp(w, r, rc) = q <=> ProcDn(w, q, rc) = r
    BY Neighbours
  <1>2. ProcUp(w, q, rc) = r <=> ProcDn(w, r, rc) = q
    BY Neighbours
  <1> QED
    <2>1. /\ RingStep(w, r, rc, step)[1].peer = ProcUp(w, r, rc)
          /\ RingStep(w, r, rc, step)[2].peer = ProcDn(w, r, rc)
          /\ RingStep(w, r, rc, step)[1].tag = step * w.n + rc
          /\ RingStep(w, r, rc, step)[2].tag = step * w.n + rc
      BY DEF RingStep, Isend, Irecv, Message
    <2>2. /\ RingStep(w, q, rc, step)[3].peer = ProcDn(w, q, rc)
          /\ RingStep(w, q, rc, step)[4].peer = ProcUp(w, q, rc)
          /\ RingStep(w, q, rc, step)[3].tag = step * w.n + rc
          /\ RingStep(w, q, rc, step)[4].tag = step * w.n + rc
      BY DEF RingStep, Isend, Irecv, Message
    <2> QED
      BY <1>1, <1>2, <2>1, <2>2, Zenon

LEMMA DivideOnce ==
  ASSUME NEW n \in Nat \ {0}, NEW a \in Nat, NEW b \in Nat,
         NEW x \in 0 .. n - 1, NEW y \in 0 .. n - 1, a * n + x = b * n + y
  PROVE  a = b /\ x = y
  <1>1. ~(a < b)
    <2>1. SUFFICES ASSUME a < b PROVE FALSE
      OBVIOUS
    <2>2. b * n >= (a + 1) * n
      BY <2>1
    <2>3. (a + 1) * n = a * n + n /\ a * n \in Nat /\ b * n \in Nat
      OBVIOUS
    <2> QED
      BY <2>2, <2>3
  <1>2. ~(b < a)
    <2>1. SUFFICES ASSUME b < a PROVE FALSE
      OBVIOUS
    <2>2. a * n >= (b + 1) * n
      BY <2>1
    <2>3. (b + 1) * n = b * n + n /\ a * n \in Nat /\ b * n \in Nat
      OBVIOUS
    <2> QED
      BY <2>2, <2>3
  <1>3. a = b
    BY <1>1, <1>2
  <1>4. a * n \in Nat
    OBVIOUS
  <1> QED
    BY <1>3, <1>4

(* The tags of round_robin_pt2pt.C tell all messages of different steps    *)
(* and offsets apart: no receive can take the message of another one.      *)
THEOREM RingTags ==
  ASSUME NEW w, w.n \in Nat \ {0}, NEW r \in Ranks(w), NEW q \in Ranks(w),
         NEW rc \in Ranks(w), NEW rd \in Ranks(w),
         NEW step \in Nat, NEW other \in Nat,
         NEW i \in {1, 2}, NEW j \in {3, 4},
         RingStep(w, r, rc, step)[i].tag = RingStep(w, q, rd, other)[j].tag
  PROVE  rc = rd /\ step = other
  <1>1. RingStep(w, r, rc, step)[i].tag = step * w.n + rc
    BY DEF RingStep, Isend, Irecv, Message
  <1>2. RingStep(w, q, rd, other)[j].tag = other * w.n + rd
    BY DEF RingStep, Isend, Irecv, Message
  <1>3. rc \in 0 .. w.n - 1 /\ rd \in 0 .. w.n - 1
    BY DEF Ranks
  <1>4. step * w.n + rc = other * w.n + rd
    BY <1>1, <1>2, Zenon
  <1> QED
    BY <1>3, <1>4, DivideOnce

---------------------------------------------------------------------------
(* mpi_io_collective_read.py, whatever the numbers of ranks that wrote and *)
(* that read: the sizes are padded by no negative number (line 49), the    *)
(* assertion in line 56 holds, and over the steps each part of the file is *)
(* read, by one reader only.                                               *)
THEOREM ReadersShare ==
  ASSUME NEW ranks \in Nat \ {0}, NEW written \in Nat
  PROVE  LET steps == NSteps(ranks, written) IN
         /\ steps * ranks - written >= 0
         /\ \A rstep \in 0 .. steps - 1, rank \in 0 .. ranks - 1 :
              StepRank(ranks, rstep, rank) < steps * ranks
         /\ \A part \in 0 .. written - 1 :
              \E rstep \in 0 .. steps - 1, rank \in 0 .. ranks - 1 :
                 StepRank(ranks, rstep, rank) = part
         /\ \A rstep, sstep \in 0 .. steps - 1, rank, sank \in 0 .. ranks - 1 :
              StepRank(ranks, rstep, rank) = StepRank(ranks, sstep, sank) =>
                rstep = sstep /\ rank = sank
  <1> DEFINE steps == NSteps(ranks, written)
  <1>1. ASSUME NEW part \in Nat
        PROVE  /\ part \div ranks \in Nat
               /\ part % ranks \in 0 .. ranks - 1
               /\ part = (part \div ranks) * ranks + (part % ranks)
    OBVIOUS
  <1>2. steps \in Nat \ {0} /\ steps * ranks >= written
    <2>1. CASE written <= ranks
      BY <2>1 DEF NSteps
    <2>2. CASE ~(written <= ranks)
      <3> DEFINE d == written \div ranks
      <3>1. d \in Nat /\ written < d * ranks + ranks
        BY <1>1
      <3>2. (1 + d) * ranks = d * ranks + ranks /\ d * ranks \in Nat
        BY <3>1
      <3> QED
        BY <2>2, <3>1, <3>2 DEF NSteps
    <2> QED
      BY <2>1, <2>2
  <1> HIDE DEF steps
  <1>3. ASSUME NEW rstep \in 0 .. steps - 1, NEW rank \in 0 .. ranks - 1
        PROVE  StepRank(ranks, rstep, rank) < steps * ranks
    <2>1. (rstep + 1) * ranks <= steps * ranks
      BY <1>2
    <2>2. (rstep + 1) * ranks = rstep * ranks + ranks /\ rstep * ranks \in Nat
      BY <1>2
    <2>3. steps * ranks \in Nat
      BY <1>2
    <2> QED
      BY <2>1, <2>2, <2>3 DEF StepRank
  <1>4. ASSUME NEW part \in 0 .. written - 1
        PROVE  \E rstep \in 0 .. steps - 1, rank \in 0 .. ranks - 1 :
                 StepRank(ranks, rstep, rank) = part
    <2> DEFINE d == part \div ranks
               x == part % ranks
    <2>1. d \in Nat /\ x \in 0 .. ranks - 1 /\ part = d * ranks + x
      BY <1>1
    <2> HIDE DEF d, x
    <2>2. d < steps
      <3>1. SUFFICES ASSUME d >= steps PROVE FALSE
        BY <2>1, <1>2
      <3>2. d * ranks >= steps * ranks /\ d * ranks \in Nat /\ steps * ranks \in Nat
        BY <3>1, <2>1, <1>2
      <3> QED
        BY <3>2, <2>1, <1>2
    <2>3. StepRank(ranks, d, x) = part
      BY <2>1 DEF StepRank
    <2> QED
      BY <2>1, <2>2, <2>3, <1>2
  <1>5. ASSUME NEW rstep \in 0 .. steps - 1, NEW sstep \in 0 .. steps - 1,
               NEW rank \in 0 .. ranks - 1, NEW sank \in 0 .. ranks - 1,
               StepRank(ranks, rstep, rank) = StepRank(ranks, sstep, sank)
        PROVE  rstep = sstep /\ rank = sank
    BY <1>2, <1>5, DivideOnce DEF StepRank
  <1>6. steps * ranks - written >= 0
    <2>1. steps * ranks \in Nat
      BY <1>2
    <2> QED
      BY <1>2, <2>1
  <1> QED
    BY <1>3, <1>4, <1>5, <1>6 DEF steps
=============================================================================
