---------------------------- MODULE WorkDispatch ----------------------------
(***************************************************************************)
(* The message loop that mpi_io_master_slave.py (its write and its read),  *)
(* mpi_io_master_slave_write.py and mpi_io_master_slave_read.py share.  A  *)
(* slave sends its last result, or None, to say that it is ready, and      *)
(* waits for instructions.  The master takes such messages in any order    *)
(* and answers each with the next step; when the steps are used up it      *)
(* takes one more message of every slave and answers with tag 100.         *)
(*                                                                         *)
(* Messages between two ranks stay in order; send, isend and waitall may   *)
(* complete as soon as they are called (the message was buffered) or only  *)
(* after it is received (it was not).  What the steps do is left to the    *)
(* modules that extend this one.                                           *)
(***************************************************************************)
EXTENDS Integers, Sequences, FiniteSets

CONSTANT Slave      \* the ranks 1 .. size-1

ASSUME SlaveAssumption == IsFiniteSet(Slave) /\ Slave # {}

VARIABLES
  mpc,       \* the master's place: "recv", "sending", "final", "waitall", "over"
  nsteps,    \* the bound of its loop
  next,      \* how many steps it has sent
  nstopped,  \* how many terminate tags it has sent
  caught,    \* the steps whose results it has received
  spc,       \* spc[s]: "ready", "wait", "work" or "over"
  task,      \* task[s]: the last step s received
  result,    \* result[s]: the step s has a result of, or None
  mq,        \* mq[s]: results on their way from s to the master
  sq         \* sq[s]: instructions on their way to s

mvars == <<mpc, nsteps, next, nstopped, caught>>
svars == <<spc, task, result>>
dvars == <<mvars, svars, mq, sq>>

None == -1           \* no result
Terminate == -1      \* an instruction with tag 100; the others have tag 10

\* range(0, nsteps) may be empty.
LoopStart(n) == IF n > 0 THEN "recv" ELSE "final"

DispatchInit(n) ==
  /\ mpc = LoopStart(n)
  /\ nsteps = n
  /\ next = 0
  /\ nstopped = 0
  /\ caught = {}
  /\ spc = [s \in Slave |-> "ready"]
  /\ task = [s \in Slave |-> None]
  /\ result = [s \in Slave |-> None]
  /\ mq = [s \in Slave |-> <<>>]
  /\ sq = [s \in Slave |-> <<>>]

-----------------------------------------------------------------------------
(* The master.                                                             *)

\* "if result: ..." for the message of s that is received.
Catch(s) == IF Head(mq[s]) = None THEN caught ELSE caught \union {Head(mq[s])}

\* Mutant: answer a ready slave whose message is probed but not received.
DispatchOnProbe(s) ==
  /\ mpc = "recv"
  /\ mq[s] # <<>>
  /\ caught' = Catch(s)
  /\ sq' = [sq EXCEPT ![s] = Append(@, next)]
  /\ next' = next + 1
  /\ mpc' = "sending"
  /\ UNCHANGED <<nsteps, nstopped, svars, mq>>

\* recv from any source and send the next step to where the message is from.
Dispatch(s) ==
  /\ mpc = "recv"
  /\ mq[s] # <<>>
  /\ caught' = Catch(s)
  /\ mq' = [mq EXCEPT ![s] = Tail(@)]
  /\ sq' = [sq EXCEPT ![s] = Append(@, next)]
  /\ next' = next + 1
  /\ mpc' = "sending"
  /\ UNCHANGED <<nsteps, nstopped, svars>>

\* Mutant: the loop runs once too often.
SendReturnsOnceMore ==
  /\ mpc = "sending"
  /\ mpc' = IF next <= nsteps THEN "recv" ELSE "final"
  /\ UNCHANGED <<nsteps, next, nstopped, caught, svars, mq, sq>>

SendReturns ==
  /\ mpc = "sending"
  /\ mpc' = LoopStart(nsteps - next)
  /\ UNCHANGED <<nsteps, next, nstopped, caught, svars, mq, sq>>

\* Mutant: the last message of a slave is probed but not received.
StopOnProbe(s) ==
  /\ mpc = "final"
  /\ mq[s] # <<>>
  /\ caught' = Catch(s)
  /\ sq' = [sq EXCEPT ![s] = Append(@, Terminate)]
  /\ nstopped' = nstopped + 1
  /\ mpc' = IF nstopped' = Cardinality(Slave) THEN "waitall" ELSE "final"
  /\ UNCHANGED <<nsteps, next, svars, mq>>

\* Mutant: range(1, size-1) in the cleanup loop.
StopAllButOne(s) ==
  /\ mpc = "final"
  /\ mq[s] # <<>>
  /\ caught' = Catch(s)
  /\ mq' = [mq EXCEPT ![s] = Tail(@)]
  /\ sq' = [sq EXCEPT ![s] = Append(@, Terminate)]
  /\ nstopped' = nstopped + 1
  /\ mpc' = IF nstopped' >= Cardinality(Slave) - 1 THEN "waitall" ELSE "final"
  /\ UNCHANGED <<nsteps, next, svars>>

\* The cleanup loop: recv from any source, isend of the terminate tag.
Stop(s) ==
  /\ mpc = "final"
  /\ mq[s] # <<>>
  /\ caught' = Catch(s)
  /\ mq' = [mq EXCEPT ![s] = Tail(@)]
  /\ sq' = [sq EXCEPT ![s] = Append(@, Terminate)]
  /\ nstopped' = nstopped + 1
  /\ mpc' = IF nstopped' = Cardinality(Slave) THEN "waitall" ELSE "final"
  /\ UNCHANGED <<nsteps, next, svars>>

WaitAll ==
  /\ mpc = "waitall"
  /\ mpc' = "over"
  /\ UNCHANGED <<nsteps, next, nstopped, caught, svars, mq, sq>>

-----------------------------------------------------------------------------
(* A slave.                                                                *)

\* isend(result, dest=0), or the sending half of sendrecv.
Signal(s) ==
  /\ spc[s] = "ready"
  /\ mq' = [mq EXCEPT ![s] = Append(@, result[s])]
  /\ spc' = [spc EXCEPT ![s] = "wait"]
  /\ UNCHANGED <<mvars, task, result, sq>>

\* Mutant: a slave that finds no instructions yet signals once more.
InstructedOrSignalAgain(s) ==
  /\ spc[s] = "wait"
  /\ sq' = [sq EXCEPT ![s] = IF sq[s] = <<>> THEN <<>> ELSE Tail(@)]
  /\ spc' = [spc EXCEPT ![s] = IF sq[s] = <<>> THEN "ready" ELSE
                                 IF Head(sq[s]) = Terminate THEN "over" ELSE "work"]
  /\ task' = [task EXCEPT ![s] = IF sq[s] = <<>> THEN @ ELSE Head(sq[s])]
  /\ UNCHANGED <<mvars, result, mq>>

\* recv of the instructions, whatever their tag.
Instructed(s) ==
  /\ spc[s] = "wait"
  /\ sq[s] # <<>>
  /\ sq' = [sq EXCEPT ![s] = Tail(@)]
  /\ IF Head(sq[s]) = Terminate
     THEN /\ spc' = [spc EXCEPT ![s] = "over"]
          /\ UNCHANGED task
     ELSE /\ spc' = [spc EXCEPT ![s] = "work"]
          /\ task' = [task EXCEPT ![s] = Head(sq[s])]
  /\ UNCHANGED <<mvars, result, mq>>

\* The end of the loop's body; what the work is comes with the extension.
WorkDone(s) ==
  /\ spc[s] = "work"
  /\ result' = [result EXCEPT ![s] = task[s]]
  /\ spc' = [spc EXCEPT ![s] = "ready"]
  /\ UNCHANGED <<mvars, task, mq, sq>>

\* The loops started again by a second caller; the master's and a slave's.
RestartMaster(n) ==
  /\ mpc' = LoopStart(n)
  /\ nsteps' = n
  /\ next' = 0
  /\ nstopped' = 0
  /\ caught' = {}
  /\ UNCHANGED <<svars, mq, sq>>

RestartSlave(s) ==
  /\ spc' = [spc EXCEPT ![s] = "ready"]
  /\ result' = [result EXCEPT ![s] = None]
  /\ UNCHANGED <<mvars, task, mq, sq>>

-----------------------------------------------------------------------------
(* Properties.                                                             *)

DispatchTypeOK ==
  /\ mpc \in {"recv", "sending", "final", "waitall", "over"}
  /\ nsteps \in Nat /\ next \in 0..nsteps /\ nstopped \in 0..Cardinality(Slave)
  /\ caught \subseteq 0..nsteps-1
  /\ spc \in [Slave -> {"ready", "wait", "work", "over"}]
  /\ task \in [Slave -> Int] /\ result \in [Slave -> Int]
  /\ mq \in [Slave -> Seq(Int)] /\ sq \in [Slave -> Seq(Int)]

(* A slave and the master take turns: there is one message between them,   *)
(* in one direction, exactly while the slave waits.                        *)
TakeTurns ==
  \A s \in Slave : Len(mq[s]) + Len(sq[s]) = (IF spc[s] = "wait" THEN 1 ELSE 0)

(* "we can infer completion with the subsequent recv": when a slave has    *)
(* received its instructions, the result it sent with isend, and never     *)
(* waited for, has been received.                                          *)
IsendCompleted ==
  [][\A s \in Slave : sq'[s] # sq[s] /\ spc'[s] # spc[s] => mq[s] = <<>>]_dvars

\* The task whose result s owes the master.
Owed(s) ==
  CASE sq[s] # <<>>                        -> Head(sq[s])
    [] spc[s] = "work"                     -> task[s]
    [] spc[s] = "ready"                    -> result[s]
    [] spc[s] = "wait" /\ mq[s] # <<>>     -> Head(mq[s])
    [] OTHER                               -> None
=============================================================================
