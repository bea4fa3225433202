---------------------------- MODULE MasterSlaveIO ----------------------------
(***************************************************************************)
(* mpi_io_master_slave.py: write() and then, behind a barrier, read().     *)
(* In write() the master writes nruns to the file, hands out the runs, and *)
(* writes their lengths behind nruns; a slave writes the array of a run at *)
(* that run's own place.  In read() all ranks read the header, the master  *)
(* hands the runs out again with their lengths, and the slaves read the    *)
(* arrays back.  Both functions use the message loop of WorkDispatch, with *)
(* the same communicator and the same tags.                                *)
(***************************************************************************)
EXTENDS WorkDispatch

CONSTANTS
  NRuns,     \* nruns, 20 in the script
  Slot,      \* the room for a run's array, 10^6 in the script
  Length     \* Length[step]: the size of fill_buffer(step), seeded by step

Steps == 0..NRuns-1

ASSUME NRunsAssumption == NRuns \in Nat
ASSUME LengthAssumption == Slot \in Nat /\ Length \in [Steps -> 1..Slot]

Master == 0

ASSUME MasterAssumption == Master \notin Slave

Proc == {Master} \union Slave

VARIABLES
  phase,     \* phase[p]: "open", "write", "barrier", "read" or "return"
  file,      \* the file, in elements; isize and fsize are the same
  lengths,   \* the master's array of that name
  got        \* got[step]: the arrays read for that step (what is printed)

iovars == <<dvars, phase, file, lengths, got>>

Hole == -1

MSInit ==
  /\ DispatchInit(NRuns)
  /\ phase = [p \in Proc |-> IF p = Master THEN "open" ELSE "write"]
  /\ file = [i \in 0..(NRuns + Slot*NRuns) |-> Hole]
  /\ lengths = [k \in Steps |-> 0]
  /\ got = [k \in Steps |-> <<>>]

\* Write_at of n equal values, and Read_at of n values, from position at.
Filled(at, n, value) ==
  [i \in DOMAIN file |-> IF i \in at..at+n-1 THEN value ELSE file[i]]
ReadFrom(at, n) == [i \in 0..n-1 |-> file[at + i]]

\* Mutant: the header is taken to be the lengths alone.
OffsetWithoutCount(step) == NRuns + Slot * step

\* head_offset + body_offset.
Offset(step) == 1 + NRuns + Slot * step

\* "lengths[rstep] = result[1]", for the message of s that is received.
Recorded(s) ==
  IF Head(mq[s]) = None THEN lengths
  ELSE [lengths EXCEPT ![Head(mq[s])] = Length[Head(mq[s])]]

-----------------------------------------------------------------------------
(* write().                                                                *)

WriteCount ==
  /\ phase[Master] = "open"
  /\ file' = [file EXCEPT ![0] = NRuns]
  /\ phase' = [phase EXCEPT ![Master] = "write"]
  /\ UNCHANGED <<dvars, lengths, got>>

DispatchWrite(s) ==
  /\ phase[Master] = "write"
  /\ Dispatch(s)
  /\ lengths' = Recorded(s)
  /\ UNCHANGED <<phase, file, got>>

\* Mutant: the final results are received and dropped.
StopWriteUncaught(s) ==
  /\ phase[Master] = "write"
  /\ Stop(s)
  /\ UNCHANGED <<phase, file, lengths, got>>

StopWrite(s) ==
  /\ phase[Master] = "write"
  /\ Stop(s)
  /\ lengths' = Recorded(s)
  /\ UNCHANGED <<phase, file, got>>

WriteRun(s) ==
  /\ phase[s] = "write"
  /\ WorkDone(s)
  /\ file' = Filled(Offset(task[s]), Length[task[s]], task[s])
  /\ UNCHANGED <<phase, lengths, got>>

\* Behind the loops the master writes lengths where its file pointer is, and
\* every rank goes to Close and to the barrier between write() and read().
WriteLengths ==
  /\ phase[Master] = "write"
  /\ mpc = "over"
  /\ file' = [i \in DOMAIN file |-> IF i \in 1..NRuns THEN lengths[i-1] ELSE file[i]]
  /\ phase' = [phase EXCEPT ![Master] = "barrier"]
  /\ UNCHANGED <<dvars, lengths, got>>

SlaveWrote(s) ==
  /\ phase[s] = "write"
  /\ spc[s] = "over"
  /\ phase' = [phase EXCEPT ![s] = "barrier"]
  /\ UNCHANGED <<dvars, file, lengths, got>>

-----------------------------------------------------------------------------
(* read().                                                                 *)

\* comm.Barrier() between write() and read() lets p go.
PassBarrier(p) ==
  /\ phase[p] = "barrier"
  /\ \A q \in Proc : phase[q] \in {"barrier", "read", "return"}

\* The master opens the file and reads nruns and lengths from it.
MasterReads ==
  /\ PassBarrier(Master)
  /\ phase' = [phase EXCEPT ![Master] = "read"]
  /\ lengths' = [k \in 0..file[0]-1 |-> file[1 + k]]
  /\ RestartMaster(file[0])
  /\ UNCHANGED <<file, got>>

SlaveReads(s) ==
  /\ PassBarrier(s)
  /\ phase' = [phase EXCEPT ![s] = "read"]
  /\ RestartSlave(s)
  /\ UNCHANGED <<file, lengths, got>>

DispatchRead(s) ==
  /\ phase[Master] = "read"
  /\ Dispatch(s)
  /\ UNCHANGED <<phase, file, lengths, got>>

StopRead(s) ==
  /\ phase[Master] = "read"
  /\ Stop(s)
  /\ UNCHANGED <<phase, file, lengths, got>>

\* The instruction carries lengths[step], which does not change any more.
ReadRun(s) ==
  /\ phase[s] = "read"
  /\ WorkDone(s)
  /\ got' = [got EXCEPT ![task[s]] =
               Append(@, ReadFrom(Offset(task[s]), lengths[task[s]]))]
  /\ UNCHANGED <<phase, file, lengths>>

Return(p) ==
  /\ phase[p] = "read"
  /\ IF p = Master THEN mpc = "over" ELSE spc[p] = "over"
  /\ phase' = [phase EXCEPT ![p] = "return"]
  /\ UNCHANGED <<dvars, file, lengths, got>>

-----------------------------------------------------------------------------
(* Both.                                                                   *)

Working(p) == phase[p] \in {"write", "read"}

MasterSendReturns ==
  /\ Working(Master)
  /\ SendReturns
  /\ UNCHANGED <<phase, file, lengths, got>>

MasterWaitAll ==
  /\ Working(Master)
  /\ WaitAll
  /\ UNCHANGED <<phase, file, lengths, got>>

SlaveSignals(s) ==
  /\ Working(s)
  /\ Signal(s)
  /\ UNCHANGED <<phase, file, lengths, got>>

SlaveInstructed(s) ==
  /\ Working(s)
  /\ Instructed(s)
  /\ UNCHANGED <<phase, file, lengths, got>>

MasterStep ==
  \/ WriteCount
  \/ \E s \in Slave : DispatchWrite(s) \/ StopWrite(s) \/ DispatchRead(s) \/ StopRead(s)
  \/ WriteLengths
  \/ MasterReads
  \/ Return(Master)

SlaveStep(s) ==
  \/ SlaveSignals(s)
  \/ SlaveInstructed(s)
  \/ WriteRun(s)
  \/ SlaveWrote(s)
  \/ SlaveReads(s)
  \/ ReadRun(s)
  \/ Return(s)

AllReturned == \A p \in Proc : phase[p] = "return"

MSTerminating == AllReturned /\ UNCHANGED iovars

MSNext ==
  \/ MasterStep
  \/ MasterSendReturns
  \/ MasterWaitAll
  \/ \E s \in Slave : SlaveStep(s)
  \/ MSTerminating

\* Processes run.  A send or waitall is only sure to return when what was sent
\* has been received.
MSFairness ==
  /\ WF_iovars(MasterStep)
  /\ WF_iovars((\A s \in Slave : sq[s] = <<>>) /\ (MasterSendReturns \/ MasterWaitAll))
  /\ \A s \in Slave : WF_iovars(SlaveStep(s))

MSSpec == MSInit /\ [][MSNext]_iovars

FairMSSpec == MSSpec /\ MSFairness

-----------------------------------------------------------------------------
(* Properties.                                                             *)

MSInv ==
  /\ DispatchTypeOK
  /\ TakeTurns
  /\ phase \in [Proc -> {"open", "write", "barrier", "read", "return"}]
  /\ file \in [0..(NRuns + Slot*NRuns) -> Int]
  /\ lengths \in [Steps -> Nat]

(* When a rank reads the header it is complete: nruns and the length of    *)
(* each run, also of those whose results came only with the cleanup loop.  *)
HeaderComplete ==
  (\E p \in Proc : phase[p] \in {"read", "return"}) =>
     /\ file[0] = NRuns
     /\ \A k \in Steps : file[1 + k] = Length[k]

(* In the end each run has been read once, by one slave, and what was read *)
(* is what some other slave wrote: no run's array overlaps the header or   *)
(* another run, and none is read before it is written.                     *)
ReadBack ==
  AllReturned => \A k \in Steps : got[k] = << [i \in 0..Length[k]-1 |-> k] >>

(* The second use of the message loop does not see a message of the first, *)
(* although nothing in the messages tells them apart: nothing is in flight *)
(* when a rank goes on to read().                                          *)
NothingLeftAtBarrier ==
  \A p \in Proc : PassBarrier(p) =>
    \A s \in Slave : phase[s] # "read" => mq[s] = <<>> /\ sq[s] = <<>>

Pool == INSTANCE TaskPool WITH
  Worker <- Slave,
  Idle <- None,
  Tasks <- Steps,
  todo <- next..nsteps-1,
  doing <- [s \in Slave |-> Owed(s)],
  done <- caught

(* As long as a slave works on a run, nobody else does, no two have a      *)
(* result of the same run, and no run is forgotten.                        *)
ImplementsPool == Pool!Spec

(* All ranks return from read().                                           *)
AllReturn == <>AllReturned
=============================================================================
