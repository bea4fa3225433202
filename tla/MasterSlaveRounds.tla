-------------------------- MODULE MasterSlaveRounds --------------------------
(***************************************************************************)
(* mpi_io_master_slave_write.py followed by mpi_io_master_slave_read.py,   *)
(* two jobs that share two files.  The master hands out runs as in         *)
(* WorkDispatch, but the slaves now do collective I/O among themselves, so *)
(* the number of steps is rounded up to full rounds of the slaves, and the *)
(* slaves find the place of a run by adding up the sizes of the rounds.    *)
(*                                                                         *)
(* Python 2 semantics: nruns/n_slaves is an integer.  An allgather returns *)
(* when all slaves have called it.  Write_at_all is not assumed to wait    *)
(* for anybody (the allgather before it does).  Whether Read_at_all waits  *)
(* is up to the MPI library, and nothing else keeps the reader's slaves in *)
(* step: the model has libraries where it always does and where it never   *)
(* does (waits).                                                           *)
(***************************************************************************)
EXTENDS WorkDispatch, Offsets

CONSTANTS
  NSlaves,   \* n_slaves
  NRuns,     \* nruns, 47 in the script
  FSize,     \* fsize, the bytes of a number
  Length     \* Length[step]: the size of fill_buffer(step), seeded by step

Steps == 0..NRuns-1

ASSUME RoundsAssumption ==
  /\ NSlaves \in Nat \ {0} /\ Slave = 1..NSlaves
  /\ NRuns \in Nat /\ FSize \in Nat \ {0}
  /\ Length \in [Steps -> Nat]

Master == 0
Proc == {Master} \union Slave

VARIABLES
  job,          \* job[p]: "write", "written", "read" or "return"
  stage,        \* stage[s]: how far s is with its work on a step
  joined,       \* joined[s]: the steps s brought to an allgather, in order
  last_offset,  \* the slaves' variable of that name
  lengths,      \* the master's array; in the reader everybody's
  hfile,        \* mc_header.contig: lengths, or a hole
  dfile,        \* mc_data.contig, in bytes: the step an array of it belongs to
  waits,        \* whether Read_at_all returns only when all slaves have called it
  calls,        \* calls[s]: how often s has called Read_at_all
  got           \* got[step]: the arrays read for that step

rvars == <<job, stage, joined, last_offset, lengths, hfile, dfile, waits, calls, got>>

\* The data file's size if the arrays lie one behind the other.
End == FSize * SumFunction(Length)

Hole == -1

\* Mutant: no padding.
Unpadded(nruns) == nruns

\* nsteps: nruns rounded up to a multiple of n_slaves.
Padded(nruns) ==
  IF nruns % NSlaves = 0 THEN nruns ELSE (nruns \div NSlaves + 1) * NSlaves

\* A step beyond the last run stands for an empty array.
Size(step) == IF step < NRuns THEN Length[step] ELSE 0

RoundsInit ==
  /\ DispatchInit(Padded(NRuns))
  /\ job = [p \in Proc |-> "write"]
  /\ stage = [s \in Slave |-> "begin"]
  /\ joined = [s \in Slave |-> <<>>]
  /\ last_offset = [s \in Slave |-> 0]
  /\ lengths = [k \in Steps |-> 0]
  /\ hfile = [k \in Steps |-> Hole]
  /\ dfile = [i \in 0..End-1 |-> Hole]
  /\ waits = FALSE
  /\ calls = [s \in Slave |-> 0]
  /\ got = [k \in Steps |-> <<>>]

-----------------------------------------------------------------------------
(* The writer.  (The offset the master adds up and sends is not used.)     *)

\* "if (rstep < nruns): lengths[rstep] = result[1]".
Recorded(s) ==
  IF Head(mq[s]) \in Steps
  THEN [lengths EXCEPT ![Head(mq[s])] = Length[Head(mq[s])]]
  ELSE lengths

DispatchWrite(s) ==
  /\ job[Master] = "write"
  /\ Dispatch(s)
  /\ lengths' = Recorded(s)
  /\ UNCHANGED <<job, stage, joined, last_offset, hfile, dfile, waits, calls, got>>

\* Mutant: the last results are not recorded.
StopWriteUncaught(s) ==
  /\ job[Master] = "write"
  /\ Stop(s)
  /\ UNCHANGED rvars

StopWrite(s) ==
  /\ job[Master] = "write"
  /\ Stop(s)
  /\ lengths' = Recorded(s)
  /\ UNCHANGED <<job, stage, joined, last_offset, hfile, dfile, waits, calls, got>>

WriteHeader ==
  /\ job[Master] = "write"
  /\ mpc = "over"
  /\ hfile' = lengths
  /\ job' = [job EXCEPT ![Master] = "written"]
  /\ UNCHANGED <<dvars, stage, joined, last_offset, lengths, dfile, waits, calls, got>>

\* Fill the buffer and call allgather(bsize).
JoinRound(s) ==
  /\ job[s] = "write" /\ spc[s] = "work" /\ stage[s] = "begin"
  /\ joined' = [joined EXCEPT ![s] = Append(@, task[s])]
  /\ stage' = [stage EXCEPT ![s] = "allgather"]
  /\ UNCHANGED <<dvars, job, last_offset, lengths, hfile, dfile, waits, calls, got>>

\* What the allgather of the round s is in returns to s.
sizes(s) == [q \in Slave |-> Size(joined[q][Len(joined[s])])]

\* Mutant: the place within the round counted in numbers instead of bytes.
DataOffsetInNumbers(s) == last_offset[s] + Before(sizes(s), s)

\* slave_rank is s - 1, so that offsets[slave_rank] adds up the ranks below s.
data_offset(s) == last_offset[s] + Before(sizes(s), s) * FSize

\* The allgather returns; Write_at_all; last_offset += np.sum(sizes).
WriteRound(s) ==
  /\ job[s] = "write" /\ stage[s] = "allgather"
  /\ \A q \in Slave : Len(joined[q]) >= Len(joined[s])
  /\ dfile' = [i \in DOMAIN dfile |->
                 IF i \in data_offset(s)..data_offset(s) + Size(task[s])*FSize - 1
                 THEN task[s] ELSE dfile[i]]
  /\ last_offset' = [last_offset EXCEPT ![s] = @ + SumFunction(sizes(s))]
  /\ WorkDone(s)
  /\ stage' = [stage EXCEPT ![s] = "begin"]
  /\ UNCHANGED <<job, joined, lengths, hfile, waits, calls, got>>

SlaveWrote(s) ==
  /\ job[s] = "write"
  /\ spc[s] = "over"
  /\ job' = [job EXCEPT ![s] = "written"]
  /\ UNCHANGED <<dvars, stage, joined, last_offset, lengths, hfile, dfile, waits, calls, got>>

-----------------------------------------------------------------------------
(* The reader, a new job; header and lengths are broadcast first.          *)

StartReader ==
  /\ \A p \in Proc : job[p] = "written"
  /\ job' = [p \in Proc |-> "read"]
  /\ lengths' = hfile
  /\ waits' \in BOOLEAN
  /\ joined' = [s \in Slave |-> <<>>]
  /\ last_offset' = [s \in Slave |-> 0]
  /\ mpc' = LoopStart(Padded(NRuns)) /\ nsteps' = Padded(NRuns)
  /\ next' = 0 /\ nstopped' = 0 /\ caught' = {}
  /\ spc' = [s \in Slave |-> "ready"]
  /\ task' = [s \in Slave |-> None]
  /\ result' = [s \in Slave |-> None]
  /\ mq' = [s \in Slave |-> <<>>]
  /\ sq' = [s \in Slave |-> <<>>]
  /\ UNCHANGED <<stage, hfile, dfile, calls, got>>

DispatchRead(s) ==
  /\ job[Master] = "read"
  /\ Dispatch(s)
  /\ UNCHANGED rvars

StopRead(s) ==
  /\ job[Master] = "read"
  /\ Stop(s)
  /\ UNCHANGED rvars

\* Mutant: offsets without the entry behind the last run.
StartReadShortOffsets(s) ==
  /\ job[s] = "read" /\ spc[s] = "work" /\ stage[s] = "begin"
  /\ IF task[s] >= NRuns
     THEN /\ stage' = [stage EXCEPT ![s] = "IndexError"]
          /\ UNCHANGED calls
     ELSE /\ stage' = [stage EXCEPT ![s] = "reading"]
          /\ calls' = [calls EXCEPT ![s] = @ + 1]
  /\ UNCHANGED <<dvars, job, joined, last_offset, lengths, hfile, dfile, waits, got>>

\* offsets[step], then the call of Read_at_all.  offsets has nruns+1 entries.
StartRead(s) ==
  /\ job[s] = "read" /\ spc[s] = "work" /\ stage[s] = "begin"
  /\ IF task[s] > NRuns
     THEN /\ stage' = [stage EXCEPT ![s] = "IndexError"]
          /\ UNCHANGED calls
     ELSE /\ stage' = [stage EXCEPT ![s] = "reading"]
          /\ calls' = [calls EXCEPT ![s] = @ + 1]
  /\ UNCHANGED <<dvars, job, joined, last_offset, lengths, hfile, dfile, waits, got>>

\* What the call of s reads, from the place where the run's array begins.
Values(s, place) ==
  [i \in 0..lengths[task[s]]*FSize - 1 |-> dfile[place*FSize + i]]

\* Mutant: data_offset = step*len*fsize, which is commented out in the script.
RecordEqualLengths(s) ==
  IF task[s] \notin Steps THEN got ELSE
    [got EXCEPT ![task[s]] = Append(@, Values(s, task[s] * lengths[task[s]]))]

\* rbuf of a run's step; the array of a step beyond the last run is empty.
RecordRead(s) ==
  IF task[s] \notin Steps THEN got ELSE
    [got EXCEPT ![task[s]] = Append(@, Values(s, Before(lengths, task[s])))]

\* Read_at_all returns.  MPI lets it wait for the other slaves' calls or not.
EndRead(s) ==
  /\ job[s] = "read" /\ stage[s] = "reading"
  /\ waits => \A q \in Slave : calls[q] >= calls[s]
  /\ got' = RecordRead(s)
  /\ WorkDone(s)
  /\ stage' = [stage EXCEPT ![s] = "begin"]
  /\ UNCHANGED <<job, joined, last_offset, lengths, hfile, dfile, waits, calls>>

Return(p) ==
  /\ job[p] = "read"
  /\ IF p = Master THEN mpc = "over" ELSE spc[p] = "over"
  /\ job' = [job EXCEPT ![p] = "return"]
  /\ UNCHANGED <<dvars, stage, joined, last_offset, lengths, hfile, dfile, waits, calls, got>>

-----------------------------------------------------------------------------

Running(p) == job[p] \in {"write", "read"}

MasterSendReturns == Running(Master) /\ SendReturns /\ UNCHANGED rvars
MasterWaitAll == Running(Master) /\ WaitAll /\ UNCHANGED rvars
SlaveSignals(s) == Running(s) /\ Signal(s) /\ UNCHANGED rvars
SlaveInstructed(s) == Running(s) /\ Instructed(s) /\ UNCHANGED rvars

MasterStep ==
  \/ \E s \in Slave : DispatchWrite(s) \/ StopWrite(s) \/ DispatchRead(s) \/ StopRead(s)
  \/ WriteHeader
  \/ Return(Master)

SlaveStep(s) ==
  \/ SlaveSignals(s)
  \/ SlaveInstructed(s)
  \/ JoinRound(s)
  \/ WriteRound(s)
  \/ SlaveWrote(s)
  \/ StartRead(s)
  \/ EndRead(s)
  \/ Return(s)

AllReturned == \A p \in Proc : job[p] = "return"

RoundsTerminating == AllReturned /\ UNCHANGED <<dvars, rvars>>

RoundsNext ==
  \/ MasterStep
  \/ MasterSendReturns
  \/ MasterWaitAll
  \/ \E s \in Slave : SlaveStep(s)
  \/ StartReader
  \/ RoundsTerminating

\* As in MasterSlaveIO; the reader is started when the writer has ended.
RoundsFairness ==
  /\ WF_<<dvars, rvars>>(MasterStep)
  /\ WF_<<dvars, rvars>>(/\ \A s \in Slave : sq[s] = <<>>
                         /\ MasterSendReturns \/ MasterWaitAll)
  /\ WF_<<dvars, rvars>>(StartReader)
  /\ \A s \in Slave : WF_<<dvars, rvars>>(SlaveStep(s))

RoundsSpec == RoundsInit /\ [][RoundsNext]_<<dvars, rvars>>

FairRoundsSpec == RoundsSpec /\ RoundsFairness

-----------------------------------------------------------------------------
(* Properties.                                                             *)

(* A round consists of consecutive steps, one for each slave: no slave     *)
(* gets two steps of a round and none is left out, although the master     *)
(* hands steps to whoever asks first.                                      *)
RoundsAreBatches ==
  \A r \in 1..Padded(NRuns) :
    (\A s \in Slave : Len(joined[s]) >= r) =>
      {joined[s][r] : s \in Slave} = (r-1)*NSlaves .. r*NSlaves - 1

(* The header has the length of every run when the writer has ended, and   *)
(* no entry for the steps that only fill up the last round.                *)
HeaderComplete ==
  job[Master] # "write" => hfile = Length

(* Slaves that write in the same round write to different places, without  *)
(* more agreement than the sizes of the round: only data of earlier rounds *)
(* can be overwritten.                                                     *)
SameRoundDisjoint ==
  [][\A i \in DOMAIN dfile :
       dfile'[i] # dfile[i] => dfile[i] < (dfile'[i] \div NSlaves) * NSlaves]_dfile

\* The bytes of the data file that the header assigns to run k.
InFile(k) == [i \in 0..Length[k]*FSize - 1 |-> dfile[Before(Length, k)*FSize + i]]

(* The reader reads the data file as a whole: every run is read by exactly *)
(* one slave, and the arrays read, put one behind the other in the order   *)
(* of the runs, are the file.  This rests on the header the other job left *)
(* and on the master giving out each step once; it does not depend on who  *)
(* asks first or how far apart the slaves' reads are.                      *)
ReadInFull ==
  \A k \in Steps :
    \/ got[k] = <<InFile(k)>>
    \/ got[k] = <<>> /\ ~AllReturned

(* "offsets[step]" exists for every step a slave is sent.                  *)
NoIndexError == \A s \in Slave : stage[s] # "IndexError"

(* Both jobs end on all ranks: no slave is left in an allgather, or with a *)
(* library whose Read_at_all waits in a collective read, that the others   *)
(* do not call any more.                                                   *)
AllReturn == <>AllReturned

(* What the writer leaves is what the reader expects: the array of run k   *)
(* lies where the lengths of the runs before it add up to.                 *)
EachRunAtItsOffset ==
  (\A p \in Proc : job[p] # "write") =>
    \A k \in Steps : \A i \in 0..Length[k]*FSize - 1 :
      dfile[Before(Length, k)*FSize + i] = k
=============================================================================
