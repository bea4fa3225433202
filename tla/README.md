# TLA+ verification of mpi_playground

`mpi_playground` is a collection of message passing programs. The playground proper
is small programs in C/C++ and Python (mpi4py), each of which tries out one way to
coordinate ranks: a nonblocking consensus, a master that hands out work, collective
file access, averaged collectives, a parallel sort. Beside it the repository keeps
the OSU micro-benchmarks, some hundred programs over MPI, NCCL, OpenSHMEM, UPC and
UPC++. The programs share no state with each other, but they share idioms. What is
hard about them is what a test on a workstation seldom shows: who is in which
collective while somebody else is one step behind, which message a receive takes,
when a rank may stop listening, what has happened when the clock is stopped.

This directory holds TLA+ models of these programs, TLC configurations that check
them on small worlds, and TLAPS proofs for worlds of every size.

    tlc -config NbxRepetitions.cfg MCNonblockingConsensus      # a run
    tlc -config Programs.cfg MCParallelProgram                 # a hundred programs
    tlapm NonblockingConsensusProof.tla                        # the proofs

## Inventory

| part | source | state | operations | status |
|---|---|---|---|---|
| nonblocking consensus (C++) | `nonblocking_consensus.C` | open sends, barrier request, `recv_cnt`, repetition | post sends, probe+receive, test sends and enter barrier, test barrier | modelled |
| nonblocking consensus (Python) | `mpi4py/nonblocking_consensus.py` | the same, `send_map` | the same once; announcement, listings, assertion | modelled |
| random destinations | `random_in_range.C` | none | draw destinations | modelled as the set of results |
| master/slave I/O, one file | `mpi4py/mpi_io_master_slave.py` | tasks, messages, `lengths`, the file | `write()`, `read()` | modelled |
| master/slave I/O in rounds | `mpi4py/mpi_io_master_slave_write.py`, `..._read.py` | the same, `last_offset`, two files | a writer job and a reader job | modelled |
| averaged all-to-all | `alltoall_avg.C` | `step`, barrier request, `all_done` | the averaging loop, two reductions | modelled |
| sample sort, uniqueness | `parallel_sort.c`, driver `is_list_unique.C` | distributed array, samples, pivots, block sizes | `parallel_sort`, `is_unique`, `run_unique_check` | modelled |
| round robin | `round_robin_pt2pt.C` | requests of two neighbours | ring exchange at every distance | modelled |
| collective file I/O | `mpi4py/mpi_io_collective_write.py`, `..._read.py` | header and blocks of a file | write and read with different numbers of ranks | modelled, without the bytes |
| all-to-all counts, one-sided puts | `alltoall.C`, `one_sided.C` | flags, a window | a collective, a fence epoch | modelled |
| demos | `abort.C`, `ibarrier.C`, `mpi4py/{helloworld,pt2pt,nb,collective,iallreduce}.py` | none | a call or two of MPI | modelled |
| benchmarks in Python | `mpi4py/osu_*.py` | loop counters | loops over sizes and iterations | modelled but for `osu_multi_lat.py` |
| sort on MPL | `parallel_sort_mpl.C` | as `parallel_sort.c` | the same sort on another library | its collectives only |
| OSU point to point | `osu-benchmarks/c/mpi/pt2pt` | requests of a window, errors of validation | ping-pong, windows in one or two directions, several pairs | modelled but for `osu_latency_mt.c` |
| OSU collectives, startup | `.../c/mpi/collective`, `.../c/mpi/startup` | as above, a request under way | 14 blocking, 13 nonblocking benchmarks, init, hello | modelled |
| OSU one-sided | `.../c/mpi/one-sided` | window, epochs, locks | nine benchmarks by six ways to synchronise | modelled |
| OSU NCCL | `.../c/nccl` | stream | six collectives, three point to point | modelled |
| OSU OpenSHMEM | `.../c/openshmem` | symmetric memory, pSync arrays | transfers, message rates, atomics, collectives | modelled |
| OSU UPC, UPC++ | `.../c/upc`, `.../c/upcxx` | shared arrays | transfers, collectives | modelled |
| shared functions | `.../c/util/osu_util_mpi.c` | | statistics, computation with probes, windows | those that communicate |
| options, output, graphs | `.../c/util/osu_util.c`, `osu_util_graph.c`, `process_cmdline.C` | options | getopt, printing, gnuplot | not modelled: each rank by itself |
| file bandwidth | `test_io.C`, `test_fortran_io.f90` | one file per rank and format | write, read, compare one element | not modelled: no communication |
| OSU in Java and Python | `osu-benchmarks/java`, `osu-benchmarks/python` | | the same loops | not modelled: the texts in C stand for them |
| third party | `mpi4py/tests/`, `libmesh_apps/`, `mpl_examples/`, `contrib/`, `m4/` | | | not modelled: kept as published elsewhere |

How ranks interact: by point-to-point messages (Issend/Iprobe/Recv, isend/recv with
tags, windows of Isend/Irecv), by collectives, blocking or not, by one-sided operations
on windows and symmetric memory, and through files. There are no callbacks, crashes
or retries in this code, and MPI neither loses nor duplicates messages; the models
have none of them. One benchmark has threads (`osu_latency_mt.c`).

What is hard, part by part (PROJECT.json lists every hazard with its line):

- consensus: a rank must go on receiving while it waits in the barrier, and must not
  leave before every message of the repetition is received; all repetitions share
  one tag, so nothing but the barrier keeps them apart;
- master/slave: slaves ask in any order; the last results come with requests that
  get no work; the second use of the loop shares tags with the first; a slave
  drops its `isend` request and infers that it completed;
- rounds: collective I/O inside the message loop only works if all slaves get the
  same number of steps, hence the padding, which brings about as much in the writer,
  with its allgather, and in the reader only if the library's collective reads wait;
  offsets are added up in two units;
- averaging: each rank decides by itself, from its clock and from `MPI_Test`, when
  to stop calling collectives;
- sort: equal numbers and repeated pivots at the cuts, empty blocks, a table read by
  row for sending and by column for receiving;
- ring: two requests toward each neighbour, who may be one rank or the rank itself;
- collective files: more or fewer readers than writers;
- benchmarks: all messages of all iterations carry one tag; ranks must agree on
  going on after an error of validation that only some have seen; the clock must
  stop after the operation has happened; an epoch or lock must cover it; nobody may
  be more than a barrier away when pSync arrays and buffers are used again.

## The modules

**QuiescenceDetection** is the abstract specification of a nonblocking consensus:
ranks conclude rounds, and nobody concludes a round before all messages of all ranks
in that round are delivered. **NonblockingConsensus** is `nonblocking_consensus.C`;
its actions are the calls in the body of the loop, lines 66-103, with `pc` telling
whether a rank is at the probe or at the test. `pending[s][d]` counts the Issends
not yet matched: an Issend completes when its receive has started, so `Testall`
succeeds when none is left. `Iprobe`, `Testall` and `Test` may all say "not yet"
(`ProbeMiss`, `TestMiss`). `recvd` keeps the sources apart that the code adds up in
`recv_cnt`. **RandomInRange** has the sets of destination vectors.

**RankOrderedPrint** is the loop "for every rank: barrier, print if it is my turn"
that most of the programs have. **NonblockingConsensusPy** composes two instances of
it (start and end messages) with NonblockingConsensus (one repetition), the
allreduce of `send_map` and the assertion behind the loop. `stage` tells where in the
function a rank is; each rank runs through at its own pace.

**TaskPool** is the abstract specification of handing out tasks: each is done once,
by one worker, one at a time, batch after batch. **WorkDispatch** is the message
loop that the three master/slave scripts have in common, master and slave, with one
queue in each direction per slave; the restart operators are there because
`read()` runs it again after `write()`. What the work is comes with two extensions.
**MasterSlaveIO** is `mpi_io_master_slave.py`, with the file as an array of
elements: header, then a slot for each run. **MasterSlaveRounds** is the writer job
and then the reader job of the other two scripts, with padding, the allgather of
sizes (`joined`), the slaves' `last_offset`, the data file in bytes, the calls of
`Read_at_all` and what they read (`got`). MPI leaves it to the library whether a
`Read_at_all` waits for the calls of the other slaves; the variable `waits`, chosen when
the reader starts, has both kinds. **Offsets** is the sum of the sizes before a block. The master
also adds up a data offset and sends it (`mpi_io_master_slave_write.py:69-71`); no
slave uses it and it is left out.

**AlltoallAvg** is the loop of `alltoall_avg.C`. MPI matches collectives by the
order of the calls; `calls` has the calls of each rank, and a blocking collective
returns only if the call with the same number is of the same kind on all ranks.
`Call` is the one place where that is recorded.

**ParallelSort** is `parallel_sort.c`: one action per stretch between two
collectives. `partition` and `Cut` are the code's in-place algorithm: `Turn` is the body
of its loop, a function of an array and the place where the part to be cut begins
(`Cuts`). `qsort` is the sorted sequence, `Piece` and `Received` follow the displacements. A rank returns
from `MPI_Alltoallv` without waiting for ranks that have nothing for it.

### Programs as texts

The other programs have no state of their own worth a module each: what a rank does
next does not depend on what it receives, but for one bit, whether an error of
validation is known. They are written down as texts and run on one machine.

**ProgramText** has the vocabulary. A text is a sequence of instructions, one per
call that communicates, with the loops over message sizes (`NSizes`), iterations
(`NIterations`, the `NSkips` first of them untimed), warm-ups (`Warmups`) and windows
(`Window`) unrolled; `Timed(i)` is `i >= options.skip`. What depends on the rank or the
number of ranks is decided when the text is made; `Break` is the one conditional jump,
`break` after an error. Instructions carry a label `at`, the size and iteration
they belong to, which the machine never looks at and the properties compare. `Main` is
the frame of `main()`: a refused command line or number of ranks leaves only
`MPI_Finalize`.

**ParallelProgram** is the machine: MPI, OpenSHMEM, UPC and UPC++ as these programs use
them, hence external. One action per kind of instruction; a blocking call is two,
to enter it and to leave it. `calls` has each rank's collectives, the k-th of
one rank belonging to the k-th of another, and `MayReturn` says whom a rank must
wait for: everybody ("all"), the root ("from"), nobody unless it is the root ("to"),
nobody. `net` and `posted` have the unmatched sends and receives, matched by
source, destination and tag in order. `ops` has the one-sided operations that may be
incomplete at their origin or target, `epochs`, `held` and `tokens` the
synchronisation of windows. A library may return early wherever its standard lets it:
a send may be buffered, a root may leave a broadcast first, `MPI_Test` may fail.

| module | texts |
|---|---|
| **OsuPt2pt** | `osu_latency`, `osu_latency_mp`, `osu_multi_lat`, `osu_bw`, `osu_bibw`, `osu_mbw_mr` |
| **OsuCollective** | all of `c/mpi/collective` and `c/mpi/startup`; the shapes in which the blocking ones place their barriers; statistics and dummy computation of `osu_util_mpi.c` |
| **OsuOneSided** | all of `c/mpi/one-sided`, each with flush, flush_local, lock, lock_all, fence, pscw; allocated and dynamic windows |
| **OsuNccl** | all of `c/nccl`; an operation and the synchronisation of its stream are one |
| **OsuOpenShmem** | all of `c/openshmem` |
| **OsuUpc** | all of `c/upc` and `c/upcxx`; the barrier that UPC implies at exit is `Finalize` |
| **PlaygroundPrograms** | `round_robin_pt2pt.C`, `alltoall.C`, `one_sided.C`, `parallel_sort_mpl.C`, collective file I/O, the demos, the benchmarks in Python |

**BenchmarkPrograms** names the programs and lists the worlds: which program, on how
many ranks, with or without `--validation`, by which synchronisation.

An error of validation is a free choice (`Validate`): any rank may see one at any time it
looks. Where ranks combine what they know (`MPI_Reduce`, `MPI_Allreduce`, `MPI_Bcast`, a
message), `flag` carries it.

**CollectivePlan** is a condition on texts, that their collective operations can be
numbered alike although each rank decides for itself where an error takes it
(`Planned`), and what follows from it for the ranks at work (`PlanInv`). `PlanOf`
makes such a plan for a text without loops; the run Programs checks it.

**TextChart** is the like for one-sided operations. A chart says of each place of a text
which operations, epochs and locks a rank has there, how many collectives it has behind it
(`number`), and how many up to the last one in which all wait for all (`gate`).
`Charted` and `Counted` say that the chart follows the instructions; `EpochsOrdered`
and `MemoryOrdered` are conditions on what it says; `Fitting` and
`Counting` are what it means for the ranks at work.

**MessageChart** adds to the chart how many messages a rank has sent to and received from
each other rank at a place (`sent`, `got`) and what the n-th of them carries (`letter`),
which receives may be open (`open`), the calls of active target synchronisation (`acts`)
and whether a nonblocking collective is (`begun`). `Conversing`, `Awaited` and `Noted` say
that the chart follows the instructions and that the n-th send to a rank fits that rank's
n-th receive; `ClockOrdered` and `Concluded` are conditions on the places where the clock
stops and on the ends; `Exchanging`, `Awaiting`, `Answering` and `Beginning` are what the
chart means for the ranks at work.

### Proofs

**NonblockingConsensusProof**, **NonblockingConsensusPyProof**, **AlltoallAvgProof**,
**MasterSlaveIOProof**, **MasterSlaveRoundsProof**, **ParallelSortProof** and
**ParallelProgramProof** hold the proofs about the modules they are named for (the
last one also CollectivePlan, TextChart and MessageChart, and the arithmetic of the ring and of the
collective reader),
**OffsetsProof** what two of them need of sums. The modules called MC... give constants their values. An operator whose
comment begins with "Mutant:" is a plausible mistake in the operator below it;
PROJECT.json names, for each property, one that makes it fail.

## The runs

| run | world | states | what it shows |
|---|---|---|---|
| NbxRepetitions | 3 ranks, 2 destinations each, 2 repetitions | 238 thousand | the consensus, the drift of at most one repetition, refinement of QuiescenceDetection, termination |
| NbxPython | 2 ranks, up to 4 draws with repetition | 58 thousand | the assertion, delivery source by source, listings around the exchange, return |
| MasterSlave | 3 slaves, 4 runs of lengths 1 and 2 | 193 thousand | complete header, every run read back once, no message left between the two uses of the loop, isend complete, refinement of TaskPool, return |
| Rounds | 2 slaves, 7 runs, numbers of 2 bytes, `Read_at_all` that waits and that does not | 158 thousand | rounds are consecutive steps, complete header, disjoint writes in a round, the data file read as a whole, return |
| Averaging | 3 ranks, 5 steps | 2 thousand | stop only when all clocks say so, agreement on the number of steps, end or mismatch |
| Sort | 3 ranks, 2 numbers each out of 3 values, every sample | 134 thousand | the cut, the sort, the duplicates, the end |
| Programs | 196 worlds, 108 programs on 1 to 4 ranks | 137 thousand | matching collectives and the plan behind them, charts, messages in their own iteration, timed work done, epochs, symmetric memory, nothing left over, termination |

Five more runs end in a counterexample; each shows a place where the code does not
do what the repository says of it:

- **NbxCount** (`CountsWhatWasSent`): after the last repetition `recv_cnt`, printed as
  the number of values received, may be too small. A rank still in the loop of
  the repetition before has counted a message of the last one. The Python program
  asserts the count; with its single repetition the assertion holds.
- **AveragingMatch** (`CollectivesMatch`): two ranks see the barrier complete in
  different steps; one calls `MPI_Allreduce`, the other `MPI_Alltoall`.
- **RoundsLayout** (`EachRunAtItsOffset`): `last_offset += np.sum(sizes)` counts
  numbers where bytes are meant, and a later round overwrites an earlier one. Even
  with the factor restored a round would be laid out by slave, not by step.
- **RoundsPadding** (`NoIndexError`): two padded steps index `offsets` beyond its end.
- **WindowLoop** (`IterationsAsAsked`): `osu_bw --buffer-number multiple --validation`
  counts the buffers of a window with the variable of the loop over iterations and
  goes through more iterations than asked for, without end. `osu_bibw` has the same
  lines.

What the run Programs asks of every text (`ParallelProgram`):

- `CollectivesMatch`: the k-th collective of two ranks is the same operation with the
  same root, at the same size and iteration. The loops over sizes, the warm-ups,
  and above all the breaks after an error could put ranks out of step.
- `TextsKept`: why they match, and why the five safety properties below hold. All programs whose
  messages carry no errors have a plan, all have a chart that fulfils the conditions
  (`Concluded` in 189 of the 196 worlds: not where an error found by `osu_latency`,
  `osu_multi_lat`, `osu_bw` or `osu_mbw_mr` skips messages, nor where `MPI_Abort` ends the
  ranks), and the ranks keep to both. It is what the proofs of `PlannedMatch` and
  `SymmetricForAll` to `NothingLeftForAll` assume and show.
- `OwnIteration`: a message is received by the receive of its own iteration.
- `TimedWorkDone`: when the clock stops, the messages sent are received and the
  one-sided operations complete, at the target where the benchmark claims that.
- `EpochsHold`, `SymmetricMemoryFree`: one-sided operations are covered by an epoch or
  lock; symmetric memory and pSync arrays are used again only when free.
- `NothingLeft`, `Terminates`: all ranks end, with nothing open.

Four exceptions are made, each for something the code does:

- In the statistics of the nonblocking benchmarks the root reduces with MAX and then
  MIN where the others reduce with MIN and then MAX (`osu_util_mpi.c:744-763`).
  `SameCall` lets these two stand for each other. Only printed numbers depend on it.
- `osu_bibw` and `osu_latency_mp` are run without `--validation`. In the first, a rank
  that finds an error breaks out of the iterations alone (`osu_bibw.c:298`) and the next
  barrier of the other does not match; in the second, rank 0 leaves by `exit()` without
  `MPI_Finalize`. The texts have both.
- `osu_multi_lat` runs on an even number of ranks; on an odd one the last rank
  addresses one that does not exist.
- In `osu_oshm_put_mr`, the nonblocking forms and the atomics, a PE clears its part of
  symmetric memory with nothing to keep others from writing there already
  (`osu_oshm_put_mr.c:213`). These writes are `Overwrite`, which `SymmetricMemoryFree`
  does not look at: no result depends on the bytes.

### Bounds

`NRep`, `Rank`, `NRuns`, `Slot`, `maxstep`, `N`, `Values` are the program's own
parameters, scaled down; no counter is capped otherwise.

- Two repetitions are enough for a rank to be one ahead of another, and the invariant
  says it is never two. Three ranks let two be in different states toward a third.
  The choice of five destinations is scaled to two of three ranks (`Five`), so that
  ranks are left out by some and addressed by others.
- The Python script draws up to `2*nranks` destinations, all of which are in for two
  ranks; repeated destinations occur.
- Three slaves and four runs give runs that outnumber slaves, a slave that gets two
  runs, and a cleanup loop with more than one result to catch.
- Seven runs for two slaves give four rounds and one padded step, in the last of them. If
  reads do not wait, one slave of the reader may take all eight steps. Two padded steps
  need three slaves: RoundsPadding (four runs), which fails. The theorems have no
  bound on slaves or runs and hold for both kinds of reads.
- Five steps leave the loop by the limit and by the clock, on any rank first, and in
  the same step.
- The sort needs three ranks to have an inner piece with a pivot on both sides. Three
  values over two numbers give equal numbers within and across ranks, repeated
  pivots and empty pieces.
- Programs: two sizes and two iterations of which one is timed let a rank be in the next
  size, or the next iteration, while another is in this one; one warm-up tells the
  barrier of a warm-up from that of an iteration; windows of two messages have a
  second request to wait for; one call of `MPI_Test` may or may not complete. Two ranks
  are what most benchmarks are made for; three and four give a rank without partner
  and two pairs, three a ring whose neighbours differ and a put that others see.
  The collectives of the benchmarks are checked on two ranks: their texts differ
  only at the root, which is one of the two.
- WindowLoop: four iterations and a window of two, so that the counter is below the limit
  after the inner loop.

### Fairness

Ranks run: weak fairness of the step of every rank. For the polling loops of the
consensus that is not enough, as each poll may miss; the models add that a
probe or test that could succeed again and again succeeds in the end (strong
fairness of `Advance`), which is MPI's progress rule for repeated calls. In the
master/slave scripts `send` and `waitall` are sure to return only when what
was sent has been received; they may return before (buffering). Nothing is assumed of
clocks, and nothing of `MPI_Test` in AlltoallAvg: there the step limit ends the
loop. AlltoallAvg is checked without deadlock checking, since it does stop in a
mismatch; `FinishOrSplit` says that it stops nowhere else. All other runs check
deadlock, with an explicit step of the finished state to itself.

In ParallelProgram a rank's step is weakly fair whenever no implementation may withhold it
(`Certain`): a send that is not yet received need not return, nor a collective that
not all have entered, although both may. So termination does not rest on buffers.

What is assumed of MPI: messages between two ranks in order; a blocking collective
returns when the ranks whose data it needs have called it; a nonblocking barrier
completes when all have entered it. `Write_at_all` waits for nobody, and `Read_at_all`
always for all slaves or always for nobody. With reads that do not wait, the slaves
may call unequally often; a library where some calls wait and others do not could
then leave a slave in its last one, and `AllReturn` does not speak of it. The Python 2
division of the master/slave scripts is taken as it was meant (`nruns/n_slaves` is an
integer); under Python 3 they stop with a TypeError at `range`.

## What is proved

TLAPS checks the theorems below from these assumptions on the constants and no other.
TLC evaluates them on the parameters of every run, the last one on all texts.

| part | assumptions | no bound on |
|---|---|---|
| consensus | `NRepAssumption`, `DrawsAssumption`; in Python also ranks `0..nranks-1` and one repetition | ranks, repetitions, destinations |
| averaging loop | `MaxstepAssumption` | ranks, steps |
| master/slave script | `SlaveAssumption`, `NRunsAssumption`, `LengthAssumption`, `MasterAssumption` | slaves, runs (none included), lengths that fit their slots |
| scripts with rounds | `RoundsAssumption` | slaves, runs, lengths |
| sort | `SortAssumption`: two numbers or more per rank, which `v[0] = v[1]` in the driver needs | ranks, integers, lengths |
| machine | `CodeAssumption`: jumps stay within the text; roots, partners and targets are ranks; requests belong to a group; a collective operation says what it is | texts, ranks |

| theorem | says |
|---|---|
| `Invariance` | `IInv` always holds |
| `Consensus` | no message of a repetition is unreceived when a rank has left it |
| `DriftBound` | a receive takes a message of the same repetition or the next |
| `Refinement` | NonblockingConsensus implements QuiescenceDetection |
| `PyInvariance`, `PyInvAlways` | `PyInv`: every message is either counted or open |
| `ReceivesAll` | a rank that has left the loop has received what each rank sent it |
| `AssertionHolds` | `assert recv_cnt == send_map[rank]` never fails |
| `ListingsForAll` | both listings come out in rank order, and the exchange lies between them but for the first one's last line |
| `AvgInvariance` | `AvgInv`: a rank's step counts its blocking collectives |
| `AllLate` | a rank gives up for lack of time only when all clocks say so |
| `Agree` | ranks leave the averaging loop with the same number of steps, and are never more than a step apart |
| `MSTypes` | types, and the master and a slave take turns in sending (`TakeTurns`) |
| `HeaderBeforeReading` | no rank reads the file before its header is complete |
| `RunsReadBack` | in the end each run has been read once, with the values written for it |
| `UsesOfLoopSeparate` | no message of `write()` is left when a rank goes on to `read()` |
| `IsendsComplete` | a slave's isend is complete when its instructions have come |
| `PoolRefinement` | MasterSlaveIO implements TaskPool, over both uses of the loop |
| `RoundsInvariance` | `RoundsInv` always holds, through the writer job and the reader job |
| `BatchesForAll` | the steps that slaves bring to one round are one batch, each step once |
| `HeaderForAll` | no rank reads the offsets before all lengths are in the file |
| `ReadsForAll` | each run is read by one slave, and the arrays read are the whole data file, whether `Read_at_all` waits or not |
| `DisjointForAll` | a collective write touches nothing that its own or a later round has written |
| `IndexForAll` | no slave reads past the offsets if the padding is one step at most |
| `SortInvariance` | `SortInv` always holds: who has cut what, and that collectives keep ranks together |
| `PiecesForAll` | what any rank cuts for rank `i` lies between pivots `i-1` and `i` of all ranks |
| `SortsForAll` | the data ends up in order across ranks, every number as often as before |
| `DuplicatesForAll` | ranks that compare neighbours find a duplicate exactly if the whole data has one |
| `Separation` | whatever the programs: a rank past a blocking collective of sort "all" has seen every rank enter it, past one of sort "from" its root, as long as a rank is running |
| `PlannedMatch` | if the texts have a plan, the k-th collectives of all ranks match, whoever finds an error of validation |
| `SymmetricForAll` | if a chart of the texts keeps one-sided operations apart from who uses the memory itself, and puts a gate between two uses of a pSync array, symmetric memory is free when it is used |
| `EpochsForAll` | if a chart covers the one-sided operations on windows, every run does, and windows are freed with nothing open |
| `OwnForAll` | if a chart counts the messages of a world and the n-th to a rank fits that rank's n-th receive, each message is received by the receive of its own size and iteration, in every run |
| `TimedForAll` | if a chart shows that a rank which stops the clock waits for nothing, that nobody sends it what it received before receiving what it sent, and that its operations are complete, so it is in every run |
| `NothingLeftForAll` | if a chart has everything received, answered, waited for and closed at the ends of the texts, nothing is left when all ranks have ended, in every run |
| `TypeCorrect` | whatever the programs: the counters of requests count what waits for a counterpart, and never go below zero |
| `Neighbours`, `RingPairs` | in the ring every send meets a receive, at any offset and number of ranks |
| `RingTags` | no two steps or offsets of the ring share a tag |
| `ReadersShare` | every part of a file is read in exactly one step by exactly one reader, for any numbers of writers and readers |

The argument. `NoSendOutlivesRepetition` is not inductive: whether a rank may
leave depends on what the others did to enter the barrier. `IInv` adds the two
facts it rests on. `LocalInv`: a rank in the barrier, or outside the loop, has no open
send. `BarrierInv`: a rank that has left repetition `k` has seen every rank enter the
barrier of `k`. If `r` is ahead of `s`, then by `BarrierInv` `s` is one behind at most
and in the barrier, so by `LocalInv` it has no open send (`DriftLemma`); consensus,
drift and refinement follow. For the Python program, `Accounting` says that what is
received and what is open add up to what is sent, source by source, once the sender
has begun. A rank that has left the loop finds the open part zero by the consensus.
The two print loops are one algorithm, so `Listing` takes its variables as parameters
(`LoopsAreListings`): nobody is past a barrier of the loop to which some rank has not
come, and a rank's line is out iff it has had its turn (`TurnKeepsListing`). `Frame`
says where in the script a rank can be while it is in either loop.

In the averaging loop the calls of two ranks need not match (`CollectivesMatch`), but
those that have returned do: `PastInv`. `KindInv` says which calls are which: a rank's
calls are all of `MPI_Alltoall` up to its last step, and that one too while it is in
the loop. If a rank left in step `s` and another had gone further, the call number
`s` would have returned to the other one as `MPI_Alltoall` and be `MPI_Allreduce`
on the first (`LeaveLemma`). `LateInv` relates the barrier to the clocks.

For the master/slave script the invariant is `MSIInv`. `Places` says where a slave is
and that one message at most is between it and the master, so that what it owes
(`Owed`) can be read off (`OwedLemma`); `Sharing`, that each step handed out is owed by
one slave or caught; `Loop`, that the master counts the slaves it has stopped. When it
has stopped all of them nobody owes anything, so all is caught (`AllCaught`): that is
why the header is complete and why nothing is left for `read()`. The two uses of the
loop overlap, as the ranks pass the barrier one by one: `Phases` says that a slave
that is ahead of the master has only asked for work. `Stored` ties the file to the
messages: the array of a step is in its place as soon as the step's result exists
(`Held`), and no later write touches it, since places are disjoint and behind the header
(`Regions`, the only arithmetic). There is a lemma for each step of the loop, which
knows nothing of the file (`DispatchKeeps` to `WorkDoneKeeps`), and one for each action
(`DispatchInv` to `MasterReadsInv`), which also say what the pool sees of it.

For the scripts with rounds the invariant is `RoundsInv`. The loop part (`Dispatching`) is
as above. `Batches` says that the `r`-th step a slave gets is of batch `r`. That is
counting: a slave that asks for more has ended all its rounds, so all slaves have
joined these rounds (`Lockstep`); if the master handed it a step of a later batch, the
batch in between would be full with one slave missing from it. `Offset` says that slaves
that have ended equally many rounds have the same `last_offset`, and one that is a round
ahead has it larger by the sizes of that round. With it the places of one round lie one
behind the other (`BlocksInOrder`) and those of a round behind begin where the last
began or later; `Stored` ties each place to the round that wrote it last. That units are mixed in
`last_offset` (RoundsLayout) is not in the way: they are mixed alike on all slaves.
In the reader, `Reads` says that no two slaves have the same step ahead of them (`Ahead`,
`Apart`), and that the arrays read so far are those of the steps handed out that are ahead
of nobody (`ReadSoFar`); when all have returned, these are all. Nothing in it speaks of
the number of calls, so the reads need not keep the slaves together.
The premise of `IndexForAll` is what RoundsPadding lacks, where two padded steps fail.

For the sort the invariant `SortInv` is simple, as nothing is sent but at collectives: by
its `pc` a rank has sampled, cut its input at `Pivots`, sorted `Received`, compared. The
work is in the operators. `Partitions`: with every `Turn` the numbers before `first` are
below the pivot and those from there to the loop's place are not; numbers only move
(`Rearranged`, by bijections). `CutInPieces`: the pivots ascend (`PivotsAscend`), so what
was cut stays cut, and the pieces are the array. A number belongs to one piece
(`OnePiece`, `SomePiece`), whatever rank it is on, so that its rank receives all copies
(`ReceivedHasAll`, adding occurrences over the ranks). `Sorts`: the `k`-th number, as
`qsort` chooses it, exists because ranking the places by value and then by place is a
bijection (`Ranked`). In sorted data equal numbers are neighbours (`Neighbours`).

Induction over numbers is done by hand where the operators need it: the prover cannot
use a theorem on induction with a predicate for a parameter, but it can take the least
element of a set of counterexamples (`Minimum`, `Induction` in OffsetsProof), and a
loop, a recursive function, is shown to exist and to keep what each turn keeps in
two lemmas for all of them (`LoopExists`, `LoopKeeps`).

For the machine, `Separated` is inductive only with `SepIInv`: the entries in `calls` point to
collective instructions of the rank's text (`Recorded`), a rank `inside` an operation
is at the instruction it has recorded last (`Busy`), and types. Most steps change
neither `calls` nor what a rank is inside of and are settled by one lemma
(`AsideKeeps`); entering only adds to what others have seen (`EnterSeparated`);
leaving is where `MayReturn` gives the conclusion (`LeaveSteps`).

That the k-th collectives of two ranks are the same one (`CollectivesMatch`) depends on
the texts. `Planned` is what it takes: at each place of its text a rank, knowing of an
error or not, has a number for the collective it comes to next; operations of one
number are the same and lead on to one number; where that number depends on errors
they are `agreed`, which they are from an allreduce or broadcast of errors up to
anything that changes them on one rank. It speaks of the texts of two ranks,
never of their steps. `PlanInv` carries it over to the steps. `Numbered`: the k-th
operations of all ranks have one number. `Ways`: a rank is on its way from
its last operation to the number that one has sent it to, and so it was for each operation
before; its history is needed as the others may be operations behind. `Unanimous`: where
errors are agreed after the k-th operation, the verdicts of all who have entered it are
the same. The verdict of an allreduce is what any rank came with, and may
still grow until all have entered; only here is `Separation` needed, as nobody
leaves before that (`VerdictStays`). `Kept`: inside an operation a rank
knows what it came with. A rank that enters its k-th operation then comes with the number
that others have (`SameWay`), and operations of one number are alike (`AlikeLemma`).
The premise is not empty: by `TextsKept` there is a plan for all worlds but three (`osu_latency`
and `osu_bw` with `--validation`, where a message tells of the error).

What a rank does to its operations, epochs and locks depends on its own text alone
(`MovesIdle`, `MovesMemory`, `EnterMemory`), so a chart that follows the text says what it
has (`Fitting`), and `EpochsForAll` follows. Symmetric memory
is about two ranks: when one clears a flag, no other may have a put on it in flight,
wherever that other is. `Counting` says where it can be: a rank has entered as many
collectives as its chart counts, and everyone has entered those up to its gate, since
it returned from that one only when all were in. So if one rank is at `p` and another at
`m`, neither place lies behind a gate that the other has not come to (`Meet`), and it is
enough to look at such places (`InFlight`; a rank inside a gate counts as before it or
behind it, by what the first has entered). For a pSync array, a gate lies between
two uses of it, so everyone has left the earlier one (`SyncFree`). The conditions compare
places of texts and never mention a step. By `TextsKept` they hold for all 196
worlds. The inductive invariant is `ChartInv` (`ChartHolds`); the one for messages below,
which rests on it, is `TalkInv` (`TalkHolds`).

Messages are in the way of a direct argument by what a queue does: a send or receive may
wait in it for long, is matched by tag and not by iteration, and other messages of the
same tag come behind it. `Queued` describes a queue by two numbers only: if `s` messages
have been sent and `n` receives called, `s - n` messages wait, or `n - s` receives, and
they are the next by number. `Exchanging` says that this is so with the numbers that
the chart has for the places of the two ranks. Since the n-th message of a pair and its
n-th receive carry the same (`Conversing`), whoever comes second finds its counterpart at the
head of the queue (`QueueMeets`), so tags never choose, and `OwnForAll` follows. One thing
stands against counting by places: after an error of validation a rank leaves the loop, at a
place that others come to with all messages exchanged. Such places are not `plain`; the
chart does not count there, no messages follow, and the numbers of a rank are those of some
plain place, its anchor (`Anchors`). A rank inside a blocking send or receive counts
as one that has called it.

For `TimedForAll` the queue from `r` to `q` must be empty where `r` stops the clock,
wherever `q` is. What `r` has called receives for has come (`Awaiting`: a receive in a queue
belongs to a group that the chart has open, and none is). So `q` has sent at
least as much as `r` has received, and `Answered` compares places: any place of `q` where
it has sent so much has received all that `r` has sent. That is how the replies of
`osu_bw` and the pong of `osu_latency` work, and why a benchmark that stopped the clock before
the reply would fail. For `NothingLeftForAll` the ranks are at their ends (`InPlace`), the
numbers agree there, and two queues of equal numbers are empty. The tokens of
posts and completions are the differences of what two ranks have called (`Answering`); as
a token is counted at two ranks, the invariant speaks of both places.

For `TypeCorrect` the hard part is that `pend`, the counters on which `Waitall` waits,
are natural numbers. `Tallied` says that each counts the sends and receives of its
group that still wait for a counterpart (`Row`, `Column`): a match takes one away on
either side, and counts for the group of both. Taking the first match out of a queue
moves the places behind it, a bijection (`RemoveMarks`). A send that is matched at once
was counted by nobody, so its own counter must not be touched; that of the receive must,
on whichever rank it is.

The theorems on the ring and the readers are arithmetic, of division and remainder.

Only model-checked: all liveness properties (TLAPS has no support for ENABLED and
fairness); that the programs have plans and charts, for which TLC evaluates their texts at
the bounds above (`TextsKept`); `CollectivesMatch` for the three worlds without a plan; and
`NothingLeft` for the seven that are not `Concluded`.

## What is not modelled

- Timers, formatting, buffer contents, host names, memory allocation failures
  (`MPI_Abort`), accelerators, derived datatypes, the order in which lines of different
  ranks reach a terminal. A run's array in the master/slave scripts is represented
  by the step it belongs to and its length.
- `osu_latency_mt.c`: several threads in a rank, with locks of their own; the machine has
  one control flow per rank.
- `osu_multi_lat.py`: `pairs = nprocs/2` is a float under Python 3, and
  no number of a rank.
- What the options do before `MPI_Init` and the output after it (`osu_util.c`,
  `osu_util_graph.c`, `process_cmdline.C`): the models start from a command line that is
  accepted or refused on all ranks alike.
- The benchmarks in Java and Python under `osu-benchmarks/`: the same loops as in C.
- `test_io.C` and its Fortran sibling: one rank, one file, libraries for the formats.
- The algorithm of `parallel_sort_mpl.C`: that of `parallel_sort.c` on the library MPL.
- Libraries, examples and tests of other projects.

## Open ends

1. Threads in a rank, for `osu_latency_mt.c`.
2. Bytes of the collective file scripts: header and blocks do not overlap.
3. Proofs: plans that also follow errors told by message (`osu_latency`, `osu_bw`), and
   that the texts have a plan and a chart for every number of sizes and iterations.
4. Proofs: `NothingLeft` where an error skips messages, as both ranks then skip the same.
