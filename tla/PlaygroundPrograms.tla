------------------------- MODULE PlaygroundPrograms -------------------------
(* The small programs of the repository itself, in C++ and Python, that    *)
(* have no module of their own.                                            *)
EXTENDS OsuPt2pt

(* one_sided.C: everyone puts its rank to everyone, itself included; then  *)
(* the ranks print one after the other.                                    *)
OneSidedDemo(w) == Main(w, TRUE, LAMBDA r :
  <<WinCreate(<<0, 0>>), Fence(<<0, 1>>)>> \o
  For(w.n, LAMBDA proc : <<Rma("put", proc - 1)>>) \o
  <<Fence(<<0, 2>>)>> \o
  For(w.n, LAMBDA proc : <<Barrier(<<1, proc>>)>>) \o
  <<WinFree(<<2, 0>>)>>)

\* Mutant: without MPI_Wait.
IbarrierDemoNoWait(w) == Main(w, TRUE, LAMBDA r : <<Nonblocking(Barrier(<<0, 0>>))>>)
IbarrierDemo(w) == Main(w, TRUE, LAMBDA r :
  <<Nonblocking(Barrier(<<0, 0>>)), WaitCollective>>)

(* abort.C: without the abort the others would wait in the barrier for     *)
(* ever; nobody gets to MPI_Finalize.                                      *)
AbortDemo(w) == [r \in Ranks(w) |-> If(r = 0, <<Abort>>) \o <<Barrier(<<0, 0>>)>>]

(* alltoall.C: printing in turns around the repetitions.                   *)
AlltoallDemo(w) == Main(w, TRUE, LAMBDA r :
  For(w.n, LAMBDA proc : <<Barrier(<<1, proc>>)>>) \o
  For(NIterations, LAMBDA cnt : <<Collective("Alltoall", "all", <<2, cnt>>)>>) \o
  For(w.n, LAMBDA proc : <<Barrier(<<3, proc>>)>>))

---------------------------------------------------------------------------
(* round_robin_pt2pt.C: at offset rc of the ring every rank exchanges with *)
(* the rank rc above it and the rank rc below it: itself at offset 0, and  *)
(* one rank twice halfway round.                                           *)
ProcUp(w, r, rc) == (w.n + r + rc) % w.n
ProcDn(w, r, rc) == (w.n + r - rc) % w.n

RingStep(w, r, rc, step) ==
  LET up == ProcUp(w, r, rc)
      dn == ProcDn(w, r, rc)
      tag == step * w.n + rc
      at == <<rc, step>>
  IN  <<Isend(up, tag, at), Isend(dn, tag, at), Irecv(dn, tag, at), Irecv(up, tag, at),
        Waitany("recv", 1), Waitall("recv"), Waitall("send"), Lapse>>

RoundRobin(w) == Main(w, TRUE, LAMBDA r :
  <<Collective("Comm_split_type", "all", <<0, 0>>), Collective("Allgather", "all", <<0, 1>>),
    Collective("Allgather", "all", <<0, 2>>)>> \o
  For(w.n, LAMBDA rc :
    <<Barrier(<<rc, 0>>)>> \o
    For(NIterations, LAMBDA step : RingStep(w, r, rc - 1, step - 1))) \o
  <<Collective("Allgather", "all", <<0, 3>>),
    [Collective("Allreduce", "all", <<0, 4>>) EXCEPT !.reduction = "MAX"]>>)

---------------------------------------------------------------------------
(* parallel_sort_mpl.C: two gatherings, the exchange, a listing in turns.  *)
(* What it sorts is abstracted; ParallelSort has the algorithm.            *)
ParallelSortMpl(w) == Main(w, TRUE, LAMBDA r :
  <<Collective("Allgather", "all", <<0, 1>>), Collective("Allgather", "all", <<0, 2>>),
    Collective("Alltoallv", "all", <<0, 3>>)>> \o
  For(w.n, LAMBDA proc : <<Barrier(<<1, proc>>)>>) \o
  <<[Collective("Allreduce", "all", <<2, 0>>) EXCEPT !.reduction = "MAX"]>>)

---------------------------------------------------------------------------
(* mpi_io_collective_write.py and _read.py: the steps in which "ranks"     *)
(* readers read what "written" ranks wrote, and whose part a reader reads  *)
(* in a step.  Collective file access need not wait for the other ranks.   *)
NSteps(ranks, written) == IF written <= ranks THEN 1 ELSE 1 + written \div ranks
StepRank(ranks, rstep, rank) == rstep * ranks + rank

CollectiveWrite(w) == Main(w, TRUE, LAMBDA r :
  <<Collective("File_open", "none", <<0, 0>>), Collective("Allgather", "all", <<0, 1>>),
    Collective("Preallocate", "none", <<0, 2>>), Collective("Write_at_all", "none", <<0, 3>>),
    Collective("File_close", "none", <<0, 4>>)>>)

CollectiveRead(w, written) == Main(w, TRUE, LAMBDA r :
  <<Collective("File_open", "none", <<0, 0>>), Collective("Read_all", "none", <<0, 1>>),
    Collective("Read_all", "none", <<0, 2>>)>> \o
  For(NSteps(w.n, written), LAMBDA rstep : <<Collective("Read_at_all", "none", <<1, rstep>>)>>) \o
  <<Collective("File_close", "none", <<0, 4>>)>>)

---------------------------------------------------------------------------
(* The benchmarks of src/mpi4py, after an older version of the suite in C: *)
(* no statistics, no validation, no barrier after an iteration.            *)
PyCollective(w, enough, op, sort) == Main(w, enough, LAMBDA r :
  For(NSizes, LAMBDA s :
    <<Barrier(Before(s))>> \o
    For(NIterations, LAMBDA i : <<Collective(op, sort, <<s, i>>)>>) \o
    <<Barrier(After(s))>>))

PyAllgather(w) == PyCollective(w, w.n >= 2, "Allgather", "all")
PyAlltoall(w) == PyCollective(w, TRUE, "Alltoall", "all")
PyAlltoallv(w) == PyCollective(w, TRUE, "Alltoallv", "all")
PyBcast(w) == PyCollective(w, w.n >= 2, "Bcast", "from")
PyGather(w) == PyCollective(w, w.n >= 2, "Gather", "to")
PyScatter(w) == PyCollective(w, w.n >= 2, "Scatter", "from")

PyBarrier(w) == Main(w, w.n >= 2, LAMBDA r :
  <<Barrier(Before(1))>> \o
  For(NIterations, LAMBDA i : <<Barrier(<<1, i>>)>>) \o <<Barrier(After(1))>>)

PyPt2pt(w, Iteration(_, _)) == Main(w, w.n = 2, LAMBDA r :
  For(NSizes, LAMBDA s :
    <<Barrier(Before(s))>> \o For(NIterations, LAMBDA i : Iteration(r, <<s, i>>)) \o
    If(r = 0, <<Stop>>)))

PyLatency(w) == PyPt2pt(w, LAMBDA r, at :
  IF r = 0 THEN Ask(1, at, FALSE) ELSE Answer(0, at))
PyBw(w) == PyPt2pt(w, LAMBDA r, at : IF r = 0 THEN Push(1, at, FALSE) ELSE Pull(0, at))
PyBibw(w) == PyPt2pt(w, LAMBDA r, at :
  (IF r = 0 THEN Drain(1, 10, at) \o Fill(1, 100, at)
   ELSE Drain(0, 100, at) \o Fill(0, 10, at)) \o
  <<Waitall("send"), Waitall("recv")>>)

---------------------------------------------------------------------------
(* The demos of src/mpi4py. *)
PyBcastDemo(w) == Main(w, TRUE, LAMBDA r : <<Collective("bcast", "from", <<0, 0>>)>>)
PyIallreduceDemo(w) == Main(w, TRUE, LAMBDA r :
  <<Nonblocking(Collective("Iallreduce", "all", <<0, 0>>)), WaitCollective>>)

(* nb.py and pt2pt.py: rank 0 to rank 1, whatever other ranks there are.   *)
PyMessageDemo(w) == Main(w, TRUE, LAMBDA r :
  CASE r = 0 -> <<Isend(1, 11, <<0, 0>>), Waitall("send")>>
    [] r = 1 -> <<Irecv(0, 11, <<0, 0>>), Waitall("recv")>>
    [] OTHER -> <<>>)
=============================================================================
