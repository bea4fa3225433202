--------------------------- MODULE OsuCollective ---------------------------
(* The collective benchmarks of osu-benchmarks/c/mpi/collective, and those *)
(* of c/mpi/startup.                                                       *)
EXTENDS ProgramText

Barriers(n, at) == Again(n, <<Barrier(at)>>)
Statistics(at) == <<Reduce("MIN", at), Reduce("MAX", at), Reduce("SUM", at)>>

(* With --validation: the warm-ups of an iteration. *)
Warm(w, call, at) ==
  If(w.v, Again(Warmups, <<Barrier(at)>> \o call) \o <<Barrier(at)>>)

(* The barriers of a blocking benchmark: before the iterations of a size,  *)
(* after them, and after the statistics.                                   *)
Shape(opening, closing, last) ==
  [opening |-> opening, closing |-> closing, last |-> last]

(* A blocking benchmark of the operation op; the ranks of "checkers"       *)
(* compare what it left in their buffers.                                  *)
Measured(w, r, op, sort, shape, checkers) ==
  For(NSizes, LAMBDA s :
    Barriers(shape.opening, Before(s)) \o
    For(NIterations, LAMBDA i :
      Warm(w, <<Collective(op, sort, <<s, i>>)>>, <<s, i>>) \o
      <<Collective(op, sort, <<s, i>>), Barrier(<<s, i>>)>> \o
      If(w.v /\ r \in checkers, <<Validate>>)) \o
    Barriers(shape.closing, After(s)) \o
    Statistics(After(s)) \o
    If(w.v, <<AllreduceErrors(After(s))>>) \o
    Barriers(shape.last, After(s)) \o
    If(w.v, <<Break>>))

Blocking(w, op, sort, shape, checkers) ==
  Main(w, w.n >= 2, LAMBDA r : Measured(w, r, op, sort, shape, checkers))

OsuAllgather(w) == Blocking(w, "Allgather", "all", Shape(1, 1, 1), Ranks(w))
OsuAllgatherv(w) == Blocking(w, "Allgatherv", "all", Shape(2, 1, 1), Ranks(w))
OsuAllreduce(w) == Blocking(w, "Allreduce", "all", Shape(1, 0, 1), Ranks(w))
OsuAlltoall(w) == Blocking(w, "Alltoall", "all", Shape(1, 0, 1), Ranks(w))
OsuAlltoallw(w) == Blocking(w, "Alltoallw", "all", Shape(1, 0, 1), Ranks(w))
OsuBcast(w) == Blocking(w, "Bcast", "from", Shape(0, 1, 0), Ranks(w))
OsuGather(w) == Blocking(w, "Gather", "to", Shape(1, 0, 1), {0})
OsuGatherv(w) == Blocking(w, "Gatherv", "to", Shape(2, 1, 1), {0})
OsuReduceScatter(w) == Blocking(w, "Reduce_scatter", "all", Shape(1, 0, 1), Ranks(w))
OsuScatter(w) == Blocking(w, "Scatter", "from", Shape(1, 0, 1), Ranks(w))
OsuScatterv(w) == Blocking(w, "Scatterv", "from", Shape(2, 0, 1), Ranks(w))

OsuAlltoallv(w) == Main(w, w.n >= 2, LAMBDA r :
  <<Barrier(<<0, 0>>)>> \o
  Measured(w, r, "Alltoallv", "all", Shape(1, 0, 1), Ranks(w)))

(* osu_reduce has its barrier before the timed call, not after it.         *)
OsuReduce(w) == Main(w, w.n >= 2, LAMBDA r :
  For(NSizes, LAMBDA s :
    <<Barrier(Before(s))>> \o
    For(NIterations, LAMBDA i :
      If(w.v, Again(Warmups, <<Barrier(<<s, i>>), Reduce("SUM", <<s, i>>)>>)) \o
      <<Barrier(<<s, i>>), Reduce("SUM", <<s, i>>)>> \o
      If(w.v /\ r = 0, <<Validate>>)) \o
    Statistics(After(s)) \o
    If(w.v, <<AllreduceErrors(After(s))>>) \o
    <<Barrier(After(s))>> \o If(w.v, <<Break>>)))

OsuBarrier(w) == Main(w, w.n >= 2, LAMBDA r :
  For(NIterations, LAMBDA i : <<Barrier(<<1, i>>)>>) \o
  <<Barrier(After(1))>> \o Statistics(After(1)))

(* osu_init times MPI_Init, osu_hello does nothing more.                   *)
OsuInit(w) == Main(w, TRUE, LAMBDA r : Statistics(<<0, 0>>))
OsuHello(w) == Main(w, TRUE, LAMBDA r : <<>>)

---------------------------------------------------------------------------
(* Nonblocking collective operations: first alone, then with computation   *)
(* between the start and the wait, polled by MPI_Test.                     *)
Started(op, sort, at) == Nonblocking(Collective(op, sort, at))
AtOnce(op, sort, at) == <<Started(op, sort, at), WaitCollective>>
DoComputeAndProbe == Again(Probes, <<TestCollective>>)

\* Mutant: the root leaves out the barrier after its statistics.
CalculateAndPrintStatsRootAhead(r, at) ==
  Again(8, <<Reduce("SUM", at)>>) \o If(r # 0, <<Barrier(at)>>)

(* The root reduces with MAX while the others reduce with MIN, and the     *)
(* other way round.                                                        *)
CalculateAndPrintStats(r, at) ==
  Again(6, <<Reduce("SUM", at)>>) \o
  (IF r = 0 THEN <<Reduce("MAX", at), Reduce("MIN", at)>>
   ELSE <<Reduce("MIN", at), Reduce("MAX", at)>>) \o
  <<Barrier(at)>>

(* How the nonblocking benchmarks differ: barriers before a size and       *)
(* between its two loops, whether errors are exchanged there too, and      *)
(* before the last barrier or after it.                                    *)
Layout(opening, early, middle, errorsFirst) ==
  [opening |-> opening, early |-> early, middle |-> middle, errorsFirst |-> errorsFirst]

Repeated(w, r, op, sort, s, from, between, checkers) ==
  For(NIterations, LAMBDA i :
    Warm(w, AtOnce(op, sort, <<s, from + i>>), <<s, from + i>>) \o
    <<Started(op, sort, <<s, from + i>>)>> \o between \o
    <<WaitCollective, Barrier(<<s, from + i>>)>> \o
    If(w.v /\ r \in checkers, <<Validate>>))

Overlapped(w, op, sort, layout, firstCheckers, checkers) ==
  Main(w, w.n >= 2, LAMBDA r :
    For(NSizes, LAMBDA s :
      Barriers(layout.opening, Before(s)) \o
      Repeated(w, r, op, sort, s, 0, <<>>, firstCheckers) \o
      <<Barrier(After(s))>> \o
      If(w.v /\ layout.early, <<AllreduceErrors(After(s))>>) \o
      Barriers(layout.middle, After(s)) \o
      Repeated(w, r, op, sort, s, NIterations, DoComputeAndProbe, checkers) \o
      (IF layout.errorsFirst
       THEN If(w.v, <<AllreduceErrors(After(s))>>) \o <<Barrier(After(s))>>
       ELSE <<Barrier(After(s))>> \o If(w.v, <<AllreduceErrors(After(s))>>)) \o
      CalculateAndPrintStats(r, After(s)) \o
      If(w.v, <<Break>>)))

OsuIallgather(w) ==
  Overlapped(w, "Allgather", "all", Layout(1, FALSE, 1, FALSE), Ranks(w), Ranks(w))
OsuIallgatherv(w) ==
  Overlapped(w, "Allgatherv", "all", Layout(2, TRUE, 1, TRUE), Ranks(w), Ranks(w))
OsuIallreduce(w) ==
  Overlapped(w, "Allreduce", "all", Layout(1, FALSE, 1, FALSE), Ranks(w), Ranks(w))
OsuIalltoall(w) ==
  Overlapped(w, "Alltoall", "all", Layout(1, FALSE, 1, FALSE), Ranks(w), Ranks(w))
OsuIalltoallv(w) ==
  Overlapped(w, "Alltoallv", "all", Layout(1, FALSE, 1, FALSE), Ranks(w), Ranks(w))
OsuIalltoallw(w) ==
  Overlapped(w, "Alltoallw", "all", Layout(1, FALSE, 1, FALSE), Ranks(w), Ranks(w))
OsuIbcast(w) ==
  Overlapped(w, "Bcast", "from", Layout(0, FALSE, 1, FALSE), {0}, Ranks(w))
OsuIgather(w) ==
  Overlapped(w, "Gather", "to", Layout(0, TRUE, 1, FALSE), {0}, {0})
OsuIgatherv(w) ==
  Overlapped(w, "Gatherv", "to", Layout(2, TRUE, 2, TRUE), {0}, {0})
OsuIreduce(w) ==
  Overlapped(w, "Reduce", "to", Layout(1, FALSE, 1, FALSE), {0}, {0})
OsuIscatter(w) ==
  Overlapped(w, "Scatter", "from", Layout(0, FALSE, 1, TRUE), Ranks(w), Ranks(w))
OsuIscatterv(w) ==
  Overlapped(w, "Scatterv", "from", Layout(1, TRUE, 1, TRUE), Ranks(w), Ranks(w))

OsuIbarrier(w) == Main(w, w.n >= 2, LAMBDA r :
  For(NIterations, LAMBDA i : AtOnce("Barrier", "all", <<1, i>>)) \o
  Barriers(2, After(1)) \o
  For(NIterations, LAMBDA i :
    <<Started("Barrier", "all", <<1, i>>)>> \o DoComputeAndProbe \o
    <<WaitCollective, Barrier(<<1, i>>)>>) \o
  <<Barrier(After(1))>> \o CalculateAndPrintStats(r, After(1)))
=============================================================================
