---------------------------- MODULE OsuNccl -------------------------------
(* The NCCL benchmarks of osu-benchmarks/c/nccl.                           *)
EXTENDS OsuPt2pt, OsuCollective

(* The unique id of the communicator is broadcast by MPI.                  *)
CreateNcclComm == Collective("Bcast", "from", <<0, 0>>)

(* An operation is followed by a synchronisation of its stream.  Only      *)
(* osu_nccl_alltoall stops at an error.                                    *)
OverNccl(w, op, sort, closing, checkers) == Main(w, w.n >= 2, LAMBDA r :
  <<CreateNcclComm>> \o
  For(NSizes, LAMBDA s :
    <<Barrier(Before(s))>> \o
    For(NIterations, LAMBDA i :
      If(w.v /\ checkers # {}, <<Barrier(<<s, i>>)>>) \o
      <<Collective(op, sort, <<s, i>>)>> \o
      If(w.v /\ r \in checkers, <<Validate>>) \o
      <<Barrier(<<s, i>>)>>) \o
    Barriers(closing, After(s)) \o Statistics(After(s)) \o <<Barrier(After(s))>>))

OsuNcclAllgather(w) == OverNccl(w, "ncclAllGather", "all", 1, {})
OsuNcclAllreduce(w) == OverNccl(w, "ncclAllReduce", "all", 1, Ranks(w))
OsuNcclBcast(w) == OverNccl(w, "ncclBroadcast", "from", 1, {})
OsuNcclReduce(w) == OverNccl(w, "ncclReduce", "to", 1, {0})
OsuNcclReduceScatter(w) == OverNccl(w, "ncclReduceScatter", "all", 0, {})

(* A group of sends and receives, synchronised as one operation.           *)
OsuNcclAlltoall(w) == Main(w, w.n >= 2, LAMBDA r :
  <<CreateNcclComm>> \o
  Measured(w, r, "ncclGroup", "all", Shape(1, 0, 1), Ranks(w)))

---------------------------------------------------------------------------
(* Point to point: messages without tags.  A send or receive followed by   *)
(* a synchronisation blocks.                                               *)
OsuNcclLatency(w) == Main(w, w.n = 2, LAMBDA r :
  <<CreateNcclComm>> \o
  For(NSizes, LAMBDA s :
    <<Barrier(Before(s))>> \o
    For(NIterations, LAMBDA i :
      IF r = 0 THEN Ask(1, <<s, i>>, FALSE) ELSE Answer(0, <<s, i>>)) \o
    If(r = 0, <<Stop>>)))

(* The window is synchronised, the reply is not; no barrier either.        *)
OsuNcclBw(w) == Main(w, w.n = 2, LAMBDA r :
  <<CreateNcclComm>> \o
  For(NSizes, LAMBDA s :
    For(NIterations, LAMBDA i :
      IF r = 0
      THEN Fill(1, 0, <<s, i>>) \o
           <<Waitall("send"), Waitall("recv"), Irecv(1, 0, <<s, i>>)>>
      ELSE Drain(0, 0, <<s, i>>) \o
           <<Waitall("recv"), Waitall("send"), Isend(0, 0, <<s, i>>)>>) \o
    If(r = 0, <<Lapse>>)))

OsuNcclBibw(w) == Main(w, w.n = 2, LAMBDA r :
  <<CreateNcclComm>> \o
  For(NSizes, LAMBDA s :
    For(NIterations, LAMBDA i :
      Drain(1 - r, 0, <<s, i>>) \o Fill(1 - r, 0, <<s, i>>) \o
      <<Waitall("send"), Waitall("recv")>>) \o
    If(r = 0, <<Stop>>)))
=============================================================================
