------------------------------- MODULE OsuUpc -------------------------------
(* The UPC and UPC++ benchmarks of osu-benchmarks/c/upc and c/upcxx.       *)
EXTENDS ProgramText

(* upc_barrier completes the accesses to shared memory before it; the      *)
(* collective operations are called with UPC_IN_ALLSYNC, UPC_OUT_ALLSYNC.  *)
AllSync(op, at) == [Collective(op, "all", at) EXCEPT !.quiet = TRUE]
UpcBarrier(at) == AllSync("upc_barrier", at)
ReduceD(at) == AllSync("reduceD", at)

UpcCollective(w, op, opening, inside, closing) == Main(w, w.n >= 2, LAMBDA r :
  Again(opening, <<UpcBarrier(<<0, 0>>)>>) \o
  For(NSizes, LAMBDA s :
    For(NIterations, LAMBDA i :
      Again(inside, <<UpcBarrier(<<s, i>>)>>) \o
      <<AllSync(op, <<s, i>>), UpcBarrier(<<s, i>>)>>) \o
    <<UpcBarrier(After(s))>> \o Again(3, <<ReduceD(After(s))>>)) \o
  Again(closing, <<UpcBarrier(<<0, 1>>)>>))

OsuUpcBroadcast(w) == UpcCollective(w, "broadcast", 0, 0, 0)
OsuUpcExchange(w) == UpcCollective(w, "exchange", 1, 0, 1)
OsuUpcGather(w) == UpcCollective(w, "gather", 1, 0, 0)
OsuUpcGatherAll(w) == UpcCollective(w, "gather_all", 1, 0, 1)
OsuUpcReduce(w) == UpcCollective(w, "reduceC", 0, 1, 0)
OsuUpcScatter(w) == UpcCollective(w, "scatter", 0, 0, 0)

OsuUpcBarrier(w) == Main(w, w.n >= 2, LAMBDA r :
  <<UpcBarrier(<<0, 0>>)>> \o
  For(NIterations, LAMBDA i : <<UpcBarrier(<<1, i>>)>>) \o
  <<UpcBarrier(After(1))>> \o Again(3, <<ReduceD(After(1))>>) \o <<UpcBarrier(<<0, 1>>)>>)

---------------------------------------------------------------------------
(* The lower half of the threads works on the memory of the upper half.    *)
(* In the middle of its iterations, when the clock starts, a sender waits  *)
(* in the barrier the receivers are in already.                            *)
Sends(w, r) == r < w.n \div 2
PeerId(w, r) == (r + w.n \div 2) % w.n

Clock(s) == <<s, NSkips, 0>>

UpcOneSided(w, Transfer(_)) == Main(w, w.n # 1, LAMBDA r :
  For(NSizes, LAMBDA s :
    <<UpcBarrier(Before(s))>> \o
    IF Sends(w, r)
    THEN For(NIterations, LAMBDA i :
           If(i = NSkips + 1, <<UpcBarrier(Clock(s))>>) \o Transfer(PeerId(w, r))) \o
         <<UpcBarrier(After(s)), Stop>>
    ELSE <<UpcBarrier(Clock(s)), UpcBarrier(After(s))>>))

OsuUpcMemput(w) ==
  UpcOneSided(w, LAMBDA peer : <<Remote("put", peer), Quiet(Ranks(w))>>)
OsuUpcMemget(w) == UpcOneSided(w, RemoteFetch)

---------------------------------------------------------------------------
(* UPC++: the barrier of its library completes nothing by itself.          *)
UpcxxReduce(reduction, at) ==
  [Collective("upcxx_reduce", "to", at) EXCEPT !.reduction = reduction]

UpcxxCollective(w, op, sort, reduction) == Main(w, w.n >= 2, LAMBDA r :
  <<Barrier(<<0, 0>>)>> \o
  For(NSizes, LAMBDA s :
    For(NIterations, LAMBDA i :
      <<[Collective(op, sort, <<s, i>>) EXCEPT !.reduction = reduction],
        Barrier(<<s, i>>)>>) \o
    <<Barrier(After(s)), UpcxxReduce("MAX", After(s)), UpcxxReduce("MIN", After(s)),
      UpcxxReduce("SUM", After(s)), Barrier(After(s))>>))

OsuUpcxxAllgather(w) == UpcxxCollective(w, "upcxx_allgather", "all", "")
OsuUpcxxAlltoall(w) == UpcxxCollective(w, "upcxx_alltoall", "all", "")
OsuUpcxxBcast(w) == UpcxxCollective(w, "upcxx_bcast", "from", "")
OsuUpcxxGather(w) == UpcxxCollective(w, "upcxx_gather", "to", "")
OsuUpcxxReduce(w) == UpcxxCollective(w, "upcxx_reduce", "to", "SUM")
OsuUpcxxScatter(w) == UpcxxCollective(w, "upcxx_scatter", "from", "")

(* Only async_wait() completes the copies; the memory a thread writes at   *)
(* the next size is the target, or the source, of those of its peer.       *)
UpcxxAsyncCopy(w, kind) == Main(w, w.n # 1, LAMBDA r :
  <<Barrier(<<0, 0>>), Barrier(<<0, 0>>)>> \o
  For(NSizes, LAMBDA s :
    <<Touch, Barrier(Before(s))>> \o
    IF Sends(w, r)
    THEN For(NIterations, LAMBDA i :
           If(i = NSkips + 1, <<Barrier(Clock(s))>>) \o
           <<Remote(kind, PeerId(w, r))>>) \o
         <<Quiet(Ranks(w)), Barrier(After(s)), Stop>>
    ELSE <<Barrier(Clock(s)), Barrier(After(s))>>) \o
  <<Barrier(<<0, 1>>)>>)

OsuUpcxxAsyncCopyPut(w) == UpcxxAsyncCopy(w, "put")
OsuUpcxxAsyncCopyGet(w) == UpcxxAsyncCopy(w, "get")
=============================================================================
