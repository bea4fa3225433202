---------------------------- MODULE OsuOpenShmem ----------------------------
(* The OpenSHMEM benchmarks of osu-benchmarks/c/openshmem.                 *)
EXTENDS ProgramText

(* One PE puts to or gets from another, which only takes part in the       *)
(* barriers.                                                               *)
OneToAnother(w, operations) == Main(w, w.n = 2, LAMBDA r :
  For(NSizes, LAMBDA s :
    <<Touch, BarrierAll(Before(s))>> \o
    If(r = 0, operations) \o
    <<BarrierAll(After(s))>>) \o
  <<BarrierAll(<<0, 0>>), BarrierAll(<<0, 1>>)>>)

PutQuiet == <<Remote("put", 1), Quiet({1})>>

OsuOshmPut(w) == OneToAnother(w, Again(NIterations, PutQuiet) \o <<Stop>>)
OsuOshmPutNb(w) == OneToAnother(w, Again(NIterations, PutQuiet) \o <<Stop>>)
OsuOshmGet(w) == OneToAnother(w, Again(NIterations, RemoteFetch(1)) \o <<Stop>>)
OsuOshmGetNb(w) ==
  OneToAnother(w, Again(NIterations, <<Remote("get", 1), Quiet({1})>>) \o <<Stop>>)

(* Blocking puts, then nonblocking ones with computation before the quiet. *)
OsuOshmPutOverlap(w) ==
  OneToAnother(w, Again(2, Again(NIterations, PutQuiet \o <<Stop>>)))

---------------------------------------------------------------------------
(* Message rates of pairs of PEs.  Nothing orders main()'s memset and the  *)
(* warm-up puts that follow it on other PEs.                               *)
Origin(w, r) == r < Pairs(w)
Nxtpe(w, r) == IF Origin(w, r) THEN r + Pairs(w) ELSE r - Pairs(w)

MessageRate(w, r, kind, s) ==
  <<Touch, BarrierAll(Before(s))>> \o
  If(Origin(w, r), Again(NIterations, <<Remote(kind, Nxtpe(w, r))>>) \o
                  <<Quiet(Ranks(w)), Stop>>)

RateBenchmark(w, r, kind) ==
  If(Origin(w, r), Again(Warmups, <<Remote("put", Nxtpe(w, r))>>)) \o
  <<BarrierAll(<<0, 0>>)>> \o
  For(NSizes, LAMBDA s :
    MessageRate(w, r, kind, s) \o <<WithSync("sum_to_all", "all", "psync", After(s))>>)

RateMain(w, kind) == Main(w, w.n >= 2, LAMBDA r :
  <<Overwrite>> \o RateBenchmark(w, r, kind))

OsuOshmPutMr(w) == RateMain(w, "put")
OsuOshmPutMrNb(w) == RateMain(w, "put")
OsuOshmGetMrNb(w) == RateMain(w, "get")

---------------------------------------------------------------------------
(* Atomic operations of pairs of PEs.                                      *)
Atomic(w, r, touch, operation, at) ==
  <<touch, BarrierAll(at)>> \o
  If(Origin(w, r), Again(NIterations, operation)) \o
  <<WithSync("sum_to_all", "all", "psync1", at), WithSync("sum_to_all", "all", "psync2", at)>>

(* Those that fetch are complete when the clock stops.  The others need    *)
(* not be, and may still be under way when the next benchmark begins to    *)
(* write its buffer.                                                       *)
Fetching(w, r, touch, at) ==
  Atomic(w, r, touch, RemoteFetch(Nxtpe(w, r)) \o <<Stop>>, at)
NotFetching(w, r, touch, at) == Atomic(w, r, touch, <<Remote("put", Nxtpe(w, r))>>, at)

(* fadd and finc; add and inc; cswap and swap; set and fetch.              *)
FetchAddInc(w, r, touch, at) == Fetching(w, r, touch, at) \o Fetching(w, r, Touch, at)
AddInc(w, r, at) == NotFetching(w, r, Touch, at) \o NotFetching(w, r, Overwrite, at)
Swaps(w, r, at) == Fetching(w, r, Overwrite, at) \o Fetching(w, r, Touch, at)
SetFetch(w, r, at) == NotFetching(w, r, Touch, at) \o Fetching(w, r, Overwrite, at)

AtomicBenchmark(w, r) ==
  If(Origin(w, r), Again(Warmups, <<Remote("put", Nxtpe(w, r))>>)) \o
  For(2, LAMBDA type :
    FetchAddInc(w, r, IF type = 1 THEN Overwrite ELSE Touch, <<type, 1>>) \o
    AddInc(w, r, <<type, 2>>) \o Swaps(w, r, <<type, 3>>) \o SetFetch(w, r, <<type, 4>>))

OsuOshmAtomics(w) == Main(w, w.n >= 2, LAMBDA r :
  <<BarrierAll(<<0, 0>>), Overwrite>> \o AtomicBenchmark(w, r))

---------------------------------------------------------------------------
(* Collective operations.  Each call in flight has a pSync of its own: the *)
(* iterations alternate between two, and so do the reductions behind them. *)
Reductions(at) ==
  <<WithSync("min_to_all", "all", "pSyncRed1", at),
    WithSync("max_to_all", "all", "pSyncRed2", at),
    WithSync("sum_to_all", "all", "pSyncRed1", at)>>

(* i counts from 1 here, from 0 in the code.                               *)
\* Mutant: one pSync for all iterations.
AlternatelyNever(i, odd, even) == odd
Alternately(i, odd, even) == IF i % 2 = 0 THEN odd ELSE even

OsuOshmBroadcast(w) == Main(w, w.n >= 2, LAMBDA r :
  For(NSizes, LAMBDA s :
    For(NIterations, LAMBDA i :
      <<WithSync("broadcast32", "from", Alternately(i, "pSyncBcast1", "pSyncBcast2"), <<s, i>>),
        BarrierAll(<<s, i>>)>>) \o
    <<BarrierAll(After(s))>> \o Reductions(After(s))))

Collect(w, op) == Main(w, w.n >= 2, LAMBDA r :
  For(NSizes, LAMBDA s :
    <<BarrierAll(Before(s))>> \o
    For(NIterations, LAMBDA i :
      <<WithSync(op, "all", Alternately(i, "pSyncCollect1", "pSyncCollect2"), <<s, i>>),
        BarrierAll(<<s, i>>)>>) \o
    <<BarrierAll(After(s))>> \o Reductions(After(s))) \o
  <<BarrierAll(<<0, 1>>)>>)

OsuOshmCollect(w) == Collect(w, "collect32")
OsuOshmFcollect(w) == Collect(w, "fcollect32")

OsuOshmReduce(w) == Main(w, w.n >= 2, LAMBDA r :
  For(NSizes, LAMBDA s :
    <<BarrierAll(Before(s))>> \o
    For(NIterations, LAMBDA i :
      <<WithSync("float_sum_to_all", "all", Alternately(i, "pSyncRed1", "pSyncRed2"), <<s, i>>),
        BarrierAll(<<s, i>>)>>) \o
    Reductions(After(s)) \o <<BarrierAll(After(s))>>) \o
  <<BarrierAll(<<0, 1>>)>>)

OsuOshmBarrier(w) == Main(w, w.n >= 2, LAMBDA r :
  For(NIterations, LAMBDA i :
    <<[WithSync("barrier", "all", Alternately(i, "pSyncBarrier1", "pSyncBarrier2"), <<1, i>>)
         EXCEPT !.quiet = TRUE]>>) \o
  <<BarrierAll(After(1))>> \o Reductions(After(1)))
=============================================================================
