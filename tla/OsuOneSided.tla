---------------------------- MODULE OsuOneSided ----------------------------
(* The one-sided benchmarks of osu-benchmarks/c/mpi/one-sided, on two      *)
(* ranks.  w.sync is the synchronisation asked for with -s, w.dynamic says *)
(* whether the window is made with -w dynamic.                             *)
EXTENDS ProgramText

(* The address of a dynamic window is sent to the other rank.              *)
AllocateMemoryOneSided(w, r, s) ==
  <<WinCreate(Before(s))>> \o
  If(w.dynamic, IF r = 0 THEN <<Send(1, 1, Before(s)), Recv(1, 1, Before(s))>>
                ELSE <<Recv(0, 1, Before(s)), Send(0, 1, Before(s))>>)

FreeMemoryOneSided(s) == <<WinFree(After(s))>>

(* A benchmark: the kind of operation, how many under way at once, at how  *)
(* many sizes; the modes of its lock with -s lock and with -s flush; the   *)
(* barriers before the iterations with -s flush and with -s pscw.          *)
Benchmark(kind, window, sizes, lock, flushLock, flushBarriers, pscwBarriers) ==
  [kind |-> kind, window |-> window, sizes |-> sizes, lock |-> lock,
   flushLock |-> flushLock, flushBarriers |-> flushBarriers, pscwBarriers |-> pscwBarriers]

Operations(b, to) == Again(b.window, <<Rma(b.kind, to)>>)
Ahead(n, s) == Again(n, <<Barrier(Before(s))>>)

PerSize(w, r, b, Body(_)) == For(b.sizes, LAMBDA s :
  AllocateMemoryOneSided(w, r, s) \o Body(s) \o
  <<Barrier(After(s))>> \o FreeMemoryOneSided(s))

(* Passive target: one lock around all iterations and a flush in each, or  *)
(* a lock in each.  Rank 1 only waits.                                     *)
\* Mutant: no flush after the operations.
UnderOneLockNoFlush(b, flush, stop) ==
  <<Lock(1, b.flushLock)>> \o Again(NIterations, Operations(b, 1)) \o <<stop, Unlock(1)>>

UnderOneLock(b, flush, stop) ==
  <<Lock(1, b.flushLock)>> \o Again(NIterations, Operations(b, 1) \o <<flush>>) \o
  <<stop, Unlock(1)>>

\* Mutant: the lock is given back before the operations.
LockEachTimeEarlyUnlock(b, lock, unlock) ==
  Again(NIterations, <<lock, unlock>> \o Operations(b, 1)) \o <<Stop>>

LockEachTime(b, lock, unlock) ==
  Again(NIterations, <<lock>> \o Operations(b, 1) \o <<unlock>>) \o <<Stop>>

Passive(w, r, b) == PerSize(w, r, b, LAMBDA s :
  If(w.sync \in {"flush", "flush_local"}, Ahead(b.flushBarriers, s)) \o
  If(r = 0, CASE w.sync = "flush" -> UnderOneLock(b, Flush(1), Stop)
              [] w.sync = "flush_local" -> UnderOneLock(b, FlushLocal(1), Lapse)
              [] w.sync = "lock" -> LockEachTime(b, Lock(1, b.lock), Unlock(1))
              [] w.sync = "lock_all" -> LockEachTime(b, LockAll({0, 1}), UnlockAll({0, 1}))))

(* Active target, there and back: each rank has its turn.                  *)
FenceTurns(b, r, s) ==
  <<Barrier(Before(s))>> \o
  For(NIterations, LAMBDA i : LET f == Fence(<<s, i>>) IN
    IF r = 0 THEN <<f>> \o Operations(b, 1) \o <<f, f>>
    ELSE <<f, f>> \o Operations(b, 0) \o <<f>>) \o
  If(r = 0, <<Stop>>)

PscwTurns(b, r, s) ==
  Ahead(b.pscwBarriers, s) \o
  Again(NIterations,
    IF r = 0 THEN <<Start(1)>> \o Operations(b, 1) \o <<Complete(1), Post(1), WinWait(1)>>
    ELSE <<Post(0), WinWait(0), Start(0)>> \o Operations(b, 0) \o <<Complete(0)>>) \o
  If(r = 0, <<Stop>>)

Turns(w, r, b) == PerSize(w, r, b, LAMBDA s :
  IF w.sync = "fence" THEN FenceTurns(b, r, s) ELSE PscwTurns(b, r, s))

(* Active target, one way: rank 1 is the target only.                      *)
Windows(w, r, b) == PerSize(w, r, b, LAMBDA s :
  <<Barrier(Before(s))>> \o
  For(NIterations, LAMBDA i : LET f == Fence(<<s, i>>) IN
    CASE w.sync = "fence" /\ r = 0 -> <<f>> \o Operations(b, 1) \o <<f>>
      [] w.sync = "fence" /\ r = 1 -> <<f, f>>
      [] w.sync = "pscw" /\ r = 0 -> <<Start(1)>> \o Operations(b, 1) \o <<Complete(1)>>
      [] w.sync = "pscw" /\ r = 1 -> <<Post(0), WinWait(0)>>) \o
  If(r = 0, <<Stop>>))

(* Both ranks at once. *)
WindowsBothWays(w, r, b) == PerSize(w, r, b, LAMBDA s :
  <<Barrier(Before(s))>> \o
  For(NIterations, LAMBDA i : LET f == Fence(<<s, i>>) peer == 1 - r IN
    IF w.sync = "fence" THEN <<f>> \o Operations(b, peer) \o <<f>>
    ELSE <<Post(peer), Start(peer)>> \o Operations(b, peer) \o
         <<Complete(peer), WinWait(peer)>>) \o
  If(r = 0, <<Stop>>))

(* main(): the run_ function of the synchronisation asked for.             *)
Synchronised(w, PassiveText(_), ActiveText(_)) == Main(w, w.n = 2, LAMBDA r :
  IF w.sync \in {"fence", "pscw"} THEN ActiveText(r) ELSE PassiveText(r))

---------------------------------------------------------------------------
PutLatency == Benchmark("put", 1, NSizes, "shared", "shared", 0, 1)
PutLatencyPassive(w, r) == Passive(w, r, PutLatency)
PutLatencyActive(w, r) == Turns(w, r, PutLatency)
OsuPutLatency(w) == Synchronised(w,
  LAMBDA r : PutLatencyPassive(w, r), LAMBDA r : PutLatencyActive(w, r))

PutBw == Benchmark("put", Window, NSizes, "shared", "shared", 0, 1)
PutBwPassive(w, r) == Passive(w, r, PutBw)
PutBwActive(w, r) == Windows(w, r, PutBw)
OsuPutBw(w) == Synchronised(w,
  LAMBDA r : PutBwPassive(w, r), LAMBDA r : PutBwActive(w, r))

PutBibwActive(w, r) == WindowsBothWays(w, r, PutBw)
OsuPutBibw(w) == Main(w, w.n = 2, LAMBDA r : PutBibwActive(w, r))

AccLatency == Benchmark("put", 1, NSizes, "shared", "shared", 0, 1)
AccPassive(w, r) == Passive(w, r, AccLatency)
AccActive(w, r) == Turns(w, r, AccLatency)
OsuAccLatency(w) == Synchronised(w, LAMBDA r : AccPassive(w, r), LAMBDA r : AccActive(w, r))

(* Operations that fetch complete at both sides at once, like a get.       *)
CasLatency == Benchmark("get", 1, 1, "exclusive", "shared", 1, 1)
CasPassive(w, r) == Passive(w, r, CasLatency)
CasActive(w, r) == Turns(w, r, CasLatency)
OsuCasLatency(w) == Synchronised(w, LAMBDA r : CasPassive(w, r), LAMBDA r : CasActive(w, r))

FopLatency == Benchmark("get", 1, 1, "exclusive", "shared", 1, 1)
FopPassive(w, r) == Passive(w, r, FopLatency)
FopActive(w, r) == Turns(w, r, FopLatency)
OsuFopLatency(w) == Synchronised(w, LAMBDA r : FopPassive(w, r), LAMBDA r : FopActive(w, r))

GetAccLatency == Benchmark("get", 1, NSizes, "exclusive", "exclusive", 0, 2)
GetAccPassive(w, r) == Passive(w, r, GetAccLatency)
GetAccActive(w, r) == Turns(w, r, GetAccLatency)
OsuGetAccLatency(w) == Synchronised(w,
  LAMBDA r : GetAccPassive(w, r), LAMBDA r : GetAccActive(w, r))

GetBw == Benchmark("get", Window, NSizes, "shared", "shared", 0, 1)
GetBwPassive(w, r) == Passive(w, r, GetBw)
GetBwActive(w, r) == Windows(w, r, GetBw)
OsuGetBw(w) == Synchronised(w, LAMBDA r : GetBwPassive(w, r), LAMBDA r : GetBwActive(w, r))

GetLatency == Benchmark("get", 1, NSizes, "shared", "shared", 0, 2)
GetLatencyPassive(w, r) == Passive(w, r, GetLatency)
GetLatencyActive(w, r) == Turns(w, r, GetLatency)
OsuGetLatency(w) == Synchronised(w,
  LAMBDA r : GetLatencyPassive(w, r), LAMBDA r : GetLatencyActive(w, r))
=============================================================================
