---------------------------- MODULE MCWindowLoop ----------------------------
(* osu_bw with --buffer-number multiple and --validation, and more         *)
(* iterations than there are messages in a window.                         *)
EXTENDS ParallelProgram, BenchmarkPrograms, TLC

WindowWorld == Given({"osu_bw -b multiple"}, {2}, {TRUE})
WindowTexts == [w \in WindowWorld |-> TextOf(w) @@ <<>>] @@ <<>>
WindowCode == LET texts == WindowTexts IN texts

(* "-i, --iterations ITER set iterations per message size to ITER" (usage  *)
(* of the benchmarks, osu_util_mpi.c:360): a rank goes through no more     *)
(* iterations of a message size than asked for.  It enters the barrier     *)
(* before a size, and one in each iteration.                               *)
IterationsAsAsked ==
  \A r \in Rank, s \in 1 .. NSizes :
    Cardinality({k \in DOMAIN calls[r] :
      LET c == Call(r, k) IN c.op = "Barrier" /\ c.at[1] = s}) <= 1 + NIterations
=============================================================================
