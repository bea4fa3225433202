------------------------------ MODULE OsuPt2pt ------------------------------
(* The point to point benchmarks of osu-benchmarks/c/mpi/pt2pt.            *)
EXTENDS ProgramText

(* One exchange of a ping-pong; the rank that asks stops the clock. *)
Ask(peer, at, timed) == <<Send(peer, 1, at), Recv(peer, 1, at)>> \o If(timed, <<Stop>>)

\* Mutant: the answer before the question.
AnswerFirst(peer, at) == <<Send(peer, 1, at), Recv(peer, 1, at)>>
Answer(peer, at) == <<Recv(peer, 1, at), Send(peer, 1, at)>>

OsuLatency(w) == Main(w, w.n = 2, LAMBDA r :
  For(NSizes, LAMBDA s :
    <<Barrier(Before(s))>> \o
    For(NIterations, LAMBDA i :
      If(w.v, <<Barrier(<<s, i>>)>>) \o
      For(Warmups + 1, LAMBDA j :
        IF r = 0 THEN Ask(1, <<s, i, j>>, Timed(i) /\ j = Warmups + 1)
        ELSE Answer(0, <<s, i, j>>)) \o
      If(w.v, IF r = 0 THEN <<Recv(1, 2, <<s, i>>)>>
              ELSE <<Validate, SendErrors(0, 2, <<s, i>>)>>)) \o
    If(w.v, <<BcastErrors(After(s)), Break>>)))

OsuMultiLat(w) == Main(w, TRUE, LAMBDA r :
  <<Barrier(<<0, 0>>)>> \o
  For(NSizes, LAMBDA s :
    <<Barrier(Before(s))>> \o
    For(NIterations, LAMBDA i :
      For(Warmups + 1, LAMBDA j :
        <<Barrier(<<s, i, j>>)>> \o
        (IF r < Pairs(w) THEN Ask(r + Pairs(w), <<s, i, j>>, Timed(i) /\ j = Warmups + 1)
         ELSE Answer(r - Pairs(w), <<s, i, j>>))) \o
      If(w.v, <<Validate, ReduceErrors(<<s, i>>)>>)) \o
    If(w.v, <<BcastErrors(After(s)), Break>>)) \o
  <<Barrier(<<0, 1>>)>>)

(* Each side has forked children, which only sleep.  After an error rank 0 *)
(* leaves by exit(), without MPI_Finalize.                                 *)
OsuLatencyMp(w) == Main(w, w.n = 2, LAMBDA r :
  For(NSizes, LAMBDA s :
    <<Barrier(Before(s))>> \o
    For(NIterations, LAMBDA i :
      For(Warmups + 1, LAMBDA j :
        <<Barrier(<<s, i, j>>)>> \o
        (IF r = 0 THEN Ask(1, <<s, i, j>>, Timed(i) /\ j = Warmups + 1)
         ELSE Answer(0, <<s, i, j>>))) \o
      If(w.v, <<Validate>>)) \o
    If(w.v, <<AllreduceErrors(After(s)), Break>>)) \o
  If(w.v /\ r = 0, <<Break>>))

---------------------------------------------------------------------------
(* A window of messages, and the reply to all of them. *)
Fill(peer, tag, at) == Again(Window, <<Isend(peer, tag, at)>>)

\* Mutant: one receive less than there are messages.
DrainShort(peer, tag, at) == Again(Window - 1, <<Irecv(peer, tag, at)>>)
Drain(peer, tag, at) == Again(Window, <<Irecv(peer, tag, at)>>)

Push(peer, at, timed) ==
  Fill(peer, 100, at) \o <<Waitall("send"), Recv(peer, 101, at)>> \o If(timed, <<Stop>>)
Pull(peer, at) == Drain(peer, 100, at) \o <<Waitall("recv"), Send(peer, 101, at)>>

(* With --buffer-number multiple the loop that fills the buffers counts    *)
(* with the variable of the iterations: with validation the iterations go  *)
(* on from the size of the window, each time anew.                         *)
Iterate(multiple, v, Body(_)) ==
  IF ~(multiple /\ v) THEN For(NIterations, Body)
  ELSE IF Window + 1 < NIterations THEN Forever(Body(Window + 1))
  ELSE For(1, LAMBDA i : Body(Window + 1))

OsuBw(w, multiple) == Main(w, w.n = 2, LAMBDA r :
  For(NSizes, LAMBDA s :
    <<Barrier(Before(s))>> \o
    Iterate(multiple, w.v, LAMBDA i :
      If(w.v, <<Barrier(<<s, i>>)>>) \o
      For(Warmups + 1, LAMBDA k :
        IF r = 0 THEN Push(1, <<s, i, k>>, Timed(i) /\ k = Warmups + 1)
        ELSE Pull(0, <<s, i, k>>)) \o
      If(w.v, IF r = 0 THEN <<Recv(1, 102, <<s, i>>)>>
              ELSE <<Validate, SendErrors(0, 102, <<s, i>>)>>)) \o
    If(w.v, <<BcastErrors(After(s)), Break>>)))

(* The tag is 100 from rank 0 to rank 1 and 10 the other way.              *)
BothWays(r, at, timed) ==
  IF r = 0
  THEN Drain(1, 10, at) \o Fill(1, 100, at) \o
       <<Waitall("send"), Waitall("recv")>> \o If(timed, <<Stop>>)
  ELSE Drain(0, 100, at) \o Fill(0, 10, at) \o <<Waitall("recv"), Waitall("send")>>

(* An error leaves the iterations of the rank that has seen it.            *)
OsuBibw(w, multiple) == Main(w, w.n = 2, LAMBDA r :
  For(NSizes, LAMBDA s :
    <<Barrier(Before(s))>> \o
    Iterate(multiple, w.v, LAMBDA i :
      If(w.v, <<Barrier(<<s, i>>)>>) \o
      For(Warmups + 1, LAMBDA k : BothWays(r, <<s, i, k>>, Timed(i) /\ k = Warmups + 1)) \o
      If(w.v, <<Validate, Break>>)) \o
    If(w.v, <<BcastErrors(After(s)), Break>>)))

---------------------------------------------------------------------------
(* osu_mbw_mr: pairs of ranks, each with a window of messages; a rank      *)
(* without a partner takes part in the collective operations only.         *)
CalcBw(w, r, s, window) ==
  LET peer == IF r < Pairs(w) THEN r + Pairs(w) ELSE r - Pairs(w)
      Part(at, timed) ==
        IF r < Pairs(w)
        THEN Again(window, <<Isend(peer, 100, at)>>) \o
             <<Waitall("send"), Recv(peer, 101, at)>> \o If(timed, <<Stop>>)
        ELSE Again(window, <<Irecv(peer, 100, at)>>) \o
             <<Waitall("recv"), Send(peer, 101, at)>>
  IN  <<Barrier(<<s, window>>)>> \o
      For(NIterations, LAMBDA i :
        <<Barrier(<<s, window, i>>)>> \o
        If(r < 2 * Pairs(w), For(Warmups + 1, LAMBDA k :
          Part(<<s, window, i, k>>, Timed(i) /\ k = Warmups + 1))) \o
        If(w.v, If(r \in Pairs(w) .. 2 * Pairs(w) - 1, <<Validate>>) \o
                <<ReduceErrors(<<s, window, i>>)>>))

(* --vary-window measures every size with several windows, and goes on     *)
(* after errors.                                                           *)
OsuMbwMr(w, varied) == Main(w, w.n >= 2, LAMBDA r :
  For(NSizes, LAMBDA s :
    IF varied THEN For(Window, LAMBDA window : CalcBw(w, r, s, window))
    ELSE CalcBw(w, r, s, Window) \o If(w.v, <<BcastErrors(After(s)), Break>>)))
=============================================================================
