---------------------------- MODULE ProgramText ----------------------------
(***************************************************************************)
(* How the message passing programs of the repository are written down: a  *)
(* program is, for each rank, the sequence of the communication            *)
(* instructions it executes, with its loops unrolled.  Of the data only    *)
(* the number of a message size and of an iteration is kept (the label     *)
(* "at"), and whether an error of validation is known.                     *)
(***************************************************************************)
EXTENDS Integers, Sequences

CONSTANTS
  NSizes,       \* message sizes a benchmark goes through
  NIterations,  \* iterations at each size,
  NSkips,       \* the first of them, not timed
  Warmups,      \* --warmup_validation
  Window,       \* messages or operations under way at once
  Probes        \* -t: MPI_Test calls while a collective operation is under way

ASSUME TextAssumption == {NSizes, NIterations, NSkips, Warmups, Window, Probes} \subseteq Nat

If(condition, text) == IF condition THEN text ELSE <<>>

(* A "break" leaves the innermost loop: "by" is how far it advances the    *)
(* program counter, 0 until the loop around it is known.                   *)
Break == [k |-> "Break", by |-> 0]

Resolve(body, rest) ==
  [p \in DOMAIN body |->
     IF body[p] = Break
     THEN [k |-> "Break", by |-> Len(body) - p + rest + 1] ELSE body[p]]

(* Body(1), ..., Body(n), one after the other. *)
For(n, Body(_)) ==
  LET from[i \in 1 .. n + 1] ==
        IF i = n + 1 THEN <<>>
        ELSE Resolve(Body(i), Len(from[i + 1])) \o from[i + 1]
  IN  from[1]

Again(n, body) == For(n, LAMBDA i : body)

(* while (1): the body, and back to its start. *)
Forever(body) == Append(Resolve(body, 1), [k |-> "Goto", back |-> Len(body)])

---------------------------------------------------------------------------
(* Labels: the size, and the iteration; 0 is before the iterations of the  *)
(* size, NIterations + 1 after them.                                       *)
Before(s) == <<s, 0>>
After(s) == <<s, NIterations + 1>>
Timed(i) == i > NSkips

---------------------------------------------------------------------------
(* Collective operations.  "sort" says who waits for whom: everyone for    *)
(* everyone ("all"), everyone for the root ("from"), the root for everyone *)
(* ("to"), nobody ("none").  A collective operation that carries "errors"  *)
(* combines what the ranks know of errors of validation.                   *)
Collective(op, sort, at) ==
  [k |-> "Coll", op |-> op, sort |-> sort, root |-> 0, reduction |-> "",
   errors |-> FALSE, psync |-> "", quiet |-> FALSE, at |-> at]

Barrier(at) == Collective("Barrier", "all", at)
Reduce(reduction, at) ==
  [Collective("Reduce", "to", at) EXCEPT !.reduction = reduction]
ReduceErrors(at) == [Reduce("SUM", at) EXCEPT !.errors = TRUE]

\* Mutant: only the root learns of the errors of all.
AllreduceErrorsToRoot(at) == ReduceErrors(at)
AllreduceErrors(at) ==
  [Collective("Allreduce", "all", at) EXCEPT !.reduction = "SUM", !.errors = TRUE]
BcastErrors(at) == [Collective("Bcast", "from", at) EXCEPT !.errors = TRUE]
Finalize == Collective("Finalize", "all", <<0, 0>>)

(* The nonblocking form, the wait for it, and a poll of it by MPI_Test. *)
Nonblocking(c) == [c EXCEPT !.k = "Icoll"]
WaitCollective == [k |-> "WaitColl"]
TestCollective == [k |-> "TestColl"]

---------------------------------------------------------------------------
(* Messages: matched by source, destination and tag in the order posted.   *)
(* "group" is the request array a nonblocking call writes to.              *)
Message(k, peer, tag, group, at) ==
  [k |-> k, peer |-> peer, tag |-> tag, group |-> group, errors |-> FALSE, at |-> at]

Send(peer, tag, at) == Message("Send", peer, tag, "sending", at)
Recv(peer, tag, at) == Message("Recv", peer, tag, "receiving", at)
Isend(peer, tag, at) == Message("Isend", peer, tag, "send", at)
Irecv(peer, tag, at) == Message("Irecv", peer, tag, "recv", at)
SendErrors(peer, tag, at) == [Send(peer, tag, at) EXCEPT !.errors = TRUE]

(* MPI_Waitall, and MPI_Waitany that leaves "left" requests to wait for. *)
Waitall(group) == [k |-> "Wait", group |-> group, left |-> 0]
Waitany(group, left) == [k |-> "Wait", group |-> group, left |-> left]

---------------------------------------------------------------------------
(* One-sided operations on the memory of rank "to".  A "put" is complete   *)
(* at its origin before it is at its target, a "get" at both at once.      *)
Rma(kind, to) == [k |-> "Rma", kind |-> kind, to |-> to, window |-> TRUE]
Flush(to) == [k |-> "Flush", to |-> {to}, local |-> FALSE]
FlushLocal(to) == [k |-> "Flush", to |-> {to}, local |-> TRUE]
Lock(to, mode) == [k |-> "Lock", to |-> {to}, mode |-> mode]
LockAll(ranks) == [k |-> "Lock", to |-> ranks, mode |-> "shared"]
Unlock(to) == [k |-> "Unlock", to |-> {to}]
UnlockAll(ranks) == [k |-> "Unlock", to |-> ranks]
Fence(at) == [Collective("Win_fence", "all", at) EXCEPT !.quiet = TRUE]
Start(to) == [k |-> "Start", to |-> to]
Complete(to) == [k |-> "Complete", to |-> to]
Post(to) == [k |-> "Post", to |-> to]
WinWait(to) == [k |-> "WinWait", to |-> to]
WinCreate(at) == Collective("Win_create", "all", at)
WinFree(at) == Collective("Win_free", "all", at)

(* The same without windows (OpenSHMEM, UPC, UPC++): memory is always      *)
(* exposed, and a barrier completes what was issued before it.             *)
Remote(kind, to) == [Rma(kind, to) EXCEPT !.window = FALSE]
Quiet(ranks) == [k |-> "Flush", to |-> ranks, local |-> FALSE]
BarrierAll(at) == [Collective("barrier_all", "all", at) EXCEPT !.quiet = TRUE]
WithSync(op, sort, psync, at) == [Collective(op, sort, at) EXCEPT !.psync = psync]

(* A blocking get, or an atomic operation that fetches, returns with the   *)
(* value.                                                                  *)
RemoteFetch(to) == <<Remote("get", to), Quiet({to})>>

(* Writing one's own part of symmetric memory: when the program orders it  *)
(* after what others do there, and (Overwrite) when nothing orders it.     *)
Touch == [k |-> "Touch", ordered |-> TRUE]
Overwrite == [k |-> "Touch", ordered |-> FALSE]

---------------------------------------------------------------------------
(* What a rank does alone: compare the received data, stop the clock.  The *)
(* clock stops when the operations timed are complete: at the target, or   *)
(* (Lapse) at the origin only.                                             *)
Validate == [k |-> "Validate"]
Stop == [k |-> "Stop", local |-> FALSE]
Lapse == [k |-> "Stop", local |-> TRUE]
Abort == [k |-> "Abort"]

---------------------------------------------------------------------------
(* A world is what a run is started with: the program, the number of       *)
(* ranks, whether the command line is accepted, and --validation.          *)
Ranks(w) == 0 .. w.n - 1

(* Where the ranks work in pairs, r is the partner of r + n/2.             *)
Pairs(w) == w.n \div 2

(* main(): the options are refused or the number of ranks is (every rank   *)
(* sees the same), or the benchmark runs; then MPI_Finalize.  A Break      *)
(* outside of the loops is exit() after an error, without MPI_Finalize.    *)
Main(w, enough, Body(_)) ==
  [r \in Ranks(w) |-> Resolve(If(w.okay /\ enough, Body(r)), 1) \o <<Finalize>>]
=============================================================================
