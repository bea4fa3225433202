-------------------------- MODULE ParallelProgram --------------------------
(***************************************************************************)
(* Ranks that execute the texts of ProgramText side by side, over what the *)
(* programs use of MPI, OpenSHMEM, UPC and UPC++: messages, collective     *)
(* operations, windows, symmetric memory.  The libraries are not part of   *)
(* the repository; an operation returns here whenever its standard lets it *)
(* return, and fairness only forces a return that no implementation may    *)
(* withhold: a send may be buffered, but nothing relies on it.             *)
(***************************************************************************)
EXTENDS ProgramText, FiniteSets

CONSTANTS
  World,  \* what a run may be started with
  Code    \* the text of each rank in each world

(* By what a rank waits for its requests: the blocking call they belong to, *)
(* the arrays of requests of the benchmarks.                               *)
Groups == {"sending", "receiving", "send", "recv"}

(* A jump stays behind the start of the text, and a collective operation   *)
(* has a root among the ranks, a message a partner and a group of requests, *)
(* a one-sided operation a target.                                         *)
ASSUME CodeAssumption ==
  \A w \in World : \A r \in DOMAIN Code[w] :
    /\ Len(Code[w][r]) \in Nat
    /\ \A p \in 1 .. Len(Code[w][r]) :
         LET i == Code[w][r][p] IN
         /\ i.k = "Break" => i.by \in Nat
         /\ i.k = "Goto" => i.back \in 0 .. p - 1
         /\ i.k \in {"Coll", "Icoll"} =>
              /\ {"k", "sort", "root", "errors"} \subseteq DOMAIN i
              /\ i.root \in DOMAIN Code[w]
         /\ i.k \in {"Send", "Recv", "Isend", "Irecv"} =>
              i.peer \in DOMAIN Code[w] /\ i.group \in Groups
         /\ i.k = "Rma" => i.to \in DOMAIN Code[w]

VARIABLES
  world,   \* chosen once
  pc,      \* of each rank: the next instruction,
  inside,  \* whether it is inside that (blocking) operation,
  err,     \* whether it knows of an error of validation,
  calls,   \* the collective operations it has entered: where in its text, and
           \* what it knew of errors,
  icall,   \* the nonblocking one it has not waited for, by number; 0 if none,
  pend,    \* its unmatched requests by group,
  ops,     \* its one-sided operations that may be incomplete,
  epochs,  \* its open epochs of active target synchronisation,
  held,    \* the locks it holds, by target
  net,     \* messages not matched, by source and destination,
  posted,  \* receives not matched, by source and destination,
  misfit,  \* pairs matched although meant for different iterations,
  tokens   \* by pair: MPI_Win_post and MPI_Win_complete not yet consumed

vars == <<world, pc, inside, err, calls, icall, pend, ops, epochs, held,
          net, posted, misfit, tokens>>
messages == <<pend, net, posted, misfit>>
collectives == <<calls, icall>>
windows == <<ops, epochs, held, tokens>>

Rank == DOMAIN Code[world]
Text(r) == Code[world][r]
Finished(r) == pc[r] > Len(Text(r))
At(r) == Text(r)[pc[r]]
Runs(r, k) == ~Finished(r) /\ At(r).k = k

Init ==
  /\ world \in World
  /\ pc = [r \in Rank |-> 1]
  /\ inside = [r \in Rank |-> FALSE]
  /\ err = [r \in Rank |-> FALSE]
  /\ calls = [r \in Rank |-> <<>>]
  /\ icall = [r \in Rank |-> 0]
  /\ pend = [r \in Rank |-> [g \in Groups |-> 0]]
  /\ ops = [r \in Rank |-> {}]
  /\ epochs = [r \in Rank |-> {}]
  /\ held = [r \in Rank |-> [t \in Rank |-> "none"]]
  /\ net = [pair \in Rank \X Rank |-> <<>>]
  /\ posted = [pair \in Rank \X Rank |-> <<>>]
  /\ misfit = {}
  /\ tokens = [pair \in Rank \X Rank |-> [post |-> 0, done |-> 0]]

Advance(r, n) == pc' = [pc EXCEPT ![r] = @ + n]

---------------------------------------------------------------------------
(* Collective operations: the k-th of one rank belongs to the k-th of      *)
(* every other.                                                            *)
Entered(q, k) == Len(calls[q]) >= k
Call(q, k) == Text(q)[calls[q][k].line]

(* A barrier of one-sided communication completes the operations of its    *)
(* caller before it counts the caller in.                                  *)
Enter(r) ==
  /\ calls' = [calls EXCEPT ![r] = Append(@, [line |-> pc[r], flag |-> err[r]])]
  /\ ops' = [ops EXCEPT ![r] = IF At(r).quiet THEN {} ELSE @]
  /\ epochs' = [epochs EXCEPT ![r] = CASE At(r).op = "Win_fence" -> {"fence"}
                                      [] At(r).op = "Win_free" -> {}
                                      [] OTHER -> @]

MayReturn(r, k) ==
  LET c == Call(r, k) IN
  CASE c.sort = "all" -> \A q \in Rank : Entered(q, k)
    [] c.sort = "from" -> Entered(c.root, k)
    [] c.sort = "to" -> r = c.root => \A q \in Rank : Entered(q, k)
    [] c.sort = "none" -> TRUE

MustReturn(r, k) == \A q \in Rank : Entered(q, k)

(* What rank r knows of errors once its k-th operation has returned. *)
Learnt(r, k) ==
  LET c == Call(r, k) IN
  IF ~c.errors \/ (c.sort = "to" /\ r # c.root) THEN err[r]
  ELSE IF c.sort = "from" THEN calls[c.root][k].flag
  ELSE \E q \in Rank : calls[q][k].flag

EnterCollective(r) ==
  /\ Runs(r, "Coll") /\ ~inside[r]
  /\ Enter(r)
  /\ inside' = [inside EXCEPT ![r] = TRUE]
  /\ UNCHANGED <<world, pc, err, icall, held, tokens, messages>>

LeaveCollective(r) ==
  /\ Runs(r, "Coll") /\ inside[r]
  /\ MayReturn(r, Len(calls[r]))
  /\ err' = [err EXCEPT ![r] = Learnt(r, Len(calls[r]))]
  /\ inside' = [inside EXCEPT ![r] = FALSE]
  /\ Advance(r, 1)
  /\ UNCHANGED <<world, collectives, messages, windows>>

StartCollective(r) ==
  /\ Runs(r, "Icoll")
  /\ Enter(r)
  /\ icall' = [icall EXCEPT ![r] = Len(calls'[r])]
  /\ Advance(r, 1)
  /\ UNCHANGED <<world, inside, err, held, tokens, messages>>

(* MPI_Wait on the request of a collective operation; one that MPI_Test    *)
(* has already completed is MPI_REQUEST_NULL.                              *)
WaitForCollective(r) ==
  /\ Runs(r, "WaitColl")
  /\ icall[r] # 0 => MayReturn(r, icall[r])
  /\ icall' = [icall EXCEPT ![r] = 0]
  /\ Advance(r, 1)
  /\ UNCHANGED <<world, inside, err, calls, messages, windows>>

(* MPI_Test: completes the request or finds it under way. *)
PollCollective(r) ==
  /\ Runs(r, "TestColl")
  /\ \/ UNCHANGED icall
     \/ /\ icall[r] # 0
        /\ MayReturn(r, icall[r])
        /\ icall' = [icall EXCEPT ![r] = 0]
  /\ Advance(r, 1)
  /\ UNCHANGED <<world, inside, err, calls, messages, windows>>

---------------------------------------------------------------------------
(* Messages.  A send and a receive are matched when the later of the two   *)
(* is posted: the first of its tag that waits on the other side.           *)
FirstOf(queue, tag) ==
  CHOOSE i \in DOMAIN queue :
    /\ queue[i].tag = tag
    /\ \A j \in 1 .. i - 1 : queue[j].tag # tag

Waits(queue, tag) == \E i \in DOMAIN queue : queue[i].tag = tag
Without(queue, i) == SubSeq(queue, 1, i - 1) \o SubSeq(queue, i + 1, Len(queue))

(* The receive i of the rank to gets the message m of the rank from. *)
Match(from, to, m, i) ==
  /\ misfit' = IF m.at = i.at THEN misfit
               ELSE misfit \union {[from |-> from, to |-> to, sent |-> m.at, expected |-> i.at]}
  /\ err' = [err EXCEPT ![to] = @ \/ m.flag]

PostSend(r, i) ==
  LET pair == <<r, i.peer>>
      m == [tag |-> i.tag, at |-> i.at, group |-> i.group, flag |-> i.errors /\ err[r]]
  IN  IF Waits(posted[pair], i.tag)
      THEN LET x == FirstOf(posted[pair], i.tag)
               receive == posted[pair][x]
           IN  /\ Match(r, i.peer, m, receive)
               /\ posted' = [posted EXCEPT ![pair] = Without(@, x)]
               /\ pend' = [pend EXCEPT ![i.peer][receive.group] = @ - 1]
               /\ UNCHANGED net
      ELSE /\ net' = [net EXCEPT ![pair] = Append(@, m)]
           /\ pend' = [pend EXCEPT ![r][i.group] = @ + 1]
           /\ UNCHANGED <<err, misfit, posted>>

\* Mutant: the receiver takes the sender's request for its own.
PostReceiveOwnRequest(r, i) ==
  LET pair == <<i.peer, r>>
  IN  IF Waits(net[pair], i.tag)
      THEN LET x == FirstOf(net[pair], i.tag)
               m == net[pair][x]
           IN  /\ Match(i.peer, r, m, i)
               /\ net' = [net EXCEPT ![pair] = Without(@, x)]
               /\ pend' = [pend EXCEPT ![r][m.group] = @ - 1]
               /\ UNCHANGED posted
      ELSE /\ posted' = [posted EXCEPT ![pair] =
                           Append(@, [tag |-> i.tag, at |-> i.at, group |-> i.group])]
           /\ pend' = [pend EXCEPT ![r][i.group] = @ + 1]
           /\ UNCHANGED <<err, misfit, net>>

PostReceive(r, i) ==
  LET pair == <<i.peer, r>>
  IN  IF Waits(net[pair], i.tag)
      THEN LET x == FirstOf(net[pair], i.tag)
               m == net[pair][x]
           IN  /\ Match(i.peer, r, m, i)
               /\ net' = [net EXCEPT ![pair] = Without(@, x)]
               /\ pend' = [pend EXCEPT ![i.peer][m.group] = @ - 1]
               /\ UNCHANGED posted
      ELSE /\ posted' = [posted EXCEPT ![pair] =
                           Append(@, [tag |-> i.tag, at |-> i.at, group |-> i.group])]
           /\ pend' = [pend EXCEPT ![r][i.group] = @ + 1]
           /\ UNCHANGED <<err, misfit, net>>

StartMessage(r) ==
  /\ \/ Runs(r, "Isend") /\ PostSend(r, At(r))
     \/ Runs(r, "Irecv") /\ PostReceive(r, At(r))
  /\ Advance(r, 1)
  /\ UNCHANGED <<world, inside, collectives, windows>>

EnterMessage(r) ==
  /\ ~inside[r]
  /\ \/ Runs(r, "Send") /\ PostSend(r, At(r))
     \/ Runs(r, "Recv") /\ PostReceive(r, At(r))
  /\ inside' = [inside EXCEPT ![r] = TRUE]
  /\ UNCHANGED <<world, pc, collectives, windows>>

(* A send returns when it is matched, or before: the library has taken a   *)
(* copy, and the request counts as matched for who waits for it later.     *)
LeaveMessage(r) ==
  /\ inside[r]
  /\ Runs(r, "Send") \/ (Runs(r, "Recv") /\ pend[r]["receiving"] = 0)
  /\ inside' = [inside EXCEPT ![r] = FALSE]
  /\ Advance(r, 1)
  /\ UNCHANGED <<world, err, collectives, messages, windows>>

WaitForMessages(r) ==
  /\ Runs(r, "Wait")
  /\ At(r).group = "recv" => pend[r]["recv"] <= At(r).left
  /\ Advance(r, 1)
  /\ UNCHANGED <<world, inside, err, collectives, messages, windows>>

---------------------------------------------------------------------------
(* One-sided communication. *)
Issue(r) ==
  /\ Runs(r, "Rma")
  /\ ops' = [ops EXCEPT ![r] = @ \union
               {[to |-> At(r).to, kind |-> At(r).kind, local |-> FALSE]}]
  /\ Advance(r, 1)
  /\ UNCHANGED <<world, inside, err, epochs, held, tokens, collectives, messages>>

(* What is left of r's operations when those on the targets complete. *)
Flushed(r, targets) == {o \in ops[r] : o.to \notin targets}
FlushedLocally(r, targets) ==
  Flushed(r, targets) \union
    {[o EXCEPT !.local = TRUE] : o \in {x \in ops[r] : x.to \in targets /\ x.kind # "get"}}

FlushOps(r) ==
  /\ Runs(r, "Flush")
  /\ ops' = [ops EXCEPT ![r] = IF At(r).local THEN FlushedLocally(r, At(r).to)
                               ELSE Flushed(r, At(r).to)]
  /\ Advance(r, 1)
  /\ UNCHANGED <<world, inside, err, epochs, held, tokens, collectives, messages>>

Compatible(r, t, mode) ==
  \A q \in Rank \ {r} : held[q][t] = "none" \/ (mode = "shared" /\ held[q][t] = "shared")

LockTargets(r) ==
  /\ Runs(r, "Lock")
  /\ \A t \in At(r).to : Compatible(r, t, At(r).mode)
  /\ held' = [held EXCEPT ![r] =
                [t \in Rank |-> IF t \in At(r).to THEN At(r).mode ELSE @[t]]]
  /\ Advance(r, 1)
  /\ UNCHANGED <<world, inside, err, ops, epochs, tokens, collectives, messages>>

UnlockTargets(r) ==
  /\ Runs(r, "Unlock")
  /\ held' = [held EXCEPT ![r] =
                [t \in Rank |-> IF t \in At(r).to THEN "none" ELSE @[t]]]
  /\ ops' = [ops EXCEPT ![r] = Flushed(r, At(r).to)]
  /\ Advance(r, 1)
  /\ UNCHANGED <<world, inside, err, epochs, tokens, collectives, messages>>

(* MPI_Win_start need not wait for the post; MPI_Win_complete must, since  *)
(* the operations before it reach the target only then.                    *)
ActiveTarget(r) ==
  LET to == At(r).to IN
  /\ \/ /\ Runs(r, "Post")
        /\ tokens' = [tokens EXCEPT ![<<r, to>>].post = @ + 1]
        /\ epochs' = [epochs EXCEPT ![r] = @ \union {"exposure"}]
        /\ UNCHANGED ops
     \/ /\ Runs(r, "Start")
        /\ epochs' = [epochs EXCEPT ![r] = @ \union {"access"}]
        /\ UNCHANGED <<ops, tokens>>
     \/ /\ Runs(r, "Complete") /\ tokens[to, r].post > 0
        /\ tokens' = [tokens EXCEPT ![<<to, r>>].post = @ - 1, ![<<r, to>>].done = @ + 1]
        /\ epochs' = [epochs EXCEPT ![r] = @ \ {"access"}]
        /\ ops' = [ops EXCEPT ![r] = Flushed(r, {to})]
     \/ /\ Runs(r, "WinWait") /\ tokens[to, r].done > 0
        /\ tokens' = [tokens EXCEPT ![<<to, r>>].done = @ - 1]
        /\ epochs' = [epochs EXCEPT ![r] = @ \ {"exposure"}]
        /\ UNCHANGED ops
  /\ Advance(r, 1)
  /\ UNCHANGED <<world, inside, err, held, collectives, messages>>

---------------------------------------------------------------------------
(* What a rank does alone. *)
Alone(r) ==
  /\ \/ /\ Runs(r, "Validate")
        /\ err' \in {err, [err EXCEPT ![r] = TRUE]}
        /\ Advance(r, 1)
     \/ /\ Runs(r, "Break") \/ Runs(r, "Goto")
        /\ Advance(r, IF At(r).k = "Goto" THEN -At(r).back
                      ELSE IF err[r] THEN At(r).by ELSE 1)
        /\ UNCHANGED err
     \/ /\ Runs(r, "Stop") \/ Runs(r, "Touch")
        /\ Advance(r, 1)
        /\ UNCHANGED err
  /\ UNCHANGED <<world, inside, collectives, messages, windows>>

(* MPI_Abort ends every rank. *)
AbortAll(r) ==
  /\ Runs(r, "Abort")
  /\ pc' = [q \in Rank |-> Len(Text(q)) + 1]
  /\ inside' = [q \in Rank |-> FALSE]
  /\ UNCHANGED <<world, err, collectives, messages, windows>>

Step(r) ==
  \/ EnterCollective(r) \/ LeaveCollective(r)
  \/ StartCollective(r) \/ WaitForCollective(r) \/ PollCollective(r)
  \/ StartMessage(r) \/ EnterMessage(r) \/ LeaveMessage(r) \/ WaitForMessages(r)
  \/ Issue(r) \/ FlushOps(r) \/ LockTargets(r) \/ UnlockTargets(r) \/ ActiveTarget(r)
  \/ Alone(r) \/ AbortAll(r)

Done == (\A r \in Rank : Finished(r)) /\ UNCHANGED vars

Next == (\E r \in Rank : Step(r)) \/ Done

(* What an implementation may not withhold: everything but the return of a *)
(* send nobody receives and of a collective operation not all have entered.*)
Certain(r) ==
  CASE Runs(r, "Coll") /\ inside[r] -> MustReturn(r, Len(calls[r]))
    [] Runs(r, "WaitColl") -> icall[r] = 0 \/ MustReturn(r, icall[r])
    [] Runs(r, "Send") /\ inside[r] -> pend[r]["sending"] = 0
    [] Runs(r, "Wait") -> pend[r][At(r).group] <= At(r).left
    [] OTHER -> TRUE

AllRanks == UNION {DOMAIN Code[w] : w \in World}

Spec == Init /\ [][Next]_vars
FairSpec == Spec /\ \A r \in AllRanks : WF_vars(r \in Rank /\ Certain(r) /\ Step(r))

---------------------------------------------------------------------------
(* Type correctness of the ranks' state, for whatever texts they execute.  *)
TypeOK ==
  /\ world \in World
  /\ pc \in [Rank -> Int]
  /\ inside \in [Rank -> BOOLEAN]
  /\ err \in [Rank -> BOOLEAN]
  /\ \A r \in Rank : icall[r] \in 0 .. Len(calls[r])
  /\ \A r \in Rank, g \in Groups : pend[r][g] \in Nat
  /\ \A r \in Rank : epochs[r] \subseteq {"fence", "access", "exposure"}
  /\ \A r \in Rank : \A o \in ops[r] : o.to \in Rank

(* The latest collective operation of a rank is the one that the others    *)
(* made as their k-th: the same operation with the same root, reduction    *)
(* and synchronisation array, at the same message size and iteration.      *)
(* What the loops over sizes, the warm-ups and the breaks after an error   *)
(* of validation could put out of step between the ranks.  (The statistics *)
(* of the nonblocking benchmarks do mix up MIN and MAX: see the README.)   *)
SameCall(c, d) ==
  /\ [c EXCEPT !.reduction = ""] = [d EXCEPT !.reduction = ""]
  /\ c.reduction = d.reduction \/ {c.reduction, d.reduction} = {"MIN", "MAX"}

CollectivesMatch ==
  \A q, r \in Rank : LET k == Len(calls[r]) IN
     k > 0 /\ Entered(q, k) => SameCall(Call(q, k), Call(r, k))

(* A message is received by the receive of its own size and iteration,     *)
(* although all iterations use the same tag.                               *)
OwnIteration == misfit = {}

(* When all ranks have returned from MPI_Finalize there is no message or   *)
(* receive without its counterpart, no nonblocking collective operation    *)
(* not waited for, no one-sided operation, epoch, lock or post             *)
(* outstanding.                                                            *)
NothingLeft ==
  (\A r \in Rank : Finished(r)) =>
     /\ \A pair \in Rank \X Rank : net[pair] = <<>> /\ posted[pair] = <<>>
     /\ \A pair \in Rank \X Rank : tokens[pair] = [post |-> 0, done |-> 0]
     /\ \A r \in Rank :
          /\ icall[r] = 0 /\ ops[r] = {} /\ epochs[r] = {}
          /\ \A t \in Rank : held[r][t] = "none"

(* When a benchmark stops the clock, what it timed has happened: its       *)
(* messages are received, its one-sided operations complete where the      *)
(* benchmark says they are.                                                *)
TimedWorkDone ==
  \A r \in Rank : Runs(r, "Stop") =>
     /\ \A q \in Rank : At(r).local \/ net[r, q] = <<>>
     /\ \A o \in ops[r] : At(r).local /\ o.local

(* A one-sided operation is issued inside an epoch or a lock that covers   *)
(* its target, and a window is freed with no epoch, lock or operation of   *)
(* its owner still open.                                                   *)
EpochsHold ==
  \A r \in Rank :
    /\ Runs(r, "Rma") /\ At(r).window =>
         epochs[r] \intersect {"fence", "access"} # {} \/ held[r][At(r).to] # "none"
    /\ Runs(r, "Coll") /\ At(r).op = "Win_free" /\ ~inside[r] =>
         /\ ops[r] = {} /\ epochs[r] \subseteq {"fence"}
         /\ \A t \in Rank : held[r][t] = "none"

(* Symmetric memory is free when it is used again: nobody writes its own   *)
(* part while an operation of another PE on it is under way, and no PE     *)
(* enters a collective operation whose pSync another has not left.         *)
HasLeft(q, k) == Len(calls[q]) > k \/ (Len(calls[q]) = k /\ ~inside[q])
SymmetricMemoryFree ==
  \A r, q \in Rank :
    /\ Runs(r, "Touch") /\ At(r).ordered /\ q # r => \A o \in ops[q] : o.to # r
    /\ inside[r] /\ At(r).k = "Coll" /\ At(r).psync # "" =>
         \A j \in 1 .. Len(calls[r]) - 1 :
            Call(r, j).psync = At(r).psync => HasLeft(q, j)

(* Every program ends, on every rank: whatever sizes, warm-ups, breaks and *)
(* shares of the work, and without relying on buffered sends.              *)
Terminates == <>(\A r \in Rank : Finished(r))
=============================================================================
