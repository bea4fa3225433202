---------------------------- MODULE MessageChart ----------------------------
(***************************************************************************)
(* The same for messages, and for what must be over at the end: a chart    *)
(* says of each place of a text how many messages a rank has sent to and   *)
(* received from each other rank there, which receives it may still have   *)
(* to wait for, and what else it has begun.                                *)
(***************************************************************************)
EXTENDS TextChart

Posts(i) == i.k \in {"Send", "Isend"}
Receives(i) == i.k \in {"Recv", "Irecv"}

(* By how much instruction i lets the messages to rank q, and the receives *)
(* from it, grow.                                                          *)
Told(i, q) == IF Posts(i) /\ i.peer = q THEN 1 ELSE 0
Heard(i, q) == IF Receives(i) /\ i.peer = q THEN 1 ELSE 0

(* The chart counts the messages at plain places: a break after an error   *)
(* leads away from them, to places behind which there are no messages.     *)
(* The n-th message from one rank to another has the tag, the size and the *)
(* iteration that the n-th receive expects.                                *)
Label(i) == [tag |-> i.tag, at |-> i.at]
IsLetter(chart, r, q, n, i) ==
  n \in DOMAIN chart.letter[r][q] /\ chart.letter[r][q][n] = Label(i)

CountsFrom(w, chart, r, p, t) ==
  LET i == Code[w][r][p] IN
  chart.plain[r][t] =>
    /\ chart.plain[r][p]
    /\ \A q \in DOMAIN Code[w] :
         /\ chart.sent[r][t][q] = chart.sent[r][p][q] + Told(i, q)
         /\ chart.got[r][t][q] = chart.got[r][p][q] + Heard(i, q)

Worded(w, chart, r, p) ==
  LET i == Code[w][r][p] IN
  /\ Posts(i) \/ Receives(i) => chart.plain[r][p] /\ chart.plain[r][p + 1]
  /\ Posts(i) => IsLetter(chart, r, i.peer, chart.sent[r][p][i.peer] + 1, i)
  /\ Receives(i) => IsLetter(chart, i.peer, r, chart.got[r][p][i.peer] + 1, i)

Conversing(w, chart) ==
  \A r \in DOMAIN Code[w] :
    /\ chart.plain[r][1]
    /\ \A q \in DOMAIN Code[w] : chart.sent[r][1][q] = 0 /\ chart.got[r][1][q] = 0
    /\ \A p \in Place(w, r), q \in DOMAIN Code[w] :
         chart.sent[r][p][q] \in Nat /\ chart.got[r][p][q] \in Nat
    /\ \A p \in Line(w, r), e \in BOOLEAN :
         LET t == Target(Code[w][r][p], p, e) IN t \in Place(w, r) => CountsFrom(w, chart, r, p, t)
    /\ \A p \in Line(w, r) : Worded(w, chart, r, p)

(* The groups of receives that a rank may have to wait for.                *)
OpenAfter(i, o) ==
  (o \union IF Receives(i) THEN {i.group} ELSE {})
    \ (IF i.k = "Recv" THEN {"receiving"}
       ELSE IF i.k = "Wait" /\ i.group = "recv" /\ i.left = 0 THEN {"recv"} ELSE {})
Awaited(w, chart) ==
  \A r \in DOMAIN Code[w] : \A p \in Line(w, r), e \in BOOLEAN :
    LET t == Target(Code[w][r][p], p, e) IN
    t \in Place(w, r) => OpenAfter(Code[w][r][p], chart.open[r][p]) \subseteq chart.open[r][t]

(* Where the clock is stopped a rank has what it waited for, and nobody    *)
(* can have sent it that without having received, or being ready to        *)
(* receive, all it has sent; its one-sided operations are complete, where  *)
(* the benchmark says they are.                                            *)
Answered(w, chart, r, p) ==
  /\ chart.plain[r][p] /\ chart.open[r][p] = {}
  /\ \A q \in DOMAIN Code[w] : \A m \in Place(w, q) :
       /\ chart.plain[q][m]
       /\ chart.got[r][p][q] <=
            chart.sent[q][m][r] + IF m \in Line(w, q) THEN Told(Code[w][q][m], r) ELSE 0
       => chart.sent[r][p][q] <= chart.got[q][m][r]
ClockOrdered(w, chart) ==
  \A r \in DOMAIN Code[w] : \A p \in Line(w, r) :
    LET i == Code[w][r][p] IN
    i.k = "Stop" =>
      /\ i.local \/ Answered(w, chart, r, p)
      /\ \A o \in chart.ops[r][p] : i.local /\ o.local

(* The calls of active target synchronisation are counted as well, and a   *)
(* nonblocking collective operation is noted until it is waited for.       *)
Calls == {"Post", "Complete", "WinWait"}
Acts(i, k, q) == IF i.k = k /\ i.to = q THEN 1 ELSE 0
NotedFrom(w, chart, r, p, t) ==
  LET i == Code[w][r][p] IN
  /\ i.k = "Icoll" \/ (chart.begun[r][p] /\ i.k # "WaitColl") => chart.begun[r][t]
  /\ \A k \in Calls, q \in DOMAIN Code[w] :
       chart.acts[r][t][k][q] = chart.acts[r][p][k][q] + Acts(i, k, q)
Noted(w, chart) ==
  \A r \in DOMAIN Code[w] :
    /\ \A k \in Calls, q \in DOMAIN Code[w] : chart.acts[r][1][k][q] = 0
    /\ \A p \in Place(w, r), k \in Calls, q \in DOMAIN Code[w] : chart.acts[r][p][k][q] \in Nat
    /\ \A p \in Line(w, r), e \in BOOLEAN :
         LET t == Target(Code[w][r][p], p, e) IN t \in Place(w, r) => NotedFrom(w, chart, r, p, t)

(* No jump leads beyond the end, no MPI_Abort ends the ranks before, and   *)
(* there what has been begun is over, and what was sent is received.       *)
End(w, r) == Len(Code[w][r]) + 1
Over(w, chart, r) ==
  /\ \A p \in Line(w, r), e \in BOOLEAN : Target(Code[w][r][p], p, e) \in Place(w, r)
  /\ ~chart.begun[r][End(w, r)]
  /\ chart.ops[r][End(w, r)] = {} /\ chart.epochs[r][End(w, r)] = {}
  /\ \A t \in DOMAIN Code[w] : chart.held[r][End(w, r)][t] = "none"
Balanced(w, chart, r, q) ==
  /\ chart.plain[r][End(w, r)]
  /\ chart.sent[r][End(w, r)][q] = chart.got[q][End(w, q)][r]
  /\ chart.acts[r][End(w, r)]["Post"][q] = chart.acts[q][End(w, q)]["Complete"][r]
  /\ chart.acts[r][End(w, r)]["Complete"][q] = chart.acts[q][End(w, q)]["WinWait"][r]
Concluded(w, chart) ==
  /\ ~Aborts(w)
  /\ \A r \in DOMAIN Code[w] : Over(w, chart, r) /\ \A q \in DOMAIN Code[w] : Balanced(w, chart, r, q)

---------------------------------------------------------------------------
(* What the ranks make of it.  A rank has sent and received as many        *)
(* messages as the chart says for a place: its own, or, if that is not a   *)
(* plain one, one that it has come by.                                     *)
OnPlain(chart, r) == pc[r] \in Place(world, r) /\ chart.plain[r][pc[r]]
Anchors(chart, r) ==
  IF OnPlain(chart, r) THEN {pc[r]} ELSE {m \in Place(world, r) : chart.plain[r][m]}
Sent(chart, r, m, q) == chart.sent[r][m][q] + IF inside[r] THEN Told(At(r), q) ELSE 0
Got(chart, r, m, q) == chart.got[r][m][q] + IF inside[r] THEN Heard(At(r), q) ELSE 0

(* Of s messages sent and n received, those wait that have no counterpart, *)
(* in the order of their numbers.                                          *)
Queued(letter, queue, some, others) ==
  /\ Len(queue) = IF some > others THEN some - others ELSE 0
  /\ \A i \in 1 .. Len(queue) : others + i \in DOMAIN letter /\ Label(queue[i]) = letter[others + i]
InOrder(chart, r, q, s, n) ==
  /\ Queued(chart.letter[r][q], net[r, q], s, n)
  /\ Queued(chart.letter[r][q], posted[r, q], n, s)

Exchanged(chart, r, q) ==
  \E m \in Anchors(chart, r), l \in Anchors(chart, q) :
    /\ InOrder(chart, r, q, Sent(chart, r, m, q), Got(chart, q, l, r))
    /\ InOrder(chart, q, r, Sent(chart, q, l, r), Got(chart, r, m, q))
Exchanging(chart) == Going => \A r, q \in Rank : Exchanged(chart, r, q)

(* A receive without its message is one that the chart has still open.     *)
Opened(chart, r) ==
  chart.open[r][pc[r]] \union IF inside[r] /\ Receives(At(r)) THEN {At(r).group} ELSE {}
Wanted(r) == UNION {{posted[q, r][i].group : i \in 1 .. Len(posted[q, r])} : q \in Rank}
Awaiting(chart) ==
  Going => \A r \in Rank : pc[r] \in Place(world, r) => Wanted(r) \subseteq Opened(chart, r)

(* The tokens of active target synchronisation are the calls of the one    *)
(* rank that the other has not answered.                                   *)
Answering(chart) ==
  Going => \A r, q \in Rank :
    pc[r] \in Place(world, r) /\ pc[q] \in Place(world, q) =>
      tokens[r, q] =
        [post |-> chart.acts[r][pc[r]]["Post"][q] - chart.acts[q][pc[q]]["Complete"][r],
         done |-> chart.acts[r][pc[r]]["Complete"][q] - chart.acts[q][pc[q]]["WinWait"][r]]
Beginning(chart) ==
  Going => \A r \in Rank :
    pc[r] \in Place(world, r) /\ icall[r] # 0 => chart.begun[r][pc[r]]

---------------------------------------------------------------------------
(* A chart made by reading line by line.                                   *)
MetIn(w, text, Chosen(_)) ==
  [p \in 1 .. Len(text) + 1 |-> [q \in DOMAIN Code[w] |->
     Cardinality({m \in 1 .. p - 1 : Chosen(text[m]) /\ text[m].peer = q})]]
PlainIn(w, text) ==
  LET sent == MetIn(w, text, Posts)
      got == MetIn(w, text, Receives)
      plain[p \in 1 .. Len(text) + 1] ==
        \/ p = 1
        \/ /\ plain[p - 1]
           /\ \A m \in 1 .. Len(text) :
                text[m].k = "Break" /\ m + text[m].by = p => sent[m] = sent[p] /\ got[m] = got[p]
  IN  plain
LetterIn(w, text, q) ==
  LET said == SelectSeq(text, LAMBDA i : Posts(i) /\ i.peer = q)
  IN  [n \in 1 .. Len(said) |-> Label(said[n])]
OpenIn(text) ==
  LET open[p \in 1 .. Len(text) + 1] ==
        IF p = 1 THEN {} ELSE OpenAfter(text[p - 1], open[p - 1])
  IN  open
ActsIn(w, text) ==
  [p \in 1 .. Len(text) + 1 |-> [k \in Calls |-> [q \in DOMAIN Code[w] |->
     Cardinality({m \in 1 .. p - 1 : text[m].k = k /\ text[m].to = q})]]]
BegunIn(text) ==
  LET begun[p \in 1 .. Len(text) + 1] ==
        /\ p > 1
        /\ text[p - 1].k = "Icoll" \/ (begun[p - 1] /\ text[p - 1].k # "WaitColl")
  IN  begun
=============================================================================
