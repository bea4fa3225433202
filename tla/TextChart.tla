----------------------------- MODULE TextChart -----------------------------
(***************************************************************************)
(* Conditions on texts that only have to be read, not executed, for what   *)
(* ranks do to each other's memory to be safe: a chart says of each place  *)
(* of a text which one-sided operations, epochs and locks a rank has there *)
(* and how many collective operations it has behind it.                    *)
(***************************************************************************)
EXTENDS CollectivePlan

(* What a rank that executes instruction i makes of its one-sided          *)
(* operations o: which of them remain, and which are changed or new.       *)
Remains(i, x) ==
  /\ ~(Collects(i) /\ i.quiet)
  /\ i.k \in {"Flush", "Unlock"} => x.to \notin i.to
  /\ i.k = "Complete" => x.to # i.to
LeftOrigin(i, o) ==
  {[x EXCEPT !.local = TRUE] :
     x \in {y \in o : i.k = "Flush" /\ i.local /\ y.to \in i.to /\ y.kind # "get"}}
Issued(i) == IF i.k = "Rma" THEN {[to |-> i.to, kind |-> i.kind, local |-> FALSE]} ELSE {}
OpsAfter(i, o) == {x \in o : Remains(i, x)} \union LeftOrigin(i, o) \union Issued(i)

(* ... and of its epochs e and locks h.                                    *)
Ends(i, x) ==
  \/ Collects(i) /\ i.op \in {"Win_fence", "Win_free"}
  \/ i.k = "Complete" /\ x = "access"
  \/ i.k = "WinWait" /\ x = "exposure"
Begins(i, x) ==
  \/ Collects(i) /\ i.op = "Win_fence" /\ x = "fence"
  \/ i.k = "Start" /\ x = "access"
  \/ i.k = "Post" /\ x = "exposure"
EpochsAfter(i, e) ==
  {x \in {"fence", "access", "exposure"} : (x \in e /\ ~Ends(i, x)) \/ Begins(i, x)}

Locks(i) == i.k \in {"Lock", "Unlock"}
HeldAfter(w, i, h) ==
  IF Locks(i)
  THEN [t \in DOMAIN Code[w] |->
          IF t \in i.to THEN (IF i.k = "Lock" THEN i.mode ELSE "none") ELSE h[t]]
  ELSE h

(* The chart follows the instructions: the operations in it are all that a *)
(* rank may have there, the epochs and locks those that it has.            *)
Charted(w, chart) ==
  \A r \in DOMAIN Code[w] :
    /\ chart.epochs[r][1] = {}
    /\ chart.held[r][1] = [t \in DOMAIN Code[w] |-> "none"]
    /\ \A p \in Line(w, r), e \in BOOLEAN :
         LET i == Code[w][r][p]
             t == Target(i, p, e)
         IN  t \in Place(w, r) =>
               /\ OpsAfter(i, chart.ops[r][p]) \subseteq chart.ops[r][t]
               /\ chart.epochs[r][t] = EpochsAfter(i, chart.epochs[r][p])
               /\ chart.held[r][t] = HeldAfter(w, i, chart.held[r][p])

(* No way through a text leaves a collective operation out, and the chart  *)
(* counts them, up to the place and up to the last in which all ranks wait *)
(* for all.                                                                *)
Gate(i) == i.k = "Coll" /\ i.sort = "all"
Counted(w, chart) ==
  \A r \in DOMAIN Code[w] :
    /\ \A p \in Place(w, r) : chart.number[r][p] \in Nat /\ chart.gate[r][p] \in Nat
    /\ chart.number[r][1] = 0 /\ chart.gate[r][1] = 0
    /\ \A p \in Line(w, r), e \in BOOLEAN :
         LET i == Code[w][r][p]
             t == Target(i, p, e)
         IN  /\ t \in Place(w, r)
             /\ chart.number[r][t] = chart.number[r][p] + IF Collects(i) THEN 1 ELSE 0
             /\ chart.gate[r][t] = IF Gate(i) THEN chart.number[r][t] ELSE chart.gate[r][p]

(* Two ranks can be at places p and m at a time only if neither place is   *)
(* behind a gate that lies before the other.                               *)
Meet(chart, r, p, q, m) ==
  chart.gate[r][p] <= chart.number[q][m] /\ chart.gate[q][m] <= chart.number[r][p]

(* Where a rank uses its own memory nobody who may be there at the time    *)
(* has an operation on it, and between two uses of a pSync array everyone  *)
(* waits for everyone.                                                     *)
UsesOwn(i) == i.k = "Touch" /\ i.ordered
UsesSync(i) == i.k = "Coll" /\ i.psync # ""

Undisturbed(w, chart, r, p) ==
  \A q \in DOMAIN Code[w] \ {r} : \A m \in Place(w, q) :
    Meet(chart, r, p, q, m) => \A o \in chart.ops[q][m] : o.to # r

SyncIsFree(w, chart, r, p) ==
  \A m \in Line(w, r) :
    /\ Collects(Code[w][r][m]) /\ Code[w][r][m].psync = Code[w][r][p].psync
    /\ chart.number[r][m] < chart.number[r][p]
    => chart.number[r][m] + 1 < chart.gate[r][p]

MemoryOrdered(w, chart) ==
  \A r \in DOMAIN Code[w] : \A p \in Line(w, r) :
    /\ UsesOwn(Code[w][r][p]) => Counted(w, chart) /\ Undisturbed(w, chart, r, p)
    /\ UsesSync(Code[w][r][p]) => Counted(w, chart) /\ SyncIsFree(w, chart, r, p)

(* One-sided operations on windows are covered, and a window is freed when *)
(* nothing on it is open.                                                  *)
EpochsOrdered(w, chart) ==
  \A r \in DOMAIN Code[w] : \A p \in Line(w, r) :
    LET i == Code[w][r][p] IN
    /\ i.k = "Rma" /\ i.window =>
         chart.epochs[r][p] \intersect {"fence", "access"} # {} \/ chart.held[r][p][i.to] # "none"
    /\ i.k = "Coll" /\ i.op = "Win_free" =>
         /\ chart.ops[r][p] = {} /\ chart.epochs[r][p] \subseteq {"fence"}
         /\ \A t \in DOMAIN Code[w] : chart.held[r][p][t] = "none"

---------------------------------------------------------------------------
(* What the ranks make of a chart, until MPI_Abort ends them wherever they *)
(* are.                                                                    *)
Aborts(w) == \E r \in DOMAIN Code[w] : \E p \in Line(w, r) : Code[w][r][p].k = "Abort"
Going == Running \/ ~Aborts(world)

(* A rank has what the chart says: before it makes the step at its place,  *)
(* or, inside a collective operation, as after it.                         *)
HasAt(chart, r, p, o, e, h) ==
  o \subseteq chart.ops[r][p] /\ e = chart.epochs[r][p] /\ h = chart.held[r][p]
HasAfter(w, chart, r, i, p, o, e, h) ==
  /\ o \subseteq OpsAfter(i, chart.ops[r][p])
  /\ e = EpochsAfter(i, chart.epochs[r][p])
  /\ h = HeldAfter(w, i, chart.held[r][p])
Fits(chart, r) ==
  pc[r] \in Place(world, r) =>
    IF InCollective(r)
    THEN HasAfter(world, chart, r, At(r), pc[r], ops[r], epochs[r], held[r])
    ELSE HasAt(chart, r, pc[r], ops[r], epochs[r], held[r])
Fitting(chart) == Going => \A r \in Rank : Fits(chart, r)

(* The chart counts the collective operations a rank has entered, and all  *)
(* ranks have entered those up to the gate that it is behind.              *)
Count(chart, r) ==
  /\ \A k \in 1 .. Len(calls[r]) : chart.number[r][calls[r][k].line] = k - 1
  /\ pc[r] \in Place(world, r)
  /\ Len(calls[r]) = chart.number[r][pc[r]] + IF InCollective(r) THEN 1 ELSE 0
  /\ \A q \in Rank : Entered(q, chart.gate[r][pc[r]])
Counting(chart) == Running => \A r \in Rank : Count(chart, r)

---------------------------------------------------------------------------
(* A chart made by following a text from line to line; Charted is what     *)
(* tells whether its jumps agree with it.                                  *)
OpsIn(text) ==
  LET have[p \in 1 .. Len(text) + 1] ==
        IF p = 1 THEN {} ELSE OpsAfter(text[p - 1], have[p - 1])
  IN  have
EpochsIn(text) ==
  LET have[p \in 1 .. Len(text) + 1] ==
        IF p = 1 THEN {} ELSE EpochsAfter(text[p - 1], have[p - 1])
  IN  have
HeldIn(w, text) ==
  LET have[p \in 1 .. Len(text) + 1] ==
        IF p = 1 THEN [t \in DOMAIN Code[w] |-> "none"] ELSE HeldAfter(w, text[p - 1], have[p - 1])
  IN  have
NumberIn(text) ==
  [p \in 1 .. Len(text) + 1 |-> Cardinality({m \in 1 .. p - 1 : Collects(text[m])})]
GateIn(text) ==
  LET have[p \in 1 .. Len(text) + 1] ==
        IF p = 1 THEN 0
        ELSE IF Gate(text[p - 1]) THEN NumberIn(text)[p] ELSE have[p - 1]
  IN  have
=============================================================================
