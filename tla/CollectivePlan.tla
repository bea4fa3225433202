--------------------------- MODULE CollectivePlan ---------------------------
(***************************************************************************)
(* Why the collective operations of ranks match that decide for themselves *)
(* where an error of validation takes them: a condition on the texts, that *)
(* the collective operations in them can be numbered alike, and what it    *)
(* means for the ranks while they execute them.                            *)
(***************************************************************************)
EXTENDS ParallelProgram

Line(w, r) == 1 .. Len(Code[w][r])
Place(w, r) == 1 .. Len(Code[w][r]) + 1
Collects(i) == i.k \in {"Coll", "Icoll"}

(* Instructions after which all ranks know the same of errors, and those   *)
(* that change what one rank knows.                                        *)
Shares(i) == i.k = "Coll" /\ i.errors /\ i.sort \in {"all", "from"}
Differs(i) == i.k = "Validate" \/ (i.k = "Coll" /\ i.errors /\ ~Shares(i))

(* Where the instruction i in line p leads a rank to that knows of an      *)
(* error, or does not.                                                     *)
Target(i, p, e) ==
  CASE i.k = "Goto" -> p - i.back
    [] i.k = "Break" /\ e -> p + i.by
    [] OTHER -> p + 1

(* A plan for a world says, for each rank at each place of its text, which *)
(* number the collective operation has that it comes to next, knowing of   *)
(* an error or not, and whether what it knows is agreed: the same on all   *)
(* ranks that come from operations of one number.  The number of a         *)
(* collective operation itself does not depend on errors.                  *)
Number(plan, r, p) == plan.next[r][p][TRUE]

(* The plan follows the instructions of a rank.                            *)
Followed(w, plan, r) ==
  \A p \in Line(w, r), e \in BOOLEAN :
    LET i == Code[w][r][p]
        t == Target(i, p, e)
    IN  /\ Collects(i) => plan.next[r][p][e] = Number(plan, r, p)
        /\ t \in Place(w, r) =>
             /\ plan.agreed[r][t] => Shares(i) \/ (plan.agreed[r][p] /\ ~Differs(i))
             /\ \A f \in BOOLEAN : ~Collects(i) /\ (f = e \/ Differs(i)) =>
                  plan.next[r][t][f] = plan.next[r][p][e]

(* From places p and m two ranks go on to the same number; if it depends   *)
(* on errors, these are agreed.                                            *)
SentAlike(plan, r, p, q, m) ==
  /\ plan.agreed[r][p] <=> plan.agreed[q][m]
  /\ \A e \in BOOLEAN : plan.next[r][p][e] = plan.next[q][m][e]
  /\ plan.next[r][p][TRUE] = plan.next[r][p][FALSE] \/ plan.agreed[r][p]

(* Operations of one number are the same, and so is what comes next.       *)
Parallel(w, plan, r, q) ==
  \A p \in Line(w, r), m \in Line(w, q) :
    LET i == Code[w][r][p]
        j == Code[w][q][m]
    IN  Collects(i) /\ Collects(j) /\ Number(plan, r, p) = Number(plan, q, m) =>
          /\ SameCall(i, j)
          /\ plan.agreed[r][p] <=> plan.agreed[q][m]
          /\ SentAlike(plan, r, p + 1, q, m + 1)

CarriesErrors(i) == i.k \in {"Send", "Isend"} /\ i.errors

Planned(w, plan) ==
  /\ \A r \in DOMAIN Code[w] :
       /\ Followed(w, plan, r)
       /\ \A p \in Line(w, r) : ~CarriesErrors(Code[w][r][p])
  /\ \A r, q \in DOMAIN Code[w] :
       /\ Parallel(w, plan, r, q)
       /\ plan.next[r][1][FALSE] = plan.next[q][1][FALSE]

---------------------------------------------------------------------------
(* What the ranks make of a plan.  MPI_Abort ends them wherever they are.   *)
Running == \E r \in Rank : ~Finished(r)

(* What a rank knows of errors from its first k operations.                *)
Verdict(r, k) ==
  IF k = 0 THEN FALSE
  ELSE LET c == Call(r, k) IN
       IF ~Shares(c) THEN calls[r][k].flag
       ELSE \E q \in Rank :
              (c.sort = "from" => q = c.root) /\ Entered(q, k) /\ calls[q][k].flag

(* The place behind the first k operations.                                *)
Behind(r, k) == IF k = 0 THEN 1 ELSE calls[r][k].line + 1
InCollective(r) == inside[r] /\ At(r).k = "Coll"

(* The k-th operations of all ranks have one number.                       *)
Numbered(plan) ==
  \A r, q \in Rank : \A k \in 1 .. Len(calls[r]) :
    Entered(q, k) =>
      Number(plan, r, calls[r][k].line) = Number(plan, q, calls[q][k].line)

(* At place p, knowing e of errors, a rank goes where its first k          *)
(* operations have sent it: from place b, knowing v.                       *)
Leads(plan, r, k, b, v, p, e) ==
  /\ plan.next[r][p][e] = plan.next[r][b][v]
  /\ plan.agreed[r][p] => (e <=> v) /\ (k > 0 => plan.agreed[r][b])
OnTheWay(plan, r, k, p, e) == Leads(plan, r, k, Behind(r, k), Verdict(r, k), p, e)

Came(plan, r) ==
  \A k \in 1 .. Len(calls[r]) :
    OnTheWay(plan, r, k - 1, calls[r][k].line, calls[r][k].flag)
Comes(plan, r) ==
  ~Finished(r) /\ ~InCollective(r) => OnTheWay(plan, r, Len(calls[r]), pc[r], err[r])
Ways(plan) == Running => \A r \in Rank : Came(plan, r) /\ Comes(plan, r)

(* Where errors are agreed after operations of one number, the verdicts    *)
(* are the same.                                                           *)
Unanimous(plan) ==
  Running => \A r, q \in Rank : \A k \in 1 .. Len(calls[r]) :
    Entered(q, k) /\ plan.agreed[r][calls[r][k].line + 1] =>
      (Verdict(r, k) <=> Verdict(q, k))

(* In a collective operation a rank knows what it came with.               *)
Kept == \A r \in Rank : InCollective(r) => (err[r] <=> calls[r][Len(calls[r])].flag)

PlanInv(plan) == Numbered(plan) /\ Ways(plan) /\ Unanimous(plan) /\ Kept

---------------------------------------------------------------------------
(* A plan for texts without loops: operations are numbered from the end,   *)
(* and errors are agreed from where they are shared to where they matter.  *)
NextIn(text) ==
  LET next[p \in 1 .. Len(text) + 1] == [e \in BOOLEAN |->
        IF p = Len(text) + 1 THEN 0
        ELSE IF Collects(text[p])
        THEN Cardinality({m \in p .. Len(text) : Collects(text[m])})
        ELSE next[Target(text[p], p, e)][e]]
  IN  next

AgreedIn(text) ==
  LET agreed[p \in 1 .. Len(text) + 1] ==
        /\ p <= Len(text) /\ ~Shares(text[p])
        /\ text[p].k = "Break" \/ agreed[p + 1]
  IN  agreed

PlanOf(w) ==
  [next |-> [r \in DOMAIN Code[w] |-> NextIn(Code[w][r])],
   agreed |-> [r \in DOMAIN Code[w] |-> AgreedIn(Code[w][r])]]

=============================================================================
