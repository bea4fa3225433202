------------------------- MODULE MCParallelProgram -------------------------
EXTENDS MessageChart, BenchmarkPrograms, TLC

(* f with its values computed once. *)
Tabulate(f) == f @@ <<>>
Texts == Tabulate([w \in Worlds |-> Tabulate(TextOf(w))])

MCWorld == Worlds
(* The LET keeps the texts out of the coverage statistics of every action. *)
MCCode == LET texts == Texts IN texts

Plans == Tabulate([w \in Worlds |->
  LET plan == PlanOf(w) IN
  [next |-> Tabulate([r \in DOMAIN Code[w] |->
              Tabulate([p \in Place(w, r) |-> Tabulate(plan.next[r][p])])]),
   agreed |-> Tabulate([r \in DOMAIN Code[w] |-> Tabulate(plan.agreed[r])])]])
MCPlans == LET plans == Plans IN plans

(* The programs whose ranks tell each other of errors by collective        *)
(* operations only: all but osu_latency and osu_bw.                        *)
Silent(w) ==
  \A r \in DOMAIN Code[w] : \A p \in Line(w, r) : ~CarriesErrors(Code[w][r][p])

Checks == Tabulate([w \in Worlds |->
  [silent |-> Silent(w), planned |-> Silent(w) => Planned(w, MCPlans[w])]])
MCChecks == LET checks == Checks IN checks

Charts == Tabulate([w \in Worlds |->
  [ops |-> Tabulate([r \in DOMAIN Code[w] |-> Tabulate(OpsIn(Code[w][r]))]),
   epochs |-> Tabulate([r \in DOMAIN Code[w] |-> Tabulate(EpochsIn(Code[w][r]))]),
   held |-> Tabulate([r \in DOMAIN Code[w] |-> Tabulate(HeldIn(w, Code[w][r]))]),
   number |-> Tabulate([r \in DOMAIN Code[w] |-> Tabulate(NumberIn(Code[w][r]))]),
   gate |-> Tabulate([r \in DOMAIN Code[w] |-> Tabulate(GateIn(Code[w][r]))]),
   sent |-> Tabulate([r \in DOMAIN Code[w] |-> Tabulate(MetIn(w, Code[w][r], Posts))]),
   got |-> Tabulate([r \in DOMAIN Code[w] |-> Tabulate(MetIn(w, Code[w][r], Receives))]),
   plain |-> Tabulate([r \in DOMAIN Code[w] |-> Tabulate(PlainIn(w, Code[w][r]))]),
   open |-> Tabulate([r \in DOMAIN Code[w] |-> Tabulate(OpenIn(Code[w][r]))]),
   acts |-> Tabulate([r \in DOMAIN Code[w] |-> Tabulate(ActsIn(w, Code[w][r]))]),
   begun |-> Tabulate([r \in DOMAIN Code[w] |-> Tabulate(BegunIn(Code[w][r]))]),
   letter |-> Tabulate([r \in DOMAIN Code[w] |->
                [q \in DOMAIN Code[w] |-> Tabulate(LetterIn(w, Code[w][r], q))]])]])
MCCharts == LET charts == Charts IN charts

(* Texts in which no error of validation leads past a message, and no      *)
(* MPI_Abort past the rest: all but those of osu_latency, osu_multi_lat,   *)
(* osu_bw and osu_mbw_mr with --validation, and of the small program that  *)
(* calls MPI_Abort.                                                        *)
Says(i) == Posts(i) \/ Receives(i)
SkipsNone(text) ==
  \A p \in 1 .. Len(text) :
    text[p].k = "Break" => \A m \in p .. p + text[p].by - 1 : ~Says(text[m])
Straight(w) == ~Aborts(w) /\ \A r \in DOMAIN Code[w] : SkipsNone(Code[w][r])

ChartChecks == Tabulate([w \in Worlds |->
  LET chart == MCCharts[w] IN
  [ordered |-> /\ Charted(w, chart) /\ MemoryOrdered(w, chart) /\ EpochsOrdered(w, chart)
               /\ Conversing(w, chart) /\ Awaited(w, chart) /\ ClockOrdered(w, chart)
               /\ Noted(w, chart)
               /\ Straight(w) => Concluded(w, chart),
   counted |-> Counted(w, chart)]])
MCChartChecks == LET checks == ChartChecks IN checks

(* Each of these programs has a plan by which its ranks number their       *)
(* collective operations alike, and they keep to it: whoever comes to an   *)
(* operation comes from where the ones before have sent it, and what it    *)
(* knows of errors of validation is agreed wherever its way depends on it. *)
PlanKept ==
  MCChecks[world].silent => MCChecks[world].planned /\ PlanInv(MCPlans[world])

(* Each program, read line by line, has its one-sided operations covered   *)
(* and ordered, and its ranks have what the reading says they may have.    *)
ChartKept ==
  /\ MCChartChecks[world].ordered
  /\ Fitting(MCCharts[world])
  /\ MCChartChecks[world].counted => Counting(MCCharts[world])
  /\ Exchanging(MCCharts[world]) /\ Awaiting(MCCharts[world])
  /\ Answering(MCCharts[world]) /\ Beginning(MCCharts[world])

(* That operations match, and that memory is not used too early, can be    *)
(* read off the texts of the programs: the ranks are where the texts say,  *)
(* whatever order they run in and whatever errors of validation they find. *)
TextsKept == PlanKept /\ ChartKept
=============================================================================
