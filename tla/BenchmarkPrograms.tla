------------------------- MODULE BenchmarkPrograms -------------------------
(* The programs by name, and the worlds they are started in.               *)
EXTENDS OsuPt2pt, OsuCollective, OsuNccl, OsuOneSided, OsuOpenShmem, OsuUpc,
        PlaygroundPrograms

TextOf(w) ==
  CASE w.prog = "osu_latency" -> OsuLatency(w)
    [] w.prog = "osu_latency_mp" -> OsuLatencyMp(w)
    [] w.prog = "osu_multi_lat" -> OsuMultiLat(w)
    [] w.prog = "osu_bw" -> OsuBw(w, FALSE)
    [] w.prog = "osu_bw -b multiple" -> OsuBw(w, TRUE)
    [] w.prog = "osu_bibw" -> OsuBibw(w, FALSE)
    [] w.prog = "osu_bibw -b multiple" -> OsuBibw(w, TRUE)
    [] w.prog = "osu_mbw_mr" -> OsuMbwMr(w, FALSE)
    [] w.prog = "osu_mbw_mr -V" -> OsuMbwMr(w, TRUE)
    [] w.prog = "osu_allgather" -> OsuAllgather(w)
    [] w.prog = "osu_allgatherv" -> OsuAllgatherv(w)
    [] w.prog = "osu_allreduce" -> OsuAllreduce(w)
    [] w.prog = "osu_alltoall" -> OsuAlltoall(w)
    [] w.prog = "osu_alltoallw" -> OsuAlltoallw(w)
    [] w.prog = "osu_bcast" -> OsuBcast(w)
    [] w.prog = "osu_gather" -> OsuGather(w)
    [] w.prog = "osu_gatherv" -> OsuGatherv(w)
    [] w.prog = "osu_reduce_scatter" -> OsuReduceScatter(w)
    [] w.prog = "osu_scatter" -> OsuScatter(w)
    [] w.prog = "osu_scatterv" -> OsuScatterv(w)
    [] w.prog = "osu_alltoallv" -> OsuAlltoallv(w)
    [] w.prog = "osu_reduce" -> OsuReduce(w)
    [] w.prog = "osu_barrier" -> OsuBarrier(w)
    [] w.prog = "osu_init" -> OsuInit(w)
    [] w.prog = "osu_hello" -> OsuHello(w)
    [] w.prog = "osu_iallgather" -> OsuIallgather(w)
    [] w.prog = "osu_iallgatherv" -> OsuIallgatherv(w)
    [] w.prog = "osu_iallreduce" -> OsuIallreduce(w)
    [] w.prog = "osu_ialltoall" -> OsuIalltoall(w)
    [] w.prog = "osu_ialltoallv" -> OsuIalltoallv(w)
    [] w.prog = "osu_ialltoallw" -> OsuIalltoallw(w)
    [] w.prog = "osu_ibcast" -> OsuIbcast(w)
    [] w.prog = "osu_igather" -> OsuIgather(w)
    [] w.prog = "osu_igatherv" -> OsuIgatherv(w)
    [] w.prog = "osu_ireduce" -> OsuIreduce(w)
    [] w.prog = "osu_iscatter" -> OsuIscatter(w)
    [] w.prog = "osu_iscatterv" -> OsuIscatterv(w)
    [] w.prog = "osu_ibarrier" -> OsuIbarrier(w)
    [] w.prog = "osu_nccl_allgather" -> OsuNcclAllgather(w)
    [] w.prog = "osu_nccl_allreduce" -> OsuNcclAllreduce(w)
    [] w.prog = "osu_nccl_bcast" -> OsuNcclBcast(w)
    [] w.prog = "osu_nccl_reduce" -> OsuNcclReduce(w)
    [] w.prog = "osu_nccl_reduce_scatter" -> OsuNcclReduceScatter(w)
    [] w.prog = "osu_nccl_alltoall" -> OsuNcclAlltoall(w)
    [] w.prog = "osu_put_latency" -> OsuPutLatency(w)
    [] w.prog = "osu_put_bw" -> OsuPutBw(w)
    [] w.prog = "osu_put_bibw" -> OsuPutBibw(w)
    [] w.prog = "osu_acc_latency" -> OsuAccLatency(w)
    [] w.prog = "osu_cas_latency" -> OsuCasLatency(w)
    [] w.prog = "osu_fop_latency" -> OsuFopLatency(w)
    [] w.prog = "osu_get_acc_latency" -> OsuGetAccLatency(w)
    [] w.prog = "osu_get_bw" -> OsuGetBw(w)
    [] w.prog = "osu_get_latency" -> OsuGetLatency(w)
    [] w.prog = "osu_nccl_latency" -> OsuNcclLatency(w)
    [] w.prog = "osu_nccl_bw" -> OsuNcclBw(w)
    [] w.prog = "osu_nccl_bibw" -> OsuNcclBibw(w)
    [] w.prog = "osu_oshm_put" -> OsuOshmPut(w)
    [] w.prog = "osu_oshm_put_nb" -> OsuOshmPutNb(w)
    [] w.prog = "osu_oshm_get" -> OsuOshmGet(w)
    [] w.prog = "osu_oshm_get_nb" -> OsuOshmGetNb(w)
    [] w.prog = "osu_oshm_put_overlap" -> OsuOshmPutOverlap(w)
    [] w.prog = "osu_oshm_put_mr" -> OsuOshmPutMr(w)
    [] w.prog = "osu_oshm_put_mr_nb" -> OsuOshmPutMrNb(w)
    [] w.prog = "osu_oshm_get_mr_nb" -> OsuOshmGetMrNb(w)
    [] w.prog = "osu_oshm_atomics" -> OsuOshmAtomics(w)
    [] w.prog = "osu_oshm_broadcast" -> OsuOshmBroadcast(w)
    [] w.prog = "osu_oshm_collect" -> OsuOshmCollect(w)
    [] w.prog = "osu_oshm_fcollect" -> OsuOshmFcollect(w)
    [] w.prog = "osu_oshm_reduce" -> OsuOshmReduce(w)
    [] w.prog = "osu_oshm_barrier" -> OsuOshmBarrier(w)
    [] w.prog = "osu_upcxx_allgather" -> OsuUpcxxAllgather(w)
    [] w.prog = "osu_upcxx_alltoall" -> OsuUpcxxAlltoall(w)
    [] w.prog = "osu_upcxx_bcast" -> OsuUpcxxBcast(w)
    [] w.prog = "osu_upcxx_gather" -> OsuUpcxxGather(w)
    [] w.prog = "osu_upcxx_reduce" -> OsuUpcxxReduce(w)
    [] w.prog = "osu_upcxx_scatter" -> OsuUpcxxScatter(w)
    [] w.prog = "osu_upcxx_async_copy_put" -> OsuUpcxxAsyncCopyPut(w)
    [] w.prog = "osu_upcxx_async_copy_get" -> OsuUpcxxAsyncCopyGet(w)
    [] w.prog = "one_sided" -> OneSidedDemo(w)
    [] w.prog = "ibarrier" -> IbarrierDemo(w)
    [] w.prog = "abort" -> AbortDemo(w)
    [] w.prog = "alltoall" -> AlltoallDemo(w)
    [] w.prog = "round_robin_pt2pt" -> RoundRobin(w)
    [] w.prog = "parallel_sort_mpl" -> ParallelSortMpl(w)
    [] w.prog = "collective_write.py" -> CollectiveWrite(w)
    [] w.prog = "collective_read.py 5" -> CollectiveRead(w, 5)
    [] w.prog = "osu_allgather.py" -> PyAllgather(w)
    [] w.prog = "osu_alltoall.py" -> PyAlltoall(w)
    [] w.prog = "osu_alltoallv.py" -> PyAlltoallv(w)
    [] w.prog = "osu_bcast.py" -> PyBcast(w)
    [] w.prog = "osu_gather.py" -> PyGather(w)
    [] w.prog = "osu_scatter.py" -> PyScatter(w)
    [] w.prog = "osu_barrier.py" -> PyBarrier(w)
    [] w.prog = "osu_latency.py" -> PyLatency(w)
    [] w.prog = "osu_bw.py" -> PyBw(w)
    [] w.prog = "osu_bibw.py" -> PyBibw(w)
    [] w.prog = "collective.py" -> PyBcastDemo(w)
    [] w.prog = "iallreduce.py" -> PyIallreduceDemo(w)
    [] w.prog = "nb.py" -> PyMessageDemo(w)
    [] w.prog = "osu_upc_all_broadcast" -> OsuUpcBroadcast(w)
    [] w.prog = "osu_upc_all_exchange" -> OsuUpcExchange(w)
    [] w.prog = "osu_upc_all_gather" -> OsuUpcGather(w)
    [] w.prog = "osu_upc_all_gather_all" -> OsuUpcGatherAll(w)
    [] w.prog = "osu_upc_all_reduce" -> OsuUpcReduce(w)
    [] w.prog = "osu_upc_all_scatter" -> OsuUpcScatter(w)
    [] w.prog = "osu_upc_all_barrier" -> OsuUpcBarrier(w)
    [] w.prog = "osu_upc_memput" -> OsuUpcMemput(w)
    [] w.prog = "osu_upc_memget" -> OsuUpcMemget(w)

Given(programs, sizes, validations) ==
  [prog : programs, n : sizes, okay : {TRUE}, v : validations, sync : {""}, dynamic : {FALSE}]
Refused(programs) == {[w EXCEPT !.okay = FALSE] : w \in Given(programs, {2}, {FALSE})}
Synchronisations == {"flush", "flush_local", "lock", "lock_all", "fence", "pscw"}
OneSided(programs, syncs, windows) ==
  [prog : programs, n : {2}, okay : {TRUE}, v : {FALSE}, sync : syncs, dynamic : windows]

Blockings == {"osu_allgather", "osu_allgatherv", "osu_allreduce", "osu_alltoall",
  "osu_alltoallv", "osu_alltoallw", "osu_bcast", "osu_gather", "osu_gatherv",
  "osu_reduce_scatter", "osu_scatter", "osu_scatterv", "osu_reduce"}
Nonblockings == {"osu_iallgather", "osu_iallgatherv", "osu_iallreduce", "osu_ialltoall",
  "osu_ialltoallv", "osu_ialltoallw", "osu_ibcast", "osu_igather", "osu_igatherv",
  "osu_ireduce", "osu_iscatter", "osu_iscatterv"}
NcclCollectives == {"osu_nccl_allgather", "osu_nccl_allreduce", "osu_nccl_bcast",
  "osu_nccl_reduce", "osu_nccl_reduce_scatter", "osu_nccl_alltoall"}

OshmTransfers == {"osu_oshm_put", "osu_oshm_put_nb", "osu_oshm_get", "osu_oshm_get_nb",
  "osu_oshm_put_overlap"}
OshmRates == {"osu_oshm_put_mr", "osu_oshm_put_mr_nb", "osu_oshm_get_mr_nb",
  "osu_oshm_atomics"}
OshmCollectives == {"osu_oshm_broadcast", "osu_oshm_collect", "osu_oshm_fcollect",
  "osu_oshm_reduce", "osu_oshm_barrier"}
UpcPrograms == {"osu_upc_all_broadcast", "osu_upc_all_exchange", "osu_upc_all_gather",
  "osu_upc_all_gather_all", "osu_upc_all_reduce", "osu_upc_all_scatter",
  "osu_upc_all_barrier", "osu_upc_memput", "osu_upc_memget"}
UpcxxPrograms == {"osu_upcxx_allgather", "osu_upcxx_alltoall", "osu_upcxx_bcast",
  "osu_upcxx_gather", "osu_upcxx_reduce", "osu_upcxx_scatter",
  "osu_upcxx_async_copy_put", "osu_upcxx_async_copy_get"}

Worlds ==
  Given({"osu_latency", "osu_bw", "osu_bw -b multiple"}, {1, 2}, BOOLEAN)
  \union Given({"osu_latency_mp", "osu_bibw", "osu_bibw -b multiple"}, {2, 3}, {FALSE})
  \union Given({"osu_mbw_mr", "osu_mbw_mr -V"}, {1, 2, 3}, {FALSE})
  \union Given({"osu_mbw_mr", "osu_mbw_mr -V"}, {2}, {TRUE})
  \union Given({"osu_multi_lat"}, {2}, BOOLEAN)
  \union Given({"osu_multi_lat"}, {4}, {FALSE})
  \union Given(Blockings \union NcclCollectives, {2}, {TRUE})
  \union Given({"osu_iallgatherv", "osu_ibcast", "osu_igather", "osu_iscatter"}, {2}, {TRUE})
  \union Given(Nonblockings, {2}, {FALSE})
  \union Given({"osu_barrier", "osu_ibarrier", "osu_init", "osu_hello"}, {1, 2}, {FALSE})
  \union OneSided({"osu_put_latency", "osu_put_bw", "osu_acc_latency", "osu_cas_latency",
            "osu_fop_latency", "osu_get_acc_latency", "osu_get_bw", "osu_get_latency"},
            Synchronisations, {FALSE})
  \union OneSided({"osu_put_bibw"}, {"fence", "pscw"}, {FALSE})
  \union OneSided({"osu_put_bw", "osu_get_latency"}, {"flush", "pscw"}, {TRUE})
  \union Given({"osu_nccl_latency", "osu_nccl_bw", "osu_nccl_bibw"}, {2}, {FALSE})
  \union Given(OshmTransfers \union OshmCollectives \union UpcPrograms \union UpcxxPrograms,
           {2}, {FALSE})
  \union Given(OshmRates, {2}, {FALSE})
  \union Given({"osu_oshm_put_mr", "osu_upc_memput", "osu_upcxx_async_copy_put"}, {3}, {FALSE})
  \union Given({"osu_allgather.py", "osu_alltoall.py", "osu_alltoallv.py", "osu_bcast.py",
            "osu_gather.py", "osu_scatter.py", "osu_barrier.py", "osu_latency.py",
            "osu_bw.py", "osu_bibw.py", "collective.py", "iallreduce.py"}, {2}, {FALSE})
  \union Given({"one_sided", "ibarrier", "abort", "alltoall", "round_robin_pt2pt",
            "parallel_sort_mpl",
            "collective_write.py", "collective_read.py 5", "nb.py"}, {2, 3}, {FALSE})
  \union Refused({"osu_latency", "osu_allgather", "osu_put_bw"})
=============================================================================
