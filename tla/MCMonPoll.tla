----------------------------- MODULE MCMonPoll -----------------------------
(***************************************************************************)
(* Instances of MonPoll: groups of every source of counters on two units.  *)
(***************************************************************************)
EXTENDS MonPoll

None == [inter |-> "MSR", event |-> {}, hw |-> {}, perf |-> {}, resctrl |-> {},
         regions |-> <<>>, is32 |-> FALSE, shared |-> FALSE]

\* MBM on the MSR interface, with counters of 24 and of 32 bits.
MsrMbm == [None EXCEPT !.event = {"local", "total", "remote"}, !.hw = {"local", "total"}]
MsrMbm32 == [MsrMbm EXCEPT !.is32 = TRUE, !.event = {"local", "total"}]
MsrL3 == [None EXCEPT !.event = {"l3"}, !.hw = {"l3"}]

\* Performance and uncore counters; IPC with and without a programmable one.
MsrPmu == [None EXCEPT !.event = {"miss", "ipc"}, !.hw = {"miss", "cyc", "ins"}]
MsrIpc == [None EXCEPT !.event = {"ipc"}, !.hw = {"cyc", "ins"}]
MsrUncore == [None EXCEPT !.event = {"pcie"}, !.hw = {"pcie"}]

\* Files of resctrl, descriptors of perf and telemetry.
OsMbm == [None EXCEPT !.inter = "OS", !.event = {"local", "total", "remote"}, !.resctrl = {"local", "total"}]
OsShared == [OsMbm EXCEPT !.event = {"l3", "total"}, !.resctrl = {"l3", "total"}, !.shared = TRUE]
OsTel == [None EXCEPT !.inter = "OS", !.event = {"energy", "activity", "power"}, !.resctrl = {"energy", "activity"}]
OsPerf == [None EXCEPT !.inter = "OS", !.event = {"l3", "total", "local"}, !.perf = {"l3", "total"},
                       !.resctrl = {"local"}]

\* Memory regions 1 and 3, and I/O channels.
MmioMbm == [None EXCEPT !.inter = "MMIO", !.event = {"l3", "total"}, !.hw = {"l3", "total"}, !.regions = <<1, 3>>]
MmioIo == [None EXCEPT !.inter = "MMIO", !.event = {"io_l3", "io_total", "io_miss"}, !.hw = {"io_l3", "io_total", "io_miss"}]

AllSetups == {MsrL3, MsrMbm, MsrMbm32, MsrPmu, MsrIpc, MsrUncore, OsMbm, OsShared, OsTel, OsPerf, MmioMbm, MmioIo}

RegionSetups == {MmioMbm}

t(steal, st) == [steal |-> steal, st |-> st]

\* A counter not ready once and for ever, another agent noticed and unnoticed,
\* an error that is ours, and an access that fails.
TryScripts == {<<t(FALSE, "unavailable")>>, [i \in 1 .. 4 |-> t(FALSE, "unavailable")],
               <<t(TRUE, "error")>>, <<t(TRUE, "ok")>>, <<t(FALSE, "unavailable"), t(TRUE, "ok")>>,
               <<t(FALSE, "error")>>, <<t(FALSE, "fail")>>}
=============================================================================
