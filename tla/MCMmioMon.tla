----------------------------- MODULE MCMmioMon -----------------------------
(* Small instance of MmioMon for TLC. *)
EXTENDS MmioMon, TLC

Cluster4 == [c \in 0 .. 3 |-> IF c < 3 THEN 0 ELSE 1]
Numa4 == [c \in 0 .. 3 |-> 0]
CpuDomain4 == [c \in 0 .. 3 |-> IF c < 3 THEN 20 ELSE 21]
CpuMax3 == [d \in {20, 21} |-> IF d = 20 THEN 3 ELSE 2]

\* "local" is in the capabilities and has no register on this interface.
Rmids == [e \in {"l3", "total", "local", "pmu", "io-llc"} |-> IF e = "total" THEN 3 ELSE 4]

\* Two channels share a domain that has cores as well; one is missing in ERDT.
Place3 == [h \in {10, 11, 12} |-> 0]
DevDomain3 == [h \in {10, 11, 12} |-> IF h < 12 THEN 20 ELSE NoPlace]
DevMax3 == [d \in {20} |-> 2]

GroupSymmetry == Permutations(Group)
ResetOn == {[io |-> "ON", snc |-> "ANY"], [io |-> "ANY", snc |-> "ANY"]}
=============================================================================
