------------------------------ MODULE MCHwMon ------------------------------
(***************************************************************************)
(* Instances of HwMon for TLC: small platforms and what is asked of them.  *)
(***************************************************************************)
EXTENDS HwMon, TLC

\* Two cores in one cluster, in different NUMA nodes, and one elsewhere.
Cluster3 == [c \in 0 .. 2 |-> IF c < 2 THEN 0 ELSE 1]
Numa3 == [c \in 0 .. 2 |-> IF c = 1 THEN 1 ELSE 0]

\* Memory bandwidth is counted for fewer RMIDs than there are.
Rmids == [e \in {"l3", "local", "pmu"} |-> IF e = "local" THEN 3 ELSE 4]

\* A channel of the first socket, one of no known socket.
Place2 == [h \in {10, 11} |-> IF h = 10 THEN 0 ELSE NoPlace]

GroupSymmetry == Permutations(Group)

Ask(how, mode) == [io |-> how, snc |-> mode]

\* A plain reset, and one for each setting of the two features.
AskAll == {Ask("ANY", "ANY"), Ask("OFF", "TOTAL"), Ask("ON", "LOCAL")}

=============================================================================
