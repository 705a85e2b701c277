------------------------------ MODULE MCOsMon ------------------------------
(***************************************************************************)
(* Instances of OsMon for TLC: cores 0 and 1 share a cache, core 2 has its *)
(* own; process 10 has threads 10 and 11.  Two processes use the library.  *)
(***************************************************************************)
EXTENDS OsMon

Caches == [k \in Core |-> IF k = 2 THEN 1 ELSE 0]

TwoThreads == [p \in Process |-> {p, 11}]

Owners == [h \in Handle |-> IF h = "h1" THEN "A" ELSE "B"]

Cores == {{0}, {2}, {1, 2}}

Pids == {{10}, {11}}

=============================================================================
