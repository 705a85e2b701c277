-------------------------- MODULE MCPqosLifecycle --------------------------
(***************************************************************************)
(* Instances of PqosLifecycle for TLC: three threads, so that two can wait *)
(* for the mutex a third one destroys.                                     *)
(***************************************************************************)
EXTENDS PqosLifecycle

CONSTANTS t1, t2, t3

Threads    == {t1, t2, t3}
NoFaults   == {}
=============================================================================
