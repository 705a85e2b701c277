----------------------------- MODULE MCApiLock -----------------------------
(***************************************************************************)
(* Instance of ApiLock for TLC.                                            *)
(***************************************************************************)
EXTENDS ApiLock

\* Disciplined processes; all that lock_init() can recover from in processes
\* that call pqos_init() once; and second calls whose own file is gone, empty
\* or taken for a stale one.
Most == Circumstances \ {"probe_crash"}
AgainOrMost ==
  {{"again"}, Most \ {"again"},
   {"again", "write_error", "overlap", "fini_uninit"}}
=============================================================================
