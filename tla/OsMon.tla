------------------------------- MODULE OsMon -------------------------------
(***************************************************************************)
(* Monitoring groups through the operating system: lib/os_monitoring.c,    *)
(* lib/resctrl_monitoring.c, the descriptors of lib/perf_monitoring.c and  *)
(* the handles of lib/api.c.                                               *)
(*                                                                         *)
(* A group watches cores, or the threads of processes.  For events of      *)
(* resctrl it owns a name: under every class of service there may be a     *)
(* directory mon_groups/<name>, and a core or a task is counted in the     *)
(* directory of its own class that it is tagged with.  The kernel clears   *)
(* the tag when the class changes.  For events of perf it owns a           *)
(* descriptor for each core or task.  A new group of cores takes over the  *)
(* name of a group it cannot disturb, of this or another process.          *)
(*                                                                         *)
(* The API lock makes a call atomic between processes that use the library *)
(* so a call is one step.  Threads end during a call all the same, and     *)
(* other users of resctrl move cores between calls.  What the counters     *)
(* hold is in module MonPoll.                                              *)
(*                                                                         *)
(* Cores come in the caller's order and threads in that of readdir(): they *)
(* are sets here, and a loop over them that stops half way may have done   *)
(* any of them.                                                            *)
(***************************************************************************)
EXTENDS Integers, FiniteSets

CONSTANTS
  Core,          \* logical cores
  L3id,          \* L3id[k]: l3cat_id of core k
  Process,       \* processes that can be monitored: thread group leaders
  Threads,       \* Threads[p]: threads of process p, its leader among them
  Class,         \* classes of service, 0 the default
  Handle,        \* groups of the applications
  Owner,         \* Owner[h]: process that uses the library and owns handle h
  Static,        \* handles whose memory is the application's
  PerfSupport,   \* the kernel has perf
  PerfRdt,       \* RDT events that perf has files for
  L3Mon,         \* events listed in info/L3_MON/mon_features
  PkgMon,        \* events listed in info/PERF_PKG_MON/mon_features
  MaxRmid,       \* max_rmid of the capability: groups resctrl_mon_parse() lists
  MaxDirs,       \* mon_groups directories the kernel has RMIDs for
  CoreSets,      \* sets of cores an application passes
  PidSets,       \* sets of processes an application passes
  EventSets,     \* events an application asks for
  MaxCalls,      \* bound on the calls of a run
  Movable,       \* cores and tasks whose class somebody changes
  MaxMoves,      \* bound on the faults and the moves of others
  Faults         \* the circumstances a run admits, a subset of FaultKinds

(***************************************************************************)
(* "end"     : threads end, also during a call                             *)
(* "crash"   : a process that uses the library dies                        *)
(* "move"    : somebody else changes the class of a core or a task         *)
(* "perf"    : perf_event_open() fails                                     *)
(* "lock"    : the resctrl lock cannot be taken in time                    *)
(* "unavail" : a counter reads "Unavailable"                               *)
(***************************************************************************)
FaultKinds == {"end", "crash", "move", "perf", "lock", "unavail"}

\* No name, no directory.
None == 0

Name == Nat \ {None}

Tasks == UNION {Threads[p] : p \in Process}

Real == {"LLC", "LMEM", "TMEM", "LLC_MISS", "LLC_REF", "CYCLES", "INSTR", "ENERGY", "ACTIVITY"}

Virtual == {"RMEM", "IPC", "POWER"}

\* os_mon_event[]: the order events are started and stopped in.
os_mon_event == <<"LLC", "LMEM", "TMEM", "LLC_MISS", "LLC_REF", "CYCLES", "INSTR", "ENERGY",
                  "ACTIVITY">>

Telemetry == {"ENERGY", "ACTIVITY"}

ASSUME PlatformAssumption ==
  /\ L3id \in [Core -> Nat]
  /\ Core \cap Tasks = {}
  /\ \A p \in Process : p \in Threads[p]
  /\ \A p, q \in Process : p # q => Threads[p] \cap Threads[q] = {}
  /\ 0 \in Class /\ Class \subseteq Nat
  /\ PerfRdt \cup L3Mon \subseteq {"LLC", "LMEM", "TMEM"} /\ PkgMon \subseteq Telemetry
  /\ MaxRmid \in Nat /\ MaxDirs \in Nat

ASSUME InputAssumption ==
  /\ CoreSets \subseteq (SUBSET Core) \ {{}} /\ PidSets \subseteq (SUBSET Tasks) \ {{}}
  /\ EventSets \subseteq SUBSET (Real \cup Virtual) /\ {} \notin EventSets
  /\ Movable \subseteq Core \cup Tasks
  /\ MaxCalls \in Nat /\ MaxMoves \in Nat /\ Faults \subseteq FaultKinds

-----------------------------------------------------------------------------
(* Events *)

\* set_arch_event_attrs(): events every perf has.
ArchEvents == {"LLC_MISS", "LLC_REF", "CYCLES", "INSTR"}

\* perf_mon_init(), set_mon_events(): the events of the table that are supported.
\* Without RDT events perf_mon_init() fails, but the others stay supported.
Perf == IF PerfSupport THEN ArchEvents \cup PerfRdt ELSE {}

PerfInit == PerfSupport /\ PerfRdt # {}

\* resctrl_mon_init(): supported_events
Resctrl == L3Mon \cup PkgMon

\* os_mon_init(): one of the two is enough.
OsMonInit == PerfInit \/ Resctrl # {}

ASSUME InitAssumption == OsMonInit

\* PQOS_MON_EVENTS_ALLOWED: events of a PMU may not be asked for on their own,
\* cycles and instructions only as IPC.
NonPmu == {"LLC", "LMEM", "TMEM", "RMEM", "POWER"} \cup Telemetry

EventsAllowed(ev) == ev \subseteq NonPmu \cup {"IPC", "LLC_MISS", "LLC_REF"} /\ ev \cap NonPmu # {}

\* Events that a virtual one is computed from.
Expanded(ev) ==
  (ev \cap Real) \cup (IF "RMEM" \in ev THEN {"LMEM", "TMEM"} ELSE {})
                 \cup (IF "IPC" \in ev THEN {"CYCLES", "INSTR"} ELSE {})
                 \cup (IF "POWER" \in ev THEN {"ENERGY"} ELSE {})

\* perf_mon_is_event_supported(), resctrl_mon_is_event_supported(): which of the
\* two serves an event.  Telemetry is asked of resctrl first, all others of perf.
Serves(e) ==
  IF e \in Telemetry /\ e \in Resctrl THEN "resctrl"
  ELSE IF e \in Perf THEN "perf" ELSE IF e \in Resctrl THEN "resctrl" ELSE "none"

\* os_mon_validate_event(): the capability lists what perf or resctrl supports.
os_mon_validate_event(ev) ==
  /\ ev \cap Real \subseteq Perf \cup Resctrl
  /\ "RMEM" \in ev => {"LMEM", "TMEM"} \subseteq Perf \/ {"LMEM", "TMEM"} \subseteq Resctrl
  /\ "IPC" \in ev => {"CYCLES", "INSTR"} \subseteq Perf
  /\ "POWER" \in ev => "ENERGY" \in Resctrl

-----------------------------------------------------------------------------
VARIABLES
  os,       \* the operating system: see OsType
  grp,      \* grp[h]: pqos_mon_data of the handle
  next,     \* resctrl_mon_counter: number of the next new name
  orphan,   \* names left behind by a crash or by a call that reported an error
  last,     \* the call that just returned
  calls,    \* number of calls so far
  moves     \* number of moves so far

vars == <<os, grp, next, orphan, last, calls, moves>>

Target == Core \cup Tasks

\* A perf descriptor is one of a group, for a core or task and an event.
Descriptor == Handle \X Target \X Real

OsType ==
  [alive : SUBSET Tasks,                   \* threads that run
   cls : [Target -> Class],                \* class of a core or a task
   mon : [Target -> Nat],                  \* name it is tagged with
   dirs : SUBSET (Class \X Name),          \* the mon_groups directories
   fds : SUBSET Descriptor,                \* descriptors of perf events
   leak : SUBSET Descriptor,               \* descriptors nobody knows any more
   lk : 0 .. 2]                            \* attempts to lock that will fail

Idle == [on |-> FALSE, cores |-> {}, pids |-> {}, tids |-> {}, name |-> None,
         ev |-> {}, perf |-> {}, resctrl |-> {}]

GroupType ==
  [on : BOOLEAN, cores : SUBSET Core, pids : SUBSET Tasks, tids : SUBSET Tasks, name : Nat,
   ev : SUBSET (Real \cup Virtual), perf : SUBSET Real, resctrl : SUBSET Real]

NoCall == [op |-> "none", ret |-> "OK", g |-> Idle]

\* What every variable may hold.  A tag is one of a directory that exists.
TypeOK ==
  /\ os \in OsType
  /\ \A x \in Target : os.mon[x] # None => <<os.cls[x], os.mon[x]>> \in os.dirs
  /\ grp \in [Handle -> GroupType]
  /\ next \in Name /\ orphan \subseteq Name
  /\ last.op \in {"none", "start", "stop", "add", "remove", "poll", "reset", "assoc", "move"}
  /\ last.ret \in {"OK", "PARAM", "ERROR", "RESOURCE", "BUSY"}
  /\ calls \in 0 .. MaxCalls /\ moves \in 0 .. MaxMoves

Can(fault) == fault \in Faults

(***************************************************************************)
(* The functions of the library take the operating system, a record w, and *)
(* return it with a code: [w, ret].  One that may stop half way returns    *)
(* the set of what it may have done.                                       *)
(***************************************************************************)
Ret(w, r) == [w |-> w, ret |-> r]

(***************************************************************************)
(* A definition named M_... is a mutated form of the one after it: a bug   *)
(* the code could have had, used to show that a property would notice.     *)
(***************************************************************************)
-----------------------------------------------------------------------------
(* The kernel *)

\* A change of class clears the tag.
Reclass(w, S, c) ==
  [w EXCEPT !.cls = [x \in Target |-> IF x \in S THEN c ELSE w.cls[x]],
            !.mon = [x \in Target |-> IF x \in S /\ w.cls[x] # c THEN None ELSE w.mon[x]]]

\* Targets written to their class are in none of its directories.
Untag(w, S) == [w EXCEPT !.mon = [x \in Target |-> IF x \in S THEN None ELSE w.mon[x]]]

\* Removing directories gives their members back to the class.
Removed(w, ds) ==
  [w EXCEPT !.dirs = @ \ ds,
            !.mon = [x \in Target |-> IF <<w.cls[x], w.mon[x]>> \in ds THEN None ELSE w.mon[x]]]

\* Threads end: they are in no directory any more.
Ended(w, dead) ==
  [w EXCEPT !.alive = @ \ dead,
            !.mon = [x \in Target |-> IF x \in dead THEN None ELSE w.mon[x]]]

-----------------------------------------------------------------------------
(* Directories *)

Names(w) == {d[2] : d \in w.dirs}

\* resctrl_mon_delete(): the directories of the name under all classes.
Delete(w, n) == Removed(w, {d \in w.dirs : d[2] = n})

\* resctrl_mon_cpumask_read()
CpuMask(w, c, n) == {k \in Core : w.cls[k] = c /\ w.mon[k] = n}

\* resctrl_mon_file_empty(): no line in the file of tasks.
TasksEmpty(w, c, n) == \A t \in Tasks : ~(w.cls[t] = c /\ w.mon[t] = n)

\* alloc_assoc_get(), alloc_assoc_get_pid(): cores have a class, and tasks until
\* they have ended.
Gone(w) == Tasks \ w.alive

\* resctrl_mon_assoc_get(): the directory of its class that lists a core, or None.
AssocGet(w, k) == w.mon[k]

\* resctrl_mon_assoc_get_pid()
AssocGetPid(w, t) == IF t \in Gone(w) THEN None ELSE w.mon[t]

\* resctrl_mon_mkdir() for the targets in S: a directory that exists already is
\* fine, a new one takes an RMID.
DirsOf(w, S, n) == {<<w.cls[x], n>> : x \in S}

MkDir(w, S, n) ==
  DirsOf(w, S, n) \subseteq w.dirs \/ Cardinality(w.dirs \cup DirsOf(w, S, n)) <= MaxDirs

\* The targets in S are written to the directories of the name.
Tagged(w, S, n) ==
  [w EXCEPT !.dirs = @ \cup DirsOf(w, S, n),
            !.mon = [x \in Target |-> IF x \in S THEN n ELSE w.mon[x]]]

\* resctrl_mon_assoc_set(), resctrl_mon_assoc_set_pid() for the targets in S, one
\* by one, until one of them has ended or there is no room for its directory.
AssocSet(w, S, n) ==
  LET ended == S \cap Gone(w)
  IN  IF ended = {} /\ MkDir(w, S, n) THEN {Ret(Tagged(w, S, n), "OK")}
      ELSE {Ret(Tagged(w, P, n), "PARAM") :
              P \in {P \in SUBSET (S \ ended) : ended # {} /\ MkDir(w, P, n)}}
           \cup {Ret(Tagged(w, P, n), "BUSY") :
              P \in {P \in SUBSET (S \ ended) :
                       MkDir(w, P, n) /\ \E x \in S \ ended : ~MkDir(w, P \cup {x}, n)}}

\* resctrl_mon_assoc_restore() for the cores of a group: one that lost its tag
\* gets it back if the class it is in now has the directory.
AssocRestore(w, S, n) ==
  LET bare == {k \in S : AssocGet(w, k) = None}
      stuck == {k \in bare : <<w.cls[k], n>> \notin w.dirs}
  IN  IF stuck = {} THEN {Ret(Tagged(w, bare, n), "OK")}
      ELSE {Ret(Tagged(w, P, n), "RESOURCE") : P \in SUBSET (bare \ stuck)}

\* resctrl_mon_shared(): another core than those of the group has its name.
M_Shared(w, g) == FALSE

Shared(w, g) ==
  /\ g.pids = {}
  /\ \E c \in Class : ~(CpuMask(w, c, g.name) \subseteq g.cores)

\* resctrl_mon_empty(): no core, no task and little in the cache.  full holds
\* the directories whose occupancy is above the threshold, or unavailable.
Empty(w, c, n, full) ==
  /\ CpuMask(w, c, n) = {} /\ TasksEmpty(w, c, n)
  /\ "LLC" \in Resctrl => <<c, n>> \notin full

\* resctrl_mon_purge(): empty directories of the group are removed.
Purge(w, g, full) ==
  IF Shared(w, g) THEN w
  ELSE Removed(w, {d \in w.dirs : d[2] = g.name /\ Empty(w, d[1], g.name, full)})

-----------------------------------------------------------------------------
(* Choosing a name *)

\* The set of L3 ids is a word of 32 bits: a larger id is lost.
L3Bits(cores) == {L3id[k] : k \in cores} \cap 0 .. 31

\* resctrl_mon_parse(): the L3 ids of the cores tagged with a name.  A name
\* with tasks is not valid.  An id of 63 cannot be represented.
Valid(w, n) ==
  /\ \A c \in Class : TasksEmpty(w, c, n)
  /\ \A k \in Core : w.mon[k] = n => L3id[k] < 63

Parse(w) == [n \in Names(w) |-> {L3id[k] : k \in {k \in Core : w.mon[k] = n}}]

\* resctrl_mon_assign(): the first valid name whose cores are on other caches
\* and that holds little of the caches of the new group.  quiet holds the names
\* with little, unread those with an unavailable counter: the search gives up
\* there.  The result is a name, a new one or None.
Reusable(w, g, quiet) ==
  {n \in Names(w) : /\ Valid(w, n)
                    /\ Parse(w)[n] \cap L3Bits(g.cores) = {}
                    /\ "LLC" \in Resctrl => n \in quiet}

M_Assign(w, g, quiet, unread) ==
  {n \in Names(w) : Valid(w, n) /\ n \in quiet} \cup {next}

Assign(w, g, quiet, unread) ==
  IF g.name # None \/ g.tids # {} \/ g.cores = {} \/ \E k \in g.cores : L3id[k] > 63
  THEN {IF g.name # None THEN g.name ELSE next}
  ELSE IF MaxRmid > 0 /\ Cardinality(Names(w)) > MaxRmid THEN {None}
  ELSE (IF MaxRmid = 0 \/ Reusable(w, g, quiet) = {} THEN {next} ELSE Reusable(w, g, quiet))
       \cup (IF "LLC" \in Resctrl /\ Reusable(w, g, unread) # {} THEN {None} ELSE {})

-----------------------------------------------------------------------------
(* Starting and stopping *)

\* resctrl_lock_exclusive()
Lock(w) == IF w.lk > 0 THEN Ret([w EXCEPT !.lk = @ - 1], "ERROR") ELSE Ret(w, "OK")

\* What the group watches.  A list of cores wins.
Watched(g) == IF g.cores # {} THEN g.cores ELSE g.tids

\* resctrl_mon_start().  If it fails the directories of a group of tasks are
\* removed, also those an earlier call made.
ResctrlStart(w, g) ==
  {IF r.ret # "OK" /\ g.pids # {}
   THEN [w |-> Delete(r.w, g.name), ret |-> r.ret, g |-> [g EXCEPT !.name = None]]
   ELSE [w |-> r.w, ret |-> r.ret, g |-> g] : r \in AssocSet(w, Watched(g), g.name)}

\* The part of resctrl_mon_stop() for cores: a mask without them is written to
\* each directory of the name, and without a name to each class from the default
\* one on.  A core taken out of a class goes back to the default one, out of
\* which the kernel lets no core be taken.
UnsetCores(w, g) ==
  IF g.name # None THEN Ret(Untag(w, {k \in g.cores : w.mon[k] = g.name}), "OK")
  ELSE IF \E k \in g.cores : w.cls[k] = 0 THEN Ret(w, "ERROR")
  ELSE Ret(Reclass(w, g.cores, 0), "OK")

\* resctrl_mon_stop(): threads that ended are passed over, and one that ends
\* between the check and the write ends the call: only those in back were given
\* back before.  Without such a thread back is all tasks.
M_ResctrlStop(w, g, back) ==
  IF g.cores = {} THEN Ret(w, "OK") ELSE UnsetCores(w, g)

ResctrlStop(w, g, back) ==
  LET tasks == IF g.pids = {} THEN w ELSE Untag(w, g.tids \cap w.alive \cap back)
      out == IF g.pids # {} /\ back # Tasks THEN Ret(tasks, "ERROR")
             ELSE IF g.cores = {} THEN Ret(tasks, "OK") ELSE UnsetCores(tasks, g)
  IN  IF out.ret = "OK" /\ g.name # None /\ ~Shared(out.w, g)
      THEN Ret(Delete(out.w, g.name), "OK") ELSE out

\* perf_mon_stop()
PerfStop(w, h, g) == [w EXCEPT !.fds = @ \ ({h} \X Watched(g) \X g.perf)]

\* os_mon_stop_events(): descriptors are closed first.  Without the lock the
\* rest stays.
StopEvents(w, h, g, back) ==
  LET closed == PerfStop(w, h, g)
      locked == Lock(closed)
      out == IF g.resctrl = {} THEN Ret(closed, "OK")
             ELSE IF locked.ret # "OK" THEN locked ELSE ResctrlStop(locked.w, g, back)
      missed == g.perf # {} /\ Watched(g) = {}
  IN  Ret(out.w, IF missed \/ out.ret # "OK" THEN "ERROR" ELSE "OK")

Before(e) == {os_mon_event[i] : i \in {i \in 1 .. 9 : \E j \in i + 1 .. 9 : os_mon_event[j] = e}}

\* perf_mon_start(): a descriptor for everything that is watched.  When one for
\* event failed cannot be opened, those opened before for it are not closed.
PerfStart(w, h, g, events, failed, opened) ==
  [w EXCEPT !.fds = @ \cup ({h} \X Watched(g) \X events),
            !.leak = @ \cup ({h} \X opened \X failed)]

\* os_mon_start_events(): events are started in order, under circumstances x.
\* Those that are reached before one that nobody serves or that fails ...
Poor(ask, x) == {e \in ask : Serves(e) = "none" \/ e = x.bad}

Reached(ask, x) == {e \in ask : Poor(ask, x) \cap (Before(e) \cup {e}) = {}}

StartedWith(g, x) ==
  LET reached == Reached(Expanded(g.ev), x)
  IN  [g EXCEPT !.perf = {e \in reached : Serves(e) = "perf"},
                !.resctrl = {e \in reached : Serves(e) = "resctrl"}]

\* ... get their descriptors ...
PerfStarted(w, h, g, x) ==
  LET ask == Expanded(g.ev)
      failed == {e \in ask : e = x.bad /\ Before(e) \cap Poor(ask, x) = {}}
  IN  PerfStart(w, h, g, StartedWith(g, x).perf, failed, x.opened)

\* ... and a name.  Whatever fails, all is stopped again.
Outcome(w, ret, g, n) == [w |-> w, ret |-> ret, g |-> g, n |-> n]

Failed(w, h, ret, g, n) == Outcome(StopEvents(w, h, g, Tasks).w, ret, g, n)

StartEvents(w, h, g, x, quiet) ==
  LET w1 == PerfStarted(w, h, g, x)
      g1 == StartedWith(g, x)
      locked == Lock(w1)
  IN  IF Poor(Expanded(g.ev), x) # {} THEN {Failed(w1, h, "ERROR", g1, None)}
      ELSE IF g1.resctrl = {} THEN {Outcome(w1, "OK", g1, None)}
      ELSE IF locked.ret # "OK" THEN {Failed(locked.w, h, "ERROR", g1, None)}
      ELSE UNION {IF n = None THEN {Failed(w1, h, "ERROR", g1, None)}
                  ELSE {IF r.ret = "OK" THEN Outcome(r.w, "OK", r.g, n)
                        ELSE Failed(r.w, h, r.ret, r.g, n) :
                          r \in ResctrlStart(w1, [g1 EXCEPT !.name = n])} :
                    n \in Assign(w1, g1, quiet, x.unread)}

\* tid_find(), tid_add(): all threads of a process, or the one thread.
TidFind(w, pids) ==
  UNION {IF p \in Process THEN Threads[p] \cap w.alive ELSE {p} : p \in pids}

-----------------------------------------------------------------------------
(* The calls *)

os_mon_tid_exists(p) == p \in os.alive

Init ==
  /\ os = [alive |-> Tasks, cls |-> [x \in Target |-> 0], mon |-> [x \in Target |-> None],
           dirs |-> {}, fds |-> {}, leak |-> {}, lk |-> 0]
  /\ grp = [h \in Handle |-> Idle]
  /\ next = 1
  /\ orphan = {}
  /\ last = NoCall
  /\ calls = 0 /\ moves = 0

(***************************************************************************)
(* The circumstances of one call: threads dead end during it, the first lk *)
(* attempts to take the resctrl lock fail, a descriptor of event bad       *)
(* cannot be opened after those for opened were, counters of the names     *)
(* unread are unavailable, a stop gives back no other tasks than back.     *)
(***************************************************************************)
Calm ==
  [dead |-> {}, lk |-> 0, bad |-> "none", opened |-> {}, unread |-> {}, back |-> Tasks]

ThreadsEnd(ts) ==
  {[Calm EXCEPT !.dead = d] : d \in {d \in SUBSET (ts \cap os.alive) : d # {} /\ Can("end")}}

LockFails == {[Calm EXCEPT !.lk = n] : n \in {n \in 1 .. 2 : Can("lock")}}

OpenFails(e, o) == [Calm EXCEPT !.bad = e, !.opened = o]

PerfFails(ts) ==
  {OpenFails(e, o) : e \in {e \in Perf : e \in Expanded(UNION EventSets) /\ Can("perf")},
                     o \in {o \in SUBSET ts : o # ts}}

Unavailable == {[Calm EXCEPT !.unread = u] : u \in {u \in {Names(os)} : u # {} /\ Can("unavail")}}

Trouble(ts) == ThreadsEnd(ts) \cup LockFails \cup PerfFails(ts) \cup Unavailable

Circumstances(ts) == {Calm} \cup (IF moves < MaxMoves THEN Trouble(ts) ELSE {})

\* Threads among ts end during a stop: before their turn, or one of them in it.
Interrupts(ts) ==
  UNION {{[x EXCEPT !.back = b] : b \in SUBSET ((ts \cap os.alive) \ x.dead)} : x \in ThreadsEnd(ts)}

StopCircumstances(ts) ==
  {Calm} \cup (IF moves < MaxMoves THEN ThreadsEnd(ts) \cup Interrupts(ts) \cup LockFails ELSE {})

Call(op, g, ret, x) ==
  /\ calls < MaxCalls
  /\ calls' = calls + 1
  /\ last' = [op |-> op, ret |-> ret, g |-> g]
  /\ moves' = IF x = Calm THEN moves ELSE moves + 1

\* A name of a group that the call left behind without reporting success.
Left(w, g) == IF g.name # None /\ g.name \in Names(w) THEN {g.name} ELSE {}

\* A process dies: its handles and descriptors go, its directories stay.
Dead(w, p) ==
  [w EXCEPT !.fds = {d \in @ : Owner[d[1]] # p}, !.leak = {d \in @ : Owner[d[1]] # p}, !.lk = 0]

Dies(p, w) ==
  /\ os' = Dead(w, p)
  /\ grp' = [h \in Handle |-> IF Owner[h] = p THEN Idle ELSE grp[h]]
  /\ orphan' = orphan \cup ({grp[h].name : h \in {h \in Handle : Owner[h] = p}} \ {None})

Done(w) == [w EXCEPT !.lk = 0]

Started(h, res, x) ==
  /\ next' = IF res.n = next THEN next + 1 ELSE next
  /\ Call("start", res.g, res.ret, x)
  /\ os' = Done(res.w)
  /\ grp' = IF res.ret = "OK" THEN [grp EXCEPT ![h] = [res.g EXCEPT !.on = TRUE]] ELSE grp
  /\ orphan' = orphan \cup (IF res.ret = "OK" THEN {} ELSE Left(res.w, res.g))

\* When there is no RMID for a directory the list of L3 ids is freed by
\* resctrl_mon_start() and again by resctrl_mon_stop(): the process may die.
Aborted(h, res, x) ==
  /\ res.ret = "BUSY"
  /\ next' = IF res.n = next THEN next + 1 ELSE next
  /\ Call("start", res.g, res.ret, x)
  /\ Dies(Owner[h], res.w)

Refused(ret) == Call("start", Idle, ret, Calm) /\ UNCHANGED <<os, grp, next, orphan>>

\* os_mon_start_cores(): a core that has a tag is being monitored already.
os_mon_start_cores(h, g) ==
  IF ~os_mon_validate_event(g.ev) THEN Refused("PARAM")
  ELSE IF \E k \in g.cores : AssocGet(os, k) # None THEN Refused("RESOURCE")
  ELSE \E quiet \in SUBSET Names(os), x \in {x \in Circumstances(g.cores) : x.dead = {}} :
       \E res \in StartEvents([os EXCEPT !.lk = x.lk], h, g, x, quiet) :
         Started(h, res, x) \/ Aborted(h, res, x)

\* pqos_mon_start(): the structure is the application's.
pqos_mon_start(h, ks, ev) ==
  LET g == [Idle EXCEPT !.cores = ks, !.ev = ev]
  IN  /\ h \in Static /\ ~grp[h].on
      /\ IF EventsAllowed(ev) THEN os_mon_start_cores(h, g) ELSE Refused("PARAM")

\* pqos_mon_start_cores_ext()
pqos_mon_start_cores_ext(h, ks, ev) ==
  LET g == [Idle EXCEPT !.cores = ks, !.ev = ev]
  IN  /\ h \notin Static /\ ~grp[h].on
      /\ IF EventsAllowed(ev) THEN os_mon_start_cores(h, g) ELSE Refused("PARAM")

\* os_mon_start_pids()
os_mon_start_pids(h, ps, ev) ==
  LET tids == TidFind(os, ps)
      g == [Idle EXCEPT !.pids = ps, !.tids = tids, !.ev = ev]
  IN  IF ~os_mon_validate_event(ev) \/ \E p \in ps : ~os_mon_tid_exists(p)
      THEN Refused("PARAM")
      ELSE \E x \in {x \in Circumstances(tids) : x.unread = {}} :
           \E res \in StartEvents(Ended([os EXCEPT !.lk = x.lk], x.dead), h, g, x, {}) :
             Started(h, res, x)

\* pqos_mon_start_pids()
pqos_mon_start_pids(h, ps, ev) ==
  /\ h \in Static /\ ~grp[h].on
  /\ IF EventsAllowed(ev) THEN os_mon_start_pids(h, ps, ev) ELSE Refused("PARAM")

\* pqos_mon_start_pids2()
pqos_mon_start_pids2(h, ps, ev) ==
  /\ h \notin Static /\ ~grp[h].on
  /\ IF EventsAllowed(ev) THEN os_mon_start_pids(h, ps, ev) ELSE Refused("PARAM")

\* os_mon_add_pids(): the new threads are started as a group of their own that
\* has the name of the old one.
os_mon_add_pids(h) ==
  /\ grp[h].on /\ grp[h].pids # {}
  /\ UNCHANGED <<next, orphan>>
  /\ \E ps \in PidSets :
       LET g == grp[h]
           tids == TidFind(os, ps) \ g.tids
           added == [Idle EXCEPT !.pids = ps, !.tids = tids, !.ev = g.ev, !.name = g.name]
       IN  IF \E p \in ps : ~os_mon_tid_exists(p)
           THEN Call("add", added, "PARAM", Calm) /\ UNCHANGED <<os, grp>>
           ELSE IF tids = {}
           THEN Call("add", added, "OK", Calm) /\ UNCHANGED <<os, grp>>
           ELSE \E x \in {x \in Circumstances(tids) : x.unread = {}} :
                \E res \in StartEvents(Ended([os EXCEPT !.lk = x.lk], x.dead), h, added, x, {}) :
                  /\ Call("add", added, res.ret, x)
                  /\ os' = Done(res.w)
                  /\ grp' = IF res.ret # "OK" THEN grp
                            ELSE [grp EXCEPT ![h] = [g EXCEPT !.tids = @ \cup tids, !.pids = @ \cup ps]]

\* os_mon_remove_pids(): what is not of a process that stays is removed.
os_mon_remove_pids(h) ==
  /\ grp[h].on /\ grp[h].pids # {}
  /\ UNCHANGED <<next, orphan>>
  /\ \E ps \in PidSets :
       LET g == grp[h]
           keep == g.pids \ ps
           stay == TidFind(os, {p \in keep : os_mon_tid_exists(p)})
       IN  \E x \in StopCircumstances(g.tids \ stay) :
             LET res == StopEvents(Ended([os EXCEPT !.lk = x.lk], x.dead), h,
                          [g EXCEPT !.pids = ps, !.tids = @ \ stay, !.name = None], x.back)
             IN  /\ Call("remove", g, res.ret, x)
                 /\ os' = Done(res.w)
                 /\ grp' = IF res.ret # "OK" THEN grp
                           ELSE [grp EXCEPT ![h] = [g EXCEPT !.tids = @ \cap stay, !.pids = keep]]

\* os_mon_stop()
os_mon_stop(w, h, g, back) ==
  IF g.cores = {} /\ g.tids = {} THEN Ret(w, "PARAM") ELSE StopEvents(w, h, g, back)

\* pqos_mon_stop(): the handle is freed whatever happens.
pqos_mon_stop(h) ==
  /\ grp[h].on
  /\ \E x \in StopCircumstances(grp[h].tids) :
       LET g == grp[h]
           res == os_mon_stop(Ended([os EXCEPT !.lk = x.lk], x.dead), h, g, x.back)
       IN  /\ Call("stop", g, res.ret, x)
           /\ os' = Done(res.w)
           /\ grp' = [grp EXCEPT ![h] = Idle]
           /\ orphan' = orphan \cup (IF res.ret = "OK" THEN {} ELSE Left(res.w, g))
  /\ UNCHANGED next

\* resctrl_mon_poll(): cores are tagged again, counters are read, empty
\* directories are removed.
ResctrlPoll(w, g, full) ==
  {IF r.ret = "OK" THEN Ret(Purge(r.w, g, full), "OK") ELSE r :
     r \in AssocRestore(w, g.cores, g.name)}

\* pqos_mon_poll(), pqos_mon_poll_events()
pqos_mon_poll(h) ==
  /\ grp[h].on
  /\ UNCHANGED <<grp, next, orphan>>
  /\ \E full \in SUBSET {d \in os.dirs : d[2] = grp[h].name},
        x \in {x \in Circumstances({}) : x.unread = {}} :
       \E res \in IF grp[h].resctrl = {} THEN {Ret(os, "OK")}
                  ELSE IF x.lk > 0 THEN {Ret(os, "ERROR")} ELSE ResctrlPoll(os, grp[h], full) :
         os' = res.w /\ Call("poll", grp[h], res.ret, x)

\* resctrl_mon_reset(): all directories, whoever made them.
resctrl_mon_reset ==
  /\ os' = Removed(os, os.dirs)
  /\ Call("reset", Idle, IF Resctrl = {} THEN "RESOURCE" ELSE "OK", Calm)
  /\ UNCHANGED <<grp, next, orphan>>

\* os_alloc_assoc_set(): the tag follows into the new class if there is room for
\* the directory.
os_alloc_assoc_set ==
  /\ \E k \in Movable \cap Core, c \in Class :
       LET n == AssocGet(os, k)
           w == Reclass(os, {k}, c)
       IN  /\ c # os.cls[k]
           /\ \E r \in IF n = None THEN {Ret(w, "OK")} ELSE AssocSet(w, {k}, n) : os' = r.w
  /\ Call("assoc", Idle, "OK", Calm)
  /\ UNCHANGED <<grp, next, orphan>>

\* os_alloc_assoc_set_pid()
os_alloc_assoc_set_pid ==
  /\ \E t \in Movable \cap os.alive, c \in Class :
       LET n == AssocGetPid(os, t)
           w == Reclass(os, {t}, c)
       IN  /\ c # os.cls[t]
           /\ \E r \in IF n = None THEN {Ret(w, "OK")} ELSE AssocSet(w, {t}, n) : os' = r.w
  /\ Call("assoc", Idle, "OK", Calm)
  /\ UNCHANGED <<grp, next, orphan>>

-----------------------------------------------------------------------------
(* The surroundings *)

Move(act) ==
  /\ act /\ moves < MaxMoves /\ moves' = moves + 1
  /\ last' = [NoCall EXCEPT !.op = "move"]
  /\ UNCHANGED <<next, calls>>

\* A thread of a monitored process, or of another one, ends.
ThreadEnds ==
  /\ Can("end")
  /\ \E t \in os.alive : Move(os' = Ended(os, {t}))
  /\ UNCHANGED <<grp, orphan>>

\* Another user of resctrl, or a call that releases cores, changes a class.
OtherMoves ==
  /\ Can("move")
  /\ \E x \in Movable \cap (Core \cup os.alive), c \in Class : c # os.cls[x] /\ Move(os' = Reclass(os, {x}, c))
  /\ UNCHANGED <<grp, orphan>>

Crash ==
  /\ Can("crash")
  /\ \E h \in Handle : grp[h].on /\ Move(Dies(Owner[h], os))

Next ==
  \/ \E h \in Handle, ks \in CoreSets, ev \in EventSets :
       pqos_mon_start(h, ks, ev) \/ pqos_mon_start_cores_ext(h, ks, ev)
  \/ \E h \in Handle, ps \in PidSets, ev \in EventSets :
       pqos_mon_start_pids(h, ps, ev) \/ pqos_mon_start_pids2(h, ps, ev)
  \/ \E h \in Handle : \/ os_mon_add_pids(h) \/ os_mon_remove_pids(h)
                       \/ pqos_mon_stop(h) \/ pqos_mon_poll(h)
  \/ resctrl_mon_reset \/ os_alloc_assoc_set \/ os_alloc_assoc_set_pid
  \/ ThreadEnds \/ OtherMoves \/ Crash

Spec == Init /\ [][Next]_vars
-----------------------------------------------------------------------------
(* Properties *)

Actives == {h \in Handle : grp[h].on}

\* A pqos_mon_stop() that succeeds leaves nothing of the group: its cores and
\* threads are not tagged with the name any more, and directories of the name
\* are left only if a core that is not of the group is in one of them
\* (resctrl_mon_stop(), resctrl_mon_shared()).
StopCleans ==
  last.op = "stop" /\ last.ret = "OK" /\ last.g.name # None =>
    /\ \A x \in last.g.cores \cup last.g.tids : os.mon[x] # last.g.name
    /\ last.g.name \in Names(os) => \E k \in Core : os.mon[k] = last.g.name

\* Starting, polling or stopping a group of cores, also when it fails half way,
\* leaves the tags of all other cores alone, although names are shared between
\* groups and processes and directories are removed on the way.
OthersUntouched ==
  [][calls' # calls /\ last'.op \in {"start", "poll", "stop"} /\ last'.g.cores # {} =>
       \A k \in Core \ last'.g.cores : os'.mon[k] = os.mon[k]]_vars

\* After a poll that succeeds every core of the group is counted in a directory
\* again, whoever changed its class in between: resctrl_mon_assoc_restore(), and
\* resctrl_mon_purge() removes nothing that is in use.
PollRestores ==
  last.op = "poll" /\ last.ret = "OK" /\ last.g.resctrl # {} =>
    \A k \in last.g.cores : os.mon[k] # None

\* RMIDs are not lost: a directory belongs to a group that is monitored, unless
\* a process died or a call reported an error when its group ended.
LeftOnlyOnError == Names(os) \subseteq {grp[h].name : h \in Actives} \cup orphan

\* A group of cores that takes over a name shares no L3 cache with the cores
\* that have the name: counters are read per cache, so the values of the two
\* groups stay apart (resctrl_mon_assign(), resctrl_mon_parse()).
CachesApart ==
  last.op = "start" /\ last.ret = "OK" /\ last.g.cores # {} /\ last.g.resctrl # {} =>
    \A k \in Core \ last.g.cores, m \in last.g.cores :
      os.mon[k] = last.g.name => L3id[k] # L3id[m]

\* A descriptor that is open is one of a group that is monitored, for something
\* it still watches, or was lost by perf_mon_start() when it failed.
DescriptorsOwned ==
  \A d \in os.fds : /\ d[1] \in Actives
                    /\ d[2] \in Watched(grp[d[1]])
                    /\ d[3] \in grp[d[1]].perf

\* What a group took from the kernel is given back: tags, directories and
\* descriptors (resctrl_mon_stop(), perf_mon_stop()), or the error was
\* reported.
NothingLeft == StopCleans /\ LeftOnlyOnError /\ DescriptorsOwned

\* What a group watches is counted, and apart from other groups: after a poll
\* no core is left untagged, and a shared name is shared across caches only.
CountedApart == TypeOK /\ PollRestores /\ CachesApart

=============================================================================
