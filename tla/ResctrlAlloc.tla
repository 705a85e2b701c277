---------------------------- MODULE ResctrlAlloc ----------------------------
(***************************************************************************)
(* Allocation through the kernel's resctrl file system:                    *)
(* lib/os_allocation.c, lib/resctrl_alloc.c, lib/resctrl_schemata.c and    *)
(* lib/resctrl.c.                                                          *)
(*                                                                         *)
(* A class of service is a directory COSn, the default class is the root   *)
(* directory.  Its file "cpus" lists cores, "tasks" lists threads and      *)
(* "schemata" has one line per technology with a value for every cache or  *)
(* memory controller.  A line and a cpu mask can only be written as a      *)
(* whole, so a change of one value is a read, a change and a write, which  *)
(* are separate steps here.  What protects them from other resctrl users   *)
(* (the peer) is a lock on the root directory, taken with a timeout.  The  *)
(* API lock keeps a second call of the library out, so one call is under   *)
(* way at a time; processes start and end whenever they like.              *)
(* Monitoring groups are in module OsMon.                                  *)
(***************************************************************************)
EXTENDS Integers, Sequences, FiniteSets

CONSTANTS
  Core,        \* logical cores
  Task,        \* threads, running or not
  Leader,      \* threads that are processes of their own: /proc lists them
  Self,        \* the process of the library
  Tech,        \* technologies of the platform, a subset of AllTech
  Ids,         \* Ids[t]: resource ids of technology t
  NumClos,     \* NumClos[t]: classes of t without CDP
  Ways,        \* cache ways: a bit mask is a set of ways
  Sparse,      \* technologies whose masks may have gaps
  Cdp,         \* technologies that support code/data prioritisation
  Ctrl,        \* the platform supports the MBA controller
  Step,        \* throttle_step of MBA
  MbaMax,      \* MbaMax[amd]: vconfig->mba_max, no throttling
  Unlimited,   \* default of a class under the MBA controller, in MBps
  CoreLists,   \* lists of cores an application passes
  AskClass,    \* classes an application asks for
  TaskLists,   \* lists of tasks an application passes
  Requests,    \* Requests[t]: requests [id, table] an application makes
  Configs,     \* configurations an application asks a reset for
  PeerCore,    \* cores another user of resctrl moves
  PeerEntry,   \* entries <<class, technology, id, value>> it writes
  MaxCalls,    \* bound on the calls of a run, pqos_init() and pqos_fini() aside
  Faults       \* the circumstances a run admits, a subset of FaultKinds

(***************************************************************************)
(* "io"    : writing the cpus file fails                                   *)
(* "busy"  : resctrl cannot be unmounted: a file of it is in use           *)
(* "mount" : mounting fails, or the kernel ignores the option mba_MBps     *)
(* "mkdir" : creating a class fails: other groups have used up the ids     *)
(***************************************************************************)
FaultKinds == {"io", "busy", "mount", "mkdir"}

AllTech == {"L3", "L2", "MBA", "SMBA"}

Cat == {"L3", "L2"}

\* A group of the file system that is not one of the library.
Other == -1

Dead == -2

\* A result that was not assigned.
Unset == -3

MaxOf(S) == CHOOSE m \in S : \A n \in S : n <= m
MinOf(S) == CHOOSE m \in S : \A n \in S : m <= n

\* SMBA, which only some of the machines have, can lower their number.
Class == 0 .. MinOf({NumClos[t] : t \in Tech \ {"SMBA"}}) - 1

Masks == [code : SUBSET Ways, data : SUBSET Ways]

Value(t) == IF t \in Cat THEN Masks ELSE Nat

Config == [l3 : {"ON", "OFF", "ANY"}, l2 : {"ON", "OFF", "ANY"},
           mba : {"CTRL", "DEFAULT", "ANY"}, smba : {"CTRL", "DEFAULT", "ANY"},
           mba40 : {"ON", "OFF", "ANY"}]

Mount == [cdp : SUBSET Cat, mbps : BOOLEAN]

NoMount == [cdp |-> {}, mbps |-> FALSE, none |-> TRUE]

ASSUME PlatformAssumption ==
  /\ Core \subseteq Nat /\ Core \cap Task = {}
  /\ Tech # {} /\ Tech \subseteq AllTech /\ Tech # {"SMBA"}
  /\ Cdp \subseteq Cat \cap Tech /\ Ctrl \in BOOLEAN
  /\ NumClos \in [Tech -> Nat \ {0}] /\ \A t \in Cdp : NumClos[t] > 1
  /\ Ways # {} /\ Ways \subseteq Nat
  /\ Step \in Nat \ {0}
  /\ Self \in Leader /\ Leader \subseteq Task

\* cpuinfo.c takes both ids of a core from the id of its L3 cache.
ASSUME IdAssumption == {"MBA", "SMBA"} \subseteq Tech => Ids["MBA"] = Ids["SMBA"]

\* The value for no limit is the largest multiple of a step that an unsigned
\* holds, and no percentage.
ASSUME LimitAssumption ==
  /\ Unlimited \in Nat /\ MbaMax \in [BOOLEAN -> Nat]
  /\ \A a \in BOOLEAN : MbaMax[a] < Unlimited

\* An entry of a table: masks within the ways, or a bandwidth that rounding
\* does not take past the limit of an unsigned.
Entry(t) ==
  IF t \in Cat
  THEN [class : Nat, cdp : BOOLEAN, code : SUBSET Ways, data : SUBSET Ways]
  ELSE [class : Nat, ctrl : BOOLEAN, max : 0 .. Unlimited - Step]

\* api.c refuses empty lists and tables.
ASSUME InputAssumption ==
  /\ Configs \subseteq Config /\ Faults \subseteq FaultKinds
  /\ CoreLists \subseteq Seq(Core) \ {<<>>} /\ TaskLists \subseteq Seq(Task) \ {<<>>}
  /\ AskClass \subseteq Nat /\ MaxCalls \in Nat
  /\ \A t \in AllTech : \A r \in Requests[t] : r.table \in Seq(Entry(t)) \ {<<>>}

\* The kernel lets nobody write another value.
ASSUME PeerAssumption == \A e \in PeerEntry : e[2] \in Tech => e[4] \in Value(e[2])

VARIABLES
  amd,      \* the machine is an AMD one: other limits, and SMBA
  mnt,      \* options resctrl is mounted with, or NoMount
  dirs,     \* the classes n that have a directory COSn
  cpu,      \* class of each core
  task,     \* class of each thread
  sch,      \* sch[class][t][id]: the schemata files
  flock,    \* holder of the lock on the root directory
  up,       \* the library is initialised
  cap,      \* cached capabilities: cdp_on and ctrl_on
  call,     \* the call under way
  last,     \* result of the call that just returned
  fresh,    \* threads started since that call, or the one under way, began
  moved,    \* the peer wrote something during that call
  calls     \* number of calls so far

vars == <<amd, mnt, dirs, cpu, task, sch, flock, up, cap, call, last, fresh, moved, calls>>

fs == <<mnt, dirs, cpu, task, sch>>

NoCall == [op |-> "none", at |-> "idle", cls |-> 0, arg |-> <<>>, todo |-> <<>>,
           buf |-> {}, tech |-> "L3", id |-> 0, out |-> <<>>, ret |-> "OK", cfg |-> <<>>]

NoResult == [op |-> "none", ret |-> "OK", cls |-> 0, items |-> <<>>, tech |-> "L3",
             id |-> 0, out |-> <<>>]

Rets == {"OK", "PARAM", "ERROR", "RESOURCE", "BUSY"}

Steps == {"idle", "lock", "read", "write", "tasks", "probe", "cores", "umount", "mount",
          "schematas", "scan", "proc"}

\* The technologies of this machine.
Techs == IF amd THEN Tech ELSE Tech \ {"SMBA"}

TypeOK ==
  /\ amd \in BOOLEAN /\ up \in BOOLEAN /\ moved \in BOOLEAN
  /\ mnt \in Mount \cup {NoMount}
  /\ dirs \subseteq Class \ {0}
  /\ cpu \in [Core -> Class \cup {Other}]
  /\ task \in [Task -> Class \cup {Other, Dead}]
  /\ \A c \in Class, t \in Tech : sch[c][t] \in [Ids[t] -> Value(t)]
  /\ flock \in {"free", "lib", "peer"}
  /\ cap.cdp \subseteq Cat /\ cap.ctrl \subseteq {"MBA", "SMBA"}
  /\ call.at \in Steps /\ call.ret \in Rets /\ last.ret \in Rets
  /\ fresh \subseteq Task
  /\ calls \in 0 .. MaxCalls

Can(fault) == fault \in Faults

(***************************************************************************)
(* A definition named M_... is a mutated form of the one after it: a bug   *)
(* the code could have had, used to show that a property would notice.     *)
(***************************************************************************)
-----------------------------------------------------------------------------
(* The kernel *)

Mounted == mnt # NoMount

\* A class can be opened: the root directory always, another if it exists.
Opens(c) == Mounted /\ (c = 0 \/ c \in dirs)

\* Values of a new group.
KernelDefault(t, m) ==
  IF t \in Cat THEN [code |-> Ways, data |-> Ways]
  ELSE IF t = "MBA" /\ m.mbps THEN Unlimited ELSE MbaMax[amd]

Fresh(m) == [t \in Tech |-> [i \in Ids[t] |-> KernelDefault(t, m)]]

\* A write to "cpus" of class c.  A core taken out of the mask falls back to
\* the default class; from there it cannot be taken out.
CpusAccepted(c, mask) == c = 0 => \A k \in Core : cpu[k] = 0 => k \in mask

CpusAfter(c, mask) ==
  [k \in Core |-> IF k \in mask THEN c ELSE IF cpu[k] = c THEN 0 ELSE cpu[k]]

\* A mask must not be empty, a percentage not exceed the maximum.
LineAccepted(t, line) ==
  \A i \in Ids[t] :
    IF t \in Cat THEN line[i].code # {} /\ line[i].data # {}
    ELSE (t = "MBA" /\ mnt.mbps) \/ line[i] <= MbaMax[amd]

-----------------------------------------------------------------------------
(* Reading and writing the files *)

\* resctrl_alloc_get_grps_num(): the classes that all technologies have.  CDP
\* needs two ids for a class.
Classes(t, on) == IF t \in on THEN NumClos[t] \div 2 ELSE NumClos[t]

Grps(on) == MinOf({Classes(t, on) : t \in Techs})

grps == Grps(cap.cdp)

\* resctrl_alloc_cpumask_read()
CpuMask(c) == {k \in Core : cpu[k] = c}

\* resctrl_schemata_read(): the line of one technology.
Line(c, t) == sch[c][t]

\* resctrl_schemata_reset(): code and data masks are full, MBA is off.
DefaultLine(t) ==
  [i \in Ids[t] |->
     IF t \in Cat THEN [code |-> Ways, data |-> Ways]
     ELSE IF t \in cap.ctrl THEN Unlimited ELSE MbaMax[amd]]

\* resctrl_alloc_task_read()
Tasks(c) == {p \in Task : task[p] = c}

\* resctrl_alloc_task_search(), from the highest class down.
TaskClass(p) == IF task[p] \in 0 .. grps - 1 THEN task[p] ELSE Unset

\* resctrl_alloc_get_unused_group(): the classes without cores and tasks.
Unused == {c \in 1 .. grps - 1 : CpuMask(c) = {} /\ Tasks(c) = {}}

-----------------------------------------------------------------------------
(* Calls *)

Counted == calls < MaxCalls /\ calls' = calls + 1

\* The API lock is taken: the call begins.
Begin(c) ==
  /\ up /\ call = NoCall
  /\ call' = c
  /\ last' = NoResult /\ fresh' = {} /\ moved' = FALSE /\ Counted
  /\ UNCHANGED <<amd, up, cap, flock>> /\ UNCHANGED fs

Result(c, r) == [NoResult EXCEPT !.op = c.op, !.ret = r, !.cls = c.cls, !.items = c.arg,
                 !.tech = c.tech, !.id = c.id, !.out = c.out]

\* A call that returns at once, having found what v says.
Refuse(c, r) ==
  /\ up /\ call = NoCall
  /\ call' = NoCall
  /\ last' = Result(c, r) /\ fresh' = {} /\ moved' = FALSE /\ Counted
  /\ UNCHANGED <<amd, up, cap, flock>> /\ UNCHANGED fs

Begins(c, refusal) ==
  \/ refusal = "OK" /\ Begin(c)
  \/ refusal # "OK" /\ Refuse(c, refusal)

Return(r) ==
  /\ call' = NoCall
  /\ last' = Result(call, r)

\* resctrl_lock_release() and return.
Leave(r) == Return(r) /\ flock' = "free"

Quiet == UNCHANGED <<amd, up, cap, fresh, moved, calls>>

\* The 100 ms alarm of resctrl_lock() ends the wait for the lock.
M_TimesOut(at) == FALSE
TimesOut(at) == call.at = at /\ (flock = "peer" \/ ~Mounted)

\* A call that cannot have the lock returns.
resctrl_lock_fails ==
  /\ TimesOut("lock")
  /\ Return("ERROR")
  /\ Quiet /\ UNCHANGED fs /\ UNCHANGED flock

\* resctrl_lock(): the file system can be opened and nobody has the lock.
M_Locked(at) == call.at = at /\ Mounted /\ UNCHANGED flock
Locked(at) == call.at = at /\ Mounted /\ flock = "free" /\ flock' = "lib"

-----------------------------------------------------------------------------
(* Association of cores *)

\* os_alloc_assoc_set(): todo is the list of cores, cls the class.
os_alloc_assoc_set ==
  \E k \in Core, c \in AskClass :
    Begins([NoCall EXCEPT !.op = "assoc_set", !.at = "lock", !.cls = c, !.todo = <<k>>,
              !.arg = <<k>>],
           IF c < grps THEN "OK" ELSE "PARAM")

\* os_alloc_assign(): the class is searched before the lock is taken.
os_alloc_assign ==
  \E s \in CoreLists :
    LET c == IF Unused # {} THEN MaxOf(Unused) ELSE 0
    IN Begins([NoCall EXCEPT !.op = "assign", !.at = "lock", !.cls = c, !.todo = s,
                 !.arg = s],
              IF \E g \in 1 .. grps - 1 : ~Opens(g) THEN "ERROR"
              ELSE IF Unused # {} THEN "OK" ELSE "RESOURCE")

\* os_alloc_release()
os_alloc_release ==
  \E s \in CoreLists :
    Begin([NoCall EXCEPT !.op = "release", !.at = "lock", !.todo = s, !.arg = s])

CoreOps == {"assoc_set", "assign", "release"}

\* The cores that one write of the cpus file moves: a release moves all at
\* once, an association one core.
Moving == IF call.op = "release" THEN {call.todo[n] : n \in 1 .. Len(call.todo)}
          ELSE {call.todo[1]}

\* os_alloc_release() compares core numbers with the number of cores, although
\* the numbers have gaps where cores are offline.
OutOfRange == call.op = "release" /\ \E k \in Moving : k >= Cardinality(Core)

\* resctrl_alloc_assoc_set(), os_alloc_release(): read the mask ...
ReadMask ==
  /\ call.op \in CoreOps
  /\ \/ /\ Opens(call.cls) /\ ~OutOfRange /\ Locked("lock")
        /\ call' = [call EXCEPT !.at = "write", !.buf = CpuMask(call.cls)]
        /\ UNCHANGED last
     \/ /\ ~Opens(call.cls) \/ OutOfRange
        /\ call.at = "lock" /\ Mounted /\ flock = "free"
        /\ Leave("ERROR")
  /\ Quiet /\ UNCHANGED fs

\* ... and write it with the cores in it.  The lock is released; an
\* assignment goes on with its next core.
WriteMask ==
  /\ call.op \in CoreOps /\ call.at = "write"
  /\ LET mask == call.buf \cup Moving
         rest == IF call.op = "assign" THEN Tail(call.todo) ELSE <<>>
     IN \/ /\ CpusAccepted(call.cls, mask)
           /\ cpu' = CpusAfter(call.cls, mask)
           /\ IF rest = <<>>
              THEN Leave("OK")
              ELSE /\ call' = [call EXCEPT !.at = "lock", !.todo = rest, !.buf = {}]
                   /\ flock' = "free" /\ UNCHANGED last
        \/ /\ ~CpusAccepted(call.cls, mask) \/ Can("io")
           /\ Leave("ERROR") /\ UNCHANGED cpu
  /\ Quiet /\ UNCHANGED <<mnt, dirs, task, sch>>

\* os_alloc_assoc_get(): a core of no class of the library is in no mask, and
\* the call succeeds without a result.
os_alloc_assoc_get ==
  \E k \in Core :
    LET c == IF cpu[k] \in 0 .. grps - 1 THEN cpu[k] ELSE Unset
        missing == \E g \in 0 .. grps - 1 : ~Opens(g) /\ (c = Unset \/ g < c)
    IN Refuse([NoCall EXCEPT !.op = "assoc_get", !.cls = c, !.arg = <<k>>],
              IF flock = "peer" \/ missing THEN "ERROR" ELSE "OK")

-----------------------------------------------------------------------------
(* Association of tasks *)

os_alloc_assoc_set_pid ==
  \E p \in Task, c \in AskClass :
    Begins([NoCall EXCEPT !.op = "assoc_set_pid", !.at = "lock", !.cls = c, !.todo = <<p>>,
              !.arg = <<p>>],
           IF c < grps THEN "OK" ELSE "PARAM")

os_alloc_assign_pid ==
  \E s \in TaskLists :
    Begin([NoCall EXCEPT !.op = "assign_pid", !.at = "lock", !.todo = s, !.arg = s])

os_alloc_release_pid ==
  \E s \in TaskLists :
    Begin([NoCall EXCEPT !.op = "release_pid", !.at = "lock", !.todo = s, !.arg = s])

TaskOps == {"assoc_set_pid", "assign_pid", "release_pid"}

\* os_alloc_assign_pid() searches the class under the lock, from the highest.
LockTasks ==
  /\ call.op \in TaskOps
  /\ \/ /\ call.op # "assign_pid" \/ Unused # {}
        /\ Locked("lock")
        /\ call' = [call EXCEPT !.at = "tasks",
                    !.cls = IF call.op = "assign_pid" THEN MaxOf(Unused) ELSE call.cls]
        /\ UNCHANGED last
     \/ /\ call.op = "assign_pid" /\ Unused = {}
        /\ call.at = "lock" /\ Mounted /\ flock = "free"
        /\ Leave("RESOURCE")
  /\ Quiet /\ UNCHANGED fs

\* resctrl_alloc_task_write(): a task that has ended ends the call.
WriteTask ==
  /\ call.at = "tasks"
  /\ LET p == Head(call.todo)
     IN \/ /\ task[p] # Dead /\ Opens(call.cls)
           /\ task' = [task EXCEPT ![p] = call.cls]
           /\ IF Len(call.todo) = 1
              THEN Leave("OK")
              ELSE call' = [call EXCEPT !.todo = Tail(call.todo)] /\ UNCHANGED <<flock, last>>
        \/ /\ task[p] = Dead \/ ~Opens(call.cls)
           /\ Leave(IF task[p] = Dead THEN "PARAM" ELSE "ERROR") /\ UNCHANGED task
  /\ Quiet /\ UNCHANGED <<mnt, dirs, cpu, sch>>

os_alloc_assoc_get_pid ==
  \E p \in Task :
    Refuse([NoCall EXCEPT !.op = "assoc_get_pid", !.cls = TaskClass(p), !.arg = <<p>>],
           IF flock = "peer" \/ ~Mounted THEN "ERROR"
           ELSE IF task[p] = Dead THEN "PARAM"
           ELSE IF TaskClass(p) = Unset THEN "ERROR" ELSE "OK")

\* os_pid_get_pid_assoc(): the tasks of a class, or NULL.
os_pid_get_pid_assoc ==
  \E c \in Class :
    Refuse([NoCall EXCEPT !.op = "pid_assoc", !.cls = c,
              !.out = Tasks(c)],
           IF c < grps /\ flock # "peer" /\ Opens(c) THEN "OK" ELSE "ERROR")

-----------------------------------------------------------------------------
(* Schemata *)

Contiguous(m) == \A i, j \in m : i .. j \subseteq m

NoGap(t, e) == t \in Sparse \/ (Contiguous(e.code) /\ Contiguous(e.data))

Entries(r) == {r.table[n] : n \in 1 .. Len(r.table)}

SetCall(t, r) ==
  [NoCall EXCEPT !.op = "set", !.at = "lock", !.tech = t, !.id = r.id, !.todo = r.table,
     !.arg = r.table]

\* os_l3ca_set(): a class without directory is only noticed when it is read.
os_l3ca_set ==
  \E r \in Requests["L3"] :
    Begins(SetCall("L3", r),
           IF \E e \in Entries(r) : e.code = {} \/ e.data = {} \/ ~NoGap("L3", e)
           THEN "PARAM"
           ELSE IF "L3" \notin Techs THEN "RESOURCE"
           ELSE IF Len(r.table) > grps THEN "ERROR"
           ELSE IF r.id \notin Ids["L3"] THEN "PARAM" ELSE "OK")

\* os_l2ca_set(): an empty mask is left to the kernel.
os_l2ca_set ==
  \E r \in Requests["L2"] :
    Begins(SetCall("L2", r),
           IF \E e \in Entries(r) : ~NoGap("L2", e) THEN "PARAM"
           ELSE IF "L2" \notin Techs THEN "RESOURCE"
           ELSE IF \/ Len(r.table) > grps
                   \/ \E e \in Entries(r) : e.class >= Classes("L2", cap.cdp)
                   \/ r.id \notin Ids["L2"]
           THEN "PARAM" ELSE "OK")

MbRefusal(t, r) ==
  IF t \notin Techs THEN "RESOURCE"
  ELSE IF \/ Len(r.table) > grps
          \/ \E e \in Entries(r) : e.class >= grps
          \/ r.id \notin Ids[t]
  THEN "PARAM" ELSE "OK"

os_mba_set ==
  ~amd /\ \E r \in Requests["MBA"] : Begins(SetCall("MBA", r), MbRefusal("MBA", r))

os_mba_set_amd ==
  amd /\ \E r \in Requests["MBA"] : Begins(SetCall("MBA", r), MbRefusal("MBA", r))

os_smba_set_amd ==
  amd /\ \E r \in Requests["SMBA"] : Begins(SetCall("SMBA", r), MbRefusal("SMBA", r))

\* A request that does not fit how resctrl is mounted.
Misfit(t, e) ==
  IF t \in Cat THEN e.cdp /\ t \notin cap.cdp ELSE e.ctrl # (t \in cap.ctrl)

\* The value written for a request: one mask is code and data mask under CDP,
\* and Intel's MBA rounds to the nearest step and to no less than one step.
Effective(t, e) ==
  IF t \in Cat THEN [code |-> e.code, data |-> e.data]
  ELSE IF t = "MBA" /\ ~amd /\ ~e.ctrl
       THEN LET near == ((e.max + Step \div 2) \div Step) * Step
            IN IF near = 0 THEN Step ELSE near
       ELSE e.max

\* The lock is taken once for all entries.
LockSchemata ==
  /\ call.op = "set" /\ Locked("lock")
  /\ call' = [call EXCEPT !.at = "read"]
  /\ Quiet /\ UNCHANGED fs /\ UNCHANGED last

\* Read the schemata of the next entry's class ...
ReadLine ==
  /\ call.op = "set" /\ call.at = "read"
  /\ LET e == Head(call.todo)
         t == call.tech
     IN \/ /\ Misfit(t, e) \/ ~Opens(e.class)
           /\ Leave(IF Misfit(t, e) /\ t \notin Cat THEN "PARAM" ELSE "ERROR")
        \/ /\ ~Misfit(t, e) /\ Opens(e.class)
           /\ call' = [call EXCEPT !.at = "write", !.buf = Line(e.class, t)]
           /\ UNCHANGED <<flock, last>>
  /\ Quiet /\ UNCHANGED fs

\* ... and write it back with one value changed.  What the kernel then holds
\* is read again into "actual".
WriteLine ==
  /\ call.op = "set" /\ call.at = "write"
  /\ LET e == Head(call.todo)
         t == call.tech
         line == [call.buf EXCEPT ![call.id] = Effective(t, e)]
     IN \/ /\ LineAccepted(t, line)
           /\ sch' = [sch EXCEPT ![e.class][t] = line]
           /\ LET c == [call EXCEPT !.out = Append(call.out, <<e, line[call.id]>>)]
              IN IF Len(call.todo) = 1
                 THEN call' = NoCall /\ last' = Result(c, "OK") /\ flock' = "free"
                 ELSE /\ call' = [c EXCEPT !.at = "read", !.todo = Tail(call.todo)]
                      /\ UNCHANGED <<flock, last>>
        \/ /\ ~LineAccepted(t, line)
           /\ Leave("ERROR") /\ UNCHANGED sch
  /\ Quiet /\ UNCHANGED <<mnt, dirs, cpu, task>>

\* What a technology's getter returns: the values of all classes, read under
\* the shared lock.
Table(t, i) == [c \in 0 .. grps - 1 |-> Line(c, t)[i]]

Gets(t) ==
  \E i \in Ids[t] :
    LET ok == t \in Techs /\ flock # "peer" /\ \A g \in 0 .. grps - 1 : Opens(g)
    IN Refuse([NoCall EXCEPT !.op = "get", !.tech = t, !.id = i,
                 !.out = IF ok THEN Table(t, i) ELSE <<>>],
              IF ok THEN "OK" ELSE IF t \notin Techs THEN "RESOURCE" ELSE "ERROR")

os_l3ca_get == Gets("L3")
os_l2ca_get == Gets("L2")
os_mba_get == ~amd /\ Gets("MBA")
os_mba_get_amd == amd /\ Gets("MBA")
os_smba_get_amd == amd /\ Gets("SMBA")

-----------------------------------------------------------------------------
(* Mounting, and the directories of the classes *)

\* os_alloc_prep(): directories are made in order until one fails.
PrepFull == dirs' = dirs \cup (1 .. Grps(cap'.cdp) - 1)

PrepStops ==
  /\ Can("mkdir")
  /\ \E n \in (1 .. Grps(cap'.cdp) - 1) \ dirs : dirs' = dirs \cup (1 .. n - 1)

\* A mount starts with the default group only.
MountAs(m) ==
  /\ mnt' = m
  /\ cpu' = [k \in Core |-> 0]
  /\ task' = [p \in Task |-> IF task[p] = Dead THEN Dead ELSE 0]
  /\ sch' = [c \in Class |-> Fresh(m)]

Plain == [cdp |-> {}, mbps |-> FALSE]

\* Capabilities as os_cap.c reads them from the file system.
CapOf(m) == [cdp |-> m.cdp, ctrl |-> IF m.mbps THEN {"MBA"} ELSE {}]

\* os_alloc_check() mounts what is not mounted.
CheckMount == IF Mounted THEN UNCHANGED <<mnt, cpu, task, sch>> ELSE MountAs(Plain)

\* os_alloc_init(), after the discovery of capabilities.
os_alloc_init ==
  /\ ~up /\ call = NoCall
  /\ CheckMount
  /\ cap' = CapOf(mnt')
  /\ \/ PrepFull /\ up' = TRUE
        /\ last' = [NoResult EXCEPT !.op = "init", !.ret = "OK"]
     \/ PrepStops /\ up' = FALSE
        /\ last' = [NoResult EXCEPT !.op = "init", !.ret = "BUSY"]
  /\ fresh' = {} /\ moved' = FALSE
  /\ UNCHANGED <<amd, flock, call, calls>>

\* os_alloc_fini() leaves the file system as it is.
os_alloc_fini ==
  /\ up /\ call = NoCall
  /\ up' = FALSE
  /\ UNCHANGED <<amd, flock, cap, call, last, fresh, moved, calls>> /\ UNCHANGED fs

-----------------------------------------------------------------------------
(* os_alloc_reset() *)

\* The mode asked for a feature that is on or off, ANY leaving it.
L3Cdp(cfg) == IF cfg.l3 = "ANY" THEN "L3" \in cap.cdp ELSE cfg.l3 = "ON"
L2Cdp(cfg) == IF cfg.l2 = "ANY" THEN "L2" \in cap.cdp ELSE cfg.l2 = "ON"
MbaCtrl(cfg) == IF cfg.mba = "ANY" THEN "MBA" \in cap.ctrl ELSE cfg.mba = "CTRL"
SmbaCtrl(cfg) == IF cfg.smba = "ANY" THEN "SMBA" \in cap.ctrl ELSE cfg.smba = "CTRL"

WantCdp(cfg) == {t \in Cat \cap Techs : IF t = "L3" THEN L3Cdp(cfg) ELSE L2Cdp(cfg)}

WantCtrl(cfg) == {t \in {"MBA", "SMBA"} \cap Techs :
                    IF t = "MBA" THEN MbaCtrl(cfg) ELSE SmbaCtrl(cfg)}

Changes(cfg) == WantCdp(cfg) # cap.cdp \/ WantCtrl(cfg) # cap.ctrl

ResetRefusal(cfg) ==
  IF Techs \cap {"L3", "L2", "MBA"} = {} THEN "RESOURCE"
  ELSE IF "L3" \notin Techs /\ cfg.l3 # "ANY" THEN "RESOURCE"
  ELSE IF cfg.l3 = "ON" /\ "L3" \notin Cdp THEN "PARAM"
  ELSE IF "L2" \notin Techs /\ cfg.l2 # "ANY" THEN "RESOURCE"
  ELSE IF cfg.l2 = "ON" /\ "L2" \notin Cdp THEN "PARAM"
  ELSE IF "MBA" \notin Techs /\ cfg.mba # "ANY" THEN "RESOURCE"
  ELSE IF cfg.mba = "CTRL" /\ ~Ctrl THEN "PARAM"
  ELSE IF cfg.mba40 # "ANY" THEN "PARAM"
  ELSE IF "SMBA" \notin Techs /\ cfg.smba # "ANY" THEN "RESOURCE" ELSE "OK"

os_alloc_reset ==
  \E cfg \in Configs :
    Begins([NoCall EXCEPT !.op = "reset", !.at = "probe", !.cfg = <<cfg>>],
           ResetRefusal(cfg))

\* "Check if resctrl is in use": the lock is taken and released.
ResetProbe ==
  /\ call.at = "probe" /\ Mounted /\ flock = "free"
  /\ \/ call' = [call EXCEPT !.at = "cores"] /\ UNCHANGED last
     \/ Changes(call.cfg[1]) /\ Return("ERROR")     \* resctrl_mon_active()
  /\ Quiet /\ UNCHANGED fs /\ UNCHANGED flock

ResetProbeFails ==
  /\ TimesOut("probe") /\ Return("ERROR")
  /\ Quiet /\ UNCHANGED fs /\ UNCHANGED flock

\* os_alloc_reset_cores() writes all cores to the default class, without the
\* lock.  A full reset stops if it fails, a light one remembers.
os_alloc_reset_cores ==
  /\ call.at = "cores"
  /\ LET full == Changes(call.cfg[1])
         next == [call EXCEPT !.at = IF full THEN "umount" ELSE "schematas"]
     IN \/ /\ cpu' = [k \in Core |-> 0]
           /\ call' = next /\ UNCHANGED last
        \/ /\ Can("io") /\ UNCHANGED cpu
           /\ IF full THEN Return("ERROR")
              ELSE call' = [next EXCEPT !.ret = "ERROR"] /\ UNCHANGED last
  /\ Quiet /\ UNCHANGED <<mnt, dirs, task, sch, flock>>

\* resctrl_umount() fails while somebody has the directory open.
ResetUmount ==
  /\ call.at = "umount"
  /\ \/ /\ flock # "peer"
        /\ mnt' = NoMount /\ dirs' = {}
        /\ cpu' = [k \in Core |-> 0]
        /\ task' = [p \in Task |-> IF task[p] = Dead THEN Dead ELSE 0]
        /\ sch' = [c \in Class |-> Fresh(Plain)]
        /\ call' = [call EXCEPT !.at = "mount"] /\ UNCHANGED last
     \/ /\ flock = "peer" \/ Can("busy")
        /\ Return("ERROR") /\ UNCHANGED fs
  /\ Quiet /\ UNCHANGED flock

CapAfter(cfg) == [cdp |-> WantCdp(cfg), ctrl |-> WantCtrl(cfg)]

MountOptions(cfg) == [cdp |-> WantCdp(cfg), mbps |-> "MBA" \in WantCtrl(cfg)]

\* os_alloc_mount(), the capabilities, os_alloc_prep().  The mount is undone
\* if the MBA controller was asked for and the kernel did not enable it.
M_ResetMount ==
  /\ call.at = "mount"
  /\ LET m == MountOptions(call.cfg[1])
     IN /\ cap' = CapAfter(call.cfg[1])
        /\ \/ MountAs(m) /\ PrepFull /\ Return("OK")
           \/ MountAs(m) /\ PrepStops /\ Return("BUSY")
           \/ Can("mount") /\ m.mbps /\ MountAs([m EXCEPT !.mbps = FALSE])
              /\ PrepFull /\ Return("OK")
           \/ Can("mount") /\ UNCHANGED fs /\ Return("ERROR")
  /\ UNCHANGED <<amd, flock, up, fresh, moved, calls>>
ResetMount ==
  /\ call.at = "mount"
  /\ LET m == MountOptions(call.cfg[1])
     IN \/ /\ MountAs(m)
           /\ cap' = CapAfter(call.cfg[1])
           /\ \/ PrepFull /\ Return("OK")
              \/ PrepStops /\ Return("BUSY")
        \/ /\ Can("mount")
           /\ UNCHANGED fs /\ UNCHANGED cap /\ Return("ERROR")
  /\ UNCHANGED <<amd, flock, up, fresh, moved, calls>>

\* os_alloc_reset_schematas(): all classes under one lock, as far as they
\* have a directory.
M_os_alloc_reset_schematas ==
  /\ call.at = "schematas"
  /\ \/ /\ Mounted /\ flock = "free"
        /\ LET bad == {c \in 0 .. grps - 1 :
                        ~Opens(c) \/ \E t \in Techs : ~LineAccepted(t, DefaultLine(t))}
           IN /\ sch' = [c \in Class |->
                           IF c < grps /\ \A b \in bad : c < b
                           THEN [t \in Tech |-> DefaultLine(t)] ELSE sch[c]]
              /\ call' = [call EXCEPT !.at = "scan"]
     \/ /\ TimesOut("schematas")
        /\ call' = [call EXCEPT !.at = "scan"] /\ UNCHANGED sch
  /\ Quiet /\ UNCHANGED <<mnt, dirs, cpu, task, flock, last>>
os_alloc_reset_schematas ==
  /\ call.at = "schematas"
  /\ \/ /\ Mounted /\ flock = "free"
        /\ LET bad == {c \in 0 .. grps - 1 :
                        ~Opens(c) \/ \E t \in Techs : ~LineAccepted(t, DefaultLine(t))}
           IN /\ sch' = [c \in Class |->
                           IF c < grps /\ \A b \in bad : c < b
                           THEN [t \in Tech |-> DefaultLine(t)] ELSE sch[c]]
              /\ call' = [call EXCEPT !.at = "scan",
                                      !.ret = IF bad = {} THEN call.ret ELSE "ERROR"]
     \/ /\ TimesOut("schematas")
        /\ call' = [call EXCEPT !.at = "scan", !.ret = "ERROR"] /\ UNCHANGED sch
  /\ Quiet /\ UNCHANGED <<mnt, dirs, cpu, task, flock, last>>

\* os_alloc_reset_tasks(): the processes of /proc.
ScanProc ==
  /\ call.at = "scan"
  /\ call' = [call EXCEPT !.at = "proc", !.buf = {p \in Leader : task[p] # Dead}]
  /\ Quiet /\ UNCHANGED fs /\ UNCHANGED <<flock, last>>

\* One of them is written to the default class, if it still exists; a lock
\* that cannot be had ends the loop.
os_alloc_reset_tasks ==
  /\ call.at = "proc"
  /\ \/ /\ call.buf = {}
        /\ Return(call.ret) /\ UNCHANGED task
     \/ \E p \in call.buf :
          \/ /\ task[p] = Dead \/ (Mounted /\ flock = "free")
             /\ task' = [task EXCEPT ![p] = IF task[p] = Dead THEN Dead ELSE 0]
             /\ call' = [call EXCEPT !.buf = call.buf \ {p}] /\ UNCHANGED last
          \/ /\ task[p] # Dead /\ TimesOut("proc")
             /\ Return("ERROR") /\ UNCHANGED task
  /\ Quiet /\ UNCHANGED <<mnt, dirs, cpu, sch, flock>>

-----------------------------------------------------------------------------
(* Other users of resctrl, and processes that start and end *)

\* What happens between calls makes the last result a thing of the past.
Meanwhile(f, m) ==
  IF call = NoCall
  THEN last' = NoResult /\ fresh' = {} /\ moved' = FALSE
  ELSE last' = last /\ fresh' = fresh \cup f /\ moved' = (moved \/ m)

\* The peer keeps to the protocol: it writes only under the lock.
PeerLock ==
  /\ Mounted /\ flock = "free" /\ flock' = "peer"
  /\ Meanwhile({}, FALSE)
  /\ UNCHANGED fs /\ UNCHANGED <<amd, up, cap, call, calls>>

PeerUnlock ==
  /\ flock = "peer" /\ flock' = "free"
  /\ Meanwhile({}, FALSE)
  /\ UNCHANGED fs /\ UNCHANGED <<amd, up, cap, call, calls>>

PeerWrite ==
  /\ flock = "peer"
  /\ \/ \E k \in PeerCore, c \in dirs \cup {0, Other} :
          cpu' = [cpu EXCEPT ![k] = c] /\ UNCHANGED sch
     \/ \E e \in PeerEntry :
          /\ Opens(e[1]) /\ e[2] \in Techs
          /\ sch' = [sch EXCEPT ![e[1]][e[2]][e[3]] = e[4]] /\ UNCHANGED cpu
  /\ Meanwhile({}, TRUE)
  /\ UNCHANGED <<amd, mnt, dirs, task, flock, up, cap, call, calls>>

TaskExits ==
  /\ \E p \in Task \ {Self} : task[p] # Dead /\ task' = [task EXCEPT ![p] = Dead]
  /\ Meanwhile({}, FALSE)
  /\ UNCHANGED <<amd, mnt, dirs, cpu, sch, flock, up, cap, call, calls>>

\* A new thread has the class of its parent.
TaskStarts ==
  /\ \E p, q \in Task :
       /\ task[p] = Dead /\ task[q] # Dead
       /\ task' = [task EXCEPT ![p] = task[q]]
       /\ Meanwhile({p}, FALSE)
  /\ UNCHANGED <<amd, mnt, dirs, cpu, sch, flock, up, cap, call, calls>>

-----------------------------------------------------------------------------
Init ==
  /\ amd \in BOOLEAN
  /\ mnt = NoMount /\ dirs = {}
  /\ cpu = [k \in Core |-> 0]
  /\ task = [p \in Task |-> 0]
  /\ sch = [c \in Class |-> Fresh(Plain)]
  /\ flock = "free" /\ up = FALSE
  /\ cap = [cdp |-> {}, ctrl |-> {}]
  /\ call = NoCall /\ last = NoResult
  /\ fresh = {} /\ moved = FALSE /\ calls = 0

Calls ==
  \/ os_alloc_init \/ os_alloc_fini
  \/ os_alloc_assoc_set \/ os_alloc_assign \/ os_alloc_release \/ os_alloc_assoc_get
  \/ os_alloc_assoc_set_pid \/ os_alloc_assign_pid \/ os_alloc_release_pid
  \/ os_alloc_assoc_get_pid \/ os_pid_get_pid_assoc
  \/ os_l3ca_set \/ os_l2ca_set \/ os_mba_set \/ os_mba_set_amd \/ os_smba_set_amd
  \/ os_l3ca_get \/ os_l2ca_get \/ os_mba_get \/ os_mba_get_amd \/ os_smba_get_amd
  \/ os_alloc_reset

\* The steps of the call under way.
Library ==
  \/ resctrl_lock_fails \/ ReadMask \/ WriteMask
  \/ LockTasks \/ WriteTask \/ LockSchemata \/ ReadLine \/ WriteLine
  \/ ResetProbe \/ ResetProbeFails \/ os_alloc_reset_cores \/ ResetUmount \/ ResetMount
  \/ os_alloc_reset_schematas \/ ScanProc \/ os_alloc_reset_tasks

Environment == PeerLock \/ PeerUnlock \/ PeerWrite \/ TaskExits \/ TaskStarts

Next == Calls \/ Library \/ Environment

Spec == Init /\ [][Next]_vars

\* The thread of a call runs on, and the alarm of resctrl_lock() fires.  The
\* peer is not assumed to release its lock.
FairSpec == Spec /\ WF_vars(Library)

-----------------------------------------------------------------------------
(* Properties *)

Elems(s) == {s[n] : n \in 1 .. Len(s)}

\* A call that has returned holds no lock on the file system, on whatever path
\* it left: os_alloc_assoc_set_exit, os_l3ca_set_unlock and the others.
LockReleased == call = NoCall => flock # "lib"

\* An assignment returns a class that only the cores or tasks asked for use.
\* os_alloc_assign_pid() finds and fills the class under one lock;
\* os_alloc_assign() searches without it, so there the peer must be idle.
AssignedAlone ==
  (/\ last.op \in {"assign", "assign_pid"} /\ last.ret = "OK"
   /\ last.op = "assign" => ~moved)
    => /\ \A k \in Core : cpu[k] = last.cls => k \in Elems(last.items)
       /\ \A p \in Task : task[p] = last.cls => p \in Elems(last.items) \cup fresh
       /\ last.op = "assign" => \A k \in Elems(last.items) : cpu[k] = last.cls

\* What a successful os_l3ca_set(), os_l2ca_set() or os_mba_set() asked for is
\* in the schemata file, to the nearest step where bandwidth is a percentage.
\* Where a table names a class twice the later entry counts.
SetTookEffect ==
  (last.op = "set" /\ last.ret = "OK")
    => \A n \in 1 .. Len(last.items) :
         (\A m \in n + 1 .. Len(last.items) : last.items[m].class # last.items[n].class)
           => LET e == last.items[n]
                  v == sch[e.class][last.tech][last.id]
              IN IF last.tech \in Cat THEN v = [code |-> e.code, data |-> e.data]
                 ELSE IF last.tech = "SMBA" \/ amd \/ e.ctrl THEN v = e.max
                 ELSE /\ v % Step = 0 /\ v >= Step
                      /\ e.max >= Step => 2 * (v - e.max) \in -Step .. Step

\* A reset that reports success and met no other user has put every core and
\* every process into the default class, and full access into every class:
\* os_alloc_reset_light() forgets the failure of none of its three parts.
ResetRestores ==
  (last.op = "reset" /\ last.ret = "OK" /\ ~moved)
    => /\ \A k \in Core : cpu[k] = 0
       /\ \A p \in Leader \ fresh : task[p] \in {0, Dead}
       /\ \A c \in 0 .. grps - 1 : \A t \in Techs : sch[c][t] = Fresh(mnt)[t]

\* After a successful pqos_init() or reset there is a directory for every class
\* the capabilities announce, also when CDP was switched.
GroupsReady ==
  (last.op \in {"init", "reset"} /\ last.ret = "OK") => Mounted /\ 1 .. grps - 1 \subseteq dirs

\* The cached cdp_on and ctrl_on are how resctrl is mounted, also after a mount
\* that failed or that the kernel did not honour.
CapMatchesMount ==
  (up /\ Mounted) => cap.cdp = mnt.cdp /\ (("MBA" \in cap.ctrl) <=> mnt.mbps)

\* A step of a call changes only what the call was asked to change: what the
\* peer wrote to the same file between its read and its write is kept.
OnlyAsked ==
  [][(call # NoCall /\ call' # call /\ call.op # "reset")
      => /\ \A k \in Core : cpu'[k] # cpu[k] => k \in Elems(call.arg)
         /\ \A p \in Task : task'[p] # task[p] => p \in Elems(call.arg)
         /\ \A c \in Class, t \in Tech :
              \A i \in Ids[t] :
                sch'[c][t][i] # sch[c][t][i]
                  => t = call.tech /\ i = call.id /\ \E e \in Elems(call.arg) : e.class = c]_vars

\* A call returns although the peer may never release its lock: resctrl_lock()
\* gives up after 100 ms.
CallReturns == call # NoCall ~> call = NoCall

\* Between the calls the library and the file system agree: the lock is
\* released, the capabilities say how resctrl is mounted, and there is a
\* directory for every class they announce.
Consistent == TypeOK /\ LockReleased /\ CapMatchesMount /\ GroupsReady

\* A call of os_allocation.c that returns OK has done what it says: an assigned
\* class is the caller's alone, a class holds what was set, a reset restored
\* everything.
OkMeansDone == AssignedAlone /\ SetTookEffect /\ ResetRestores

=============================================================================
