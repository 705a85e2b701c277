--------------------------- MODULE PqosLifecycle ---------------------------
(***************************************************************************)
(* The life of the library inside one process: pqos_init(), pqos_fini()    *)
(* (lib/cap.c) and the frame every API call has (API_CALL in lib/api.c),   *)
(* called by several threads and serialised by m_apilock_mutex (lock.c).   *)
(*                                                                         *)
(* pqos_init() brings a dozen parts up one after the other; which ones,    *)
(* and which of them may fail, depends on the interface.  The static data  *)
(* of a part stays allocated until the part's own _fini() is called, also  *)
(* after a pqos_init() that failed.                                        *)
(*                                                                         *)
(* The lock file is shared with other processes in module ApiLock; here it *)
(* is only ours, or not ours.                                              *)
(***************************************************************************)
EXTENDS Naturals, FiniteSets

CONSTANTS
  Thread,     \* the threads of the process
  NoThread,   \* nobody
  NumDomain,  \* number of CPU agents in the ERDT table
  Faults      \* the circumstances a run admits, a subset of FaultKinds

(***************************************************************************)
(* "mode"     : mapping the control register of a domain may fail in       *)
(*              set_mbm_mba_mode_v1()                                      *)
(* "fini_off" : pqos_fini() is called although the library is not          *)
(*              initialised, as the programs in examples/ do               *)
(* "field"    : lock_init() takes the process's own lock file for stale    *)
(*              (the field it compares is not the start time)              *)
(***************************************************************************)
FaultKinds == {"mode", "fini_off", "field"}

ASSUME ThreadAssumption == NoThread \notin Thread
ASSUME DomainAssumption == NumDomain \in Nat
ASSUME FaultAssumption == Faults \subseteq FaultKinds

VARIABLES
  m_init_done,  \* the library is initialised
  m_sysconf,    \* the members of m_sysconf that are not NULL
  m_interface,  \* the interface set by the last pqos_init() that got so far
  up,           \* the parts whose static data is allocated and set
  local,        \* what the running pqos_init() obtained: its local pointers
                \* that are not NULL, cat_init and mon_init
  mode,         \* the MBM/MBA mode of each domain's control register
  lockfile,     \* does LOCKFILE exist and name this process
  m_apilock,    \* is the descriptor m_apilock open
  mutex,        \* m_apilock_mutex: usable or destroyed, taken or free
  op,           \* the call each thread is in
  at,           \* where each thread is in it
  iface,        \* the local variable interface of pqos_init() and pqos_fini()
  ret           \* the value the thread's call is going to return

vars == <<m_init_done, m_sysconf, m_interface, up, local, mode, lockfile,
          m_apilock, mutex, op, at, iface, ret>>
library == <<m_init_done, m_sysconf, m_interface, up, local, mode>>
lock    == <<lockfile, m_apilock, mutex>>

Interface == {"MSR", "OS", "MMIO"}   \* OS stands for OS_RESCTRL_MON as well
Mode      == {"total", "region"}
RetVal    == {"OK", "INIT", "ERROR"}

\* m_sysconf points into the first seven; the others have no member in it.
Pointers == {"cap", "cpuinfo", "iordt", "erdt", "mrrm", "cores_domains",
             "channels_domains"}
Parts    == Pointers \cup {"log", "machine", "alloc", "mon"}

Stages == {"log", "interface", "cpuinfo", "machine", "os_cap", "cap", "api",
           "erdt", "cores_domains", "mode", "alloc", "mon", "mrrm", "iordt",
           "channels_domains", "publish"}
Places == Stages \cup {"idle", "get", "wait", "check", "body", "release",
                       "lock_fini"}

TypeOK ==
  /\ m_init_done \in BOOLEAN
  /\ m_sysconf \subseteq Pointers
  /\ m_interface \in Interface
  /\ up \subseteq Parts
  /\ local \subseteq Parts
  /\ mode \in [1 .. NumDomain -> Mode]
  /\ lockfile \in BOOLEAN
  /\ m_apilock \in BOOLEAN
  /\ mutex \in [usable : BOOLEAN, taken : BOOLEAN]
  /\ op \in [Thread -> {"none", "init", "fini", "api"}]
  /\ at \in [Thread -> Places]
  /\ iface \in [Thread -> Interface]
  /\ ret \in [Thread -> RetVal]

\* m_interface is PQOS_INTER_MSR and the mutex all zeros, that is usable,
\* when the process starts.
Init ==
  /\ m_init_done = FALSE
  /\ m_sysconf = {}
  /\ m_interface = "MSR"
  /\ up = {}
  /\ local = {}
  /\ mode = [d \in 1 .. NumDomain |-> "total"]
  /\ lockfile = FALSE
  /\ m_apilock = FALSE
  /\ mutex = [usable |-> TRUE, taken |-> FALSE]
  /\ op = [t \in Thread |-> "none"]
  /\ at = [t \in Thread |-> "idle"]
  /\ iface = [t \in Thread |-> "MSR"]
  /\ ret = [t \in Thread |-> "OK"]

-----------------------------------------------------------------------------
Goto(t, from, to) ==
  /\ at[t] = from
  /\ at' = [at EXCEPT ![t] = to]

Idle(t) == at[t] = "idle"

\* The call returns ret[t]; its locals are gone.
Return(t) ==
  /\ op' = [op EXCEPT ![t] = "none"]
  /\ iface' = [iface EXCEPT ![t] = "MSR"]
  /\ ret' = [ret EXCEPT ![t] = "OK"]

(***************************************************************************)
(* A definition named M_... is a mutated form of the one after it: a bug   *)
(* the code could have had, used to show that a property would notice.     *)
(***************************************************************************)

-----------------------------------------------------------------------------
(***************************************************************************)
(* The mutex.  glibc's pthread_mutex_lock() returns EINVAL for a destroyed *)
(* mutex and lock_get() goes on without it; a thread that was already      *)
(* waiting when the mutex was destroyed still takes it.  Unlocking a       *)
(* destroyed mutex is EINVAL too and frees nothing.                        *)
(***************************************************************************)
lock_get(t) ==
  /\ Goto(t, "get", IF mutex.usable THEN "wait" ELSE "check")
  /\ UNCHANGED <<library, lock, op, iface, ret>>

\* Mutant: the mutex is not waited for.
M_Take(t) ==
  /\ Goto(t, "wait", "check")
  /\ mutex' = [mutex EXCEPT !.taken = TRUE]
  /\ UNCHANGED <<library, lockfile, m_apilock, op, iface, ret>>

Take(t) ==
  /\ ~mutex.taken
  /\ Goto(t, "wait", "check")
  /\ mutex' = [mutex EXCEPT !.taken = TRUE]
  /\ UNCHANGED <<library, lockfile, m_apilock, op, iface, ret>>

\* pqos_fini(), and a pqos_init() that failed, go on to lock_fini().
Discards(t) == op[t] = "fini" \/ (op[t] = "init" /\ ret[t] # "OK")

\* Mutant: an early return of an API call forgets to release the lock.
M_lock_release(t) ==
  /\ Goto(t, "release", IF Discards(t) THEN "lock_fini" ELSE "idle")
  /\ mutex' = IF mutex.usable /\ ret[t] # "INIT"
              THEN [mutex EXCEPT !.taken = FALSE] ELSE mutex
  /\ IF Discards(t) THEN UNCHANGED <<op, iface, ret>> ELSE Return(t)
  /\ UNCHANGED <<library, lockfile, m_apilock>>

lock_release(t) ==
  /\ Goto(t, "release", IF Discards(t) THEN "lock_fini" ELSE "idle")
  /\ mutex' = IF mutex.usable THEN [mutex EXCEPT !.taken = FALSE] ELSE mutex
  /\ IF Discards(t) THEN UNCHANGED <<op, iface, ret>> ELSE Return(t)
  /\ UNCHANGED <<library, lockfile, m_apilock>>

\* pthread_mutex_destroy() refuses (EBUSY) a mutex somebody has taken since
\* lock_release(); the lock file is unlinked all the same.
lock_fini(t) ==
  /\ Goto(t, "lock_fini", "idle")
  /\ mutex' = IF mutex.usable /\ mutex.taken THEN mutex
              ELSE [mutex EXCEPT !.usable = FALSE]
  /\ m_apilock' = FALSE
  /\ lockfile' = FALSE
  /\ Return(t)
  /\ UNCHANGED library

-----------------------------------------------------------------------------
(***************************************************************************)
(* pqos_init()                                                             *)
(***************************************************************************)

\* The application does not call pqos_init() while another of its threads
\* is inside the library; calling it twice is allowed.
MayInit(t) == \A u \in Thread : Idle(u)

\* lock_init() as one step: it runs under its own init_mutex.  The file is
\* new, or ours but taken for stale.
CallInit(t) ==
  /\ MayInit(t)
  /\ lockfile => "field" \in Faults
  /\ Goto(t, "idle", "get")
  /\ op' = [op EXCEPT ![t] = "init"]
  /\ lockfile' = TRUE
  /\ m_apilock' = TRUE
  /\ mutex' = [usable |-> TRUE, taken |-> FALSE]
  /\ UNCHANGED <<library, iface, ret>>

\* Mutant: the failed open() removes the lock file on its way out.
M_InitRefused(t) ==
  /\ MayInit(t)
  /\ m_apilock' = FALSE
  /\ lockfile' = FALSE
  /\ UNCHANGED <<library, mutex, op, at, iface, ret>>

\* lock_init() fails: the directory probe before open() leaves m_apilock
\* alone, the failed open() on a lock file in use overwrites it with -1.
InitRefused(t) ==
  /\ MayInit(t)
  /\ m_apilock' \in {m_apilock, FALSE}
  /\ UNCHANGED <<library, lockfile, mutex, op, at, iface, ret>>

\* Mutant: a failed pqos_init() does not finalise the CPU topology.
M_Undone(i, s) ==
  LET early == CASE s = "log" -> {}
                 [] s \in {"interface", "cpuinfo"} -> {"log"}
                 [] s = "machine" -> {"log"}
                 [] OTHER -> {"log", "machine", "cap"}
  IN  early \cup IF s \notin {"iordt", "channels_domains"} THEN {}
                 ELSE {"iordt", "erdt"} \cup
                      IF i # "MMIO" THEN {}
                      ELSE {"cores_domains", "mrrm", "channels_domains"}

\* What the labels at the end of pqos_init() finalise when stage s failed.
Undone(i, s) ==
  LET early == CASE s = "log" -> {}
                 [] s \in {"interface", "cpuinfo"} -> {"log"}
                 [] s = "machine" -> {"log", "cpuinfo"}
                 [] OTHER -> {"log", "cpuinfo", "machine", "cap"}
  IN  early \cup IF s \notin {"iordt", "channels_domains"} THEN {}
                 ELSE {"iordt", "erdt"} \cup
                      IF i # "MMIO" THEN {}
                      ELSE {"cores_domains", "mrrm", "channels_domains"}

\* The stage after s, when s succeeded.
NextStage(i, s) ==
  CASE s = "log"           -> "interface"
    [] s = "interface"     -> "cpuinfo"
    [] s = "cpuinfo"       -> "machine"
    [] s = "machine"       -> IF i = "OS" THEN "os_cap" ELSE "cap"
    [] s = "os_cap"        -> "cap"
    [] s = "cap"           -> "api"
    [] s = "api"           -> "erdt"
    [] s = "erdt"          -> IF i = "MMIO" THEN "cores_domains"
                              ELSE IF i = "MSR" THEN "mode" ELSE "alloc"
    [] s = "cores_domains" -> "mode"
    [] s = "mode"          -> "alloc"
    [] s = "alloc"         -> "mon"
    [] s = "mon"           -> IF i = "MMIO" THEN "mrrm" ELSE "iordt"
    [] s = "mrrm"          -> "iordt"
    [] s = "iordt"         -> IF i = "MMIO" THEN "channels_domains" ELSE "publish"
    [] OTHER               -> "publish"

\* These free their own static data when they fail half-way.
SelfCleaning == {"erdt", "mrrm", "mon", "iordt"}

\* pqos_init() jumps to the label Undone() stands for.
Fail(t, s, i) ==
  /\ Goto(t, s, "release")
  /\ ret' = [ret EXCEPT ![t] = "ERROR"]
  /\ \E own \in SUBSET ({s} \cap SelfCleaning) : up' = up \ (Undone(i, s) \cup own)
  /\ local' = {}
  /\ UNCHANGED <<m_init_done, m_sysconf, m_interface, mode, lock, op, iface>>

InitCheck(t) ==
  /\ op[t] = "init"
  /\ Goto(t, "check", IF m_init_done THEN "release" ELSE "log")
  /\ ret' = [ret EXCEPT ![t] = IF m_init_done THEN "INIT" ELSE @]
  /\ m_sysconf' = IF m_init_done THEN m_sysconf ELSE {}
  /\ UNCHANGED <<m_init_done, m_interface, up, local, mode, lock, op, iface>>

\* Mutant: a request for any interface is passed on unresolved.
M_discover_interface(requested, RDT_IFACE) ==
  CASE RDT_IFACE = "unset" -> {requested}
    [] RDT_IFACE \in Interface -> {RDT_IFACE} \cap
                                  (IF requested = "AUTO" THEN Interface ELSE {requested})
    [] OTHER -> {}

\* The interfaces a request can lead to, none when it is refused; "AUTO"
\* depends on what the platform offers.  RDT_IFACE restricts the choice.
discover_interface(requested, RDT_IFACE) ==
  CASE RDT_IFACE = "unset" -> IF requested = "AUTO" THEN Interface ELSE {requested}
    [] RDT_IFACE \in Interface -> {RDT_IFACE} \cap
                                  (IF requested = "AUTO" THEN Interface ELSE {requested})
    [] OTHER -> {}

SelectInterface(t) ==
  \E requested \in Interface \cup {"AUTO"}, RDT_IFACE \in Interface \cup {"unset", "invalid"} :
    LET found == discover_interface(requested, RDT_IFACE) IN
      \/ /\ found = {}
         /\ Fail(t, "interface", iface[t])
      \/ \E i \in found :
           /\ Goto(t, "interface", "cpuinfo")
           /\ iface' = [iface EXCEPT ![t] = i]
           /\ UNCHANGED <<library, lock, op, ret>>

\* Stages of which a failure ends pqos_init(), and below those it carries on
\* without.  Allocation fails on the OS interface only, where
\* PQOS_RETVAL_BUSY is fatal; one of allocation and monitoring must succeed.
Fatal(i, s) ==
  \/ s \in {"log", "cpuinfo", "machine", "os_cap", "cap", "cores_domains",
            "mrrm", "iordt", "channels_domains"}
  \/ s = "erdt" /\ i = "MMIO"
  \/ s = "alloc" /\ i = "OS"
  \/ s = "mon" /\ "alloc" \notin local

Optional(i, s) ==
  \/ s \in {"erdt", "iordt"} /\ i # "MMIO"
  \/ s = "alloc" /\ i = "OS"
  \/ s = "mon" /\ "alloc" \in local

\* cpuinfo_init() and machine_init() refuse to run twice.
StageOk(t, s) ==
  /\ s \in {"cpuinfo", "machine"} => s \notin up
  /\ Goto(t, s, NextStage(iface[t], s))
  /\ up' = up \cup ({s} \cap Parts)
  /\ local' = local \cup ({s} \cap Parts)
  /\ UNCHANGED <<m_init_done, m_sysconf, m_interface, mode, lock, op, iface, ret>>

StageFails(t, s) ==
  /\ Fatal(iface[t], s)
  /\ Fail(t, s, iface[t])

StageSkipped(t, s) ==
  /\ Optional(iface[t], s)
  /\ Goto(t, s, IF s = "erdt" THEN "alloc" ELSE NextStage(iface[t], s))
  /\ \E own \in SUBSET ({s} \cap SelfCleaning) : up' = up \ own
  /\ UNCHANGED <<m_init_done, m_sysconf, m_interface, local, mode, lock, op, iface, ret>>

\* _pqos_utils_init(), api_init() and _pqos_set_inter() cannot fail for an
\* interface discover_interface() returned.
api_init(t) ==
  /\ Goto(t, "api", "erdt")
  /\ m_interface' = iface[t]
  /\ UNCHANGED <<m_init_done, m_sysconf, up, local, mode, lock, op, iface, ret>>

\* mmio_set_mbm_mba_mode() after k domains: it stops at the first failure.
mmio_set_mbm_mba_mode(value, k) ==
  [d \in 1 .. NumDomain |-> IF d <= k THEN value ELSE mode[d]]
Reached == IF "mode" \in Faults THEN 0 .. NumDomain ELSE {NumDomain}

\* The error path is taken with ret still PQOS_RETVAL_OK, which skips the
\* allocation, the monitoring and every later stage.
SetMode(t) ==
  \E k \in Reached :
    /\ Goto(t, "mode", IF k = NumDomain THEN "alloc" ELSE "publish")
    /\ mode' = mmio_set_mbm_mba_mode(IF iface[t] = "MMIO" THEN "region" ELSE "total", k)
    /\ UNCHANGED <<m_init_done, m_sysconf, m_interface, up, local, lock, op, iface, ret>>

Publish(t) ==
  /\ Goto(t, "publish", "release")
  /\ m_init_done' = TRUE
  /\ m_sysconf' = local \cap Pointers
  /\ local' = {}
  /\ UNCHANGED <<m_interface, up, mode, lock, op, iface, ret>>

-----------------------------------------------------------------------------
(***************************************************************************)
(* API calls                                                               *)
(***************************************************************************)
CallApi(t) ==
  /\ Goto(t, "idle", "get")
  /\ op' = [op EXCEPT ![t] = "api"]
  /\ UNCHANGED <<library, lock, iface, ret>>

\* Mutant: the call reads m_init_done before it takes the lock.
M_ApiCheck(t) ==
  /\ op[t] = "api"
  /\ at[t] = "check"
  /\ at' = [at EXCEPT ![t] = "body"]
  /\ UNCHANGED <<library, lock, op, iface, ret>>

ApiCheck(t) ==
  /\ op[t] = "api"
  /\ Goto(t, "check", IF m_init_done THEN "body" ELSE "release")
  /\ ret' = [ret EXCEPT ![t] = IF m_init_done THEN @ ELSE "INIT"]
  /\ UNCHANGED <<library, lock, op, iface>>

\* The function in the api table runs; what it does is in other modules.
ApiBody(t) ==
  /\ op[t] = "api"
  /\ Goto(t, "body", "release")
  /\ ret' \in {ret, [ret EXCEPT ![t] = "ERROR"]}
  /\ UNCHANGED <<library, lock, op, iface>>

-----------------------------------------------------------------------------
(***************************************************************************)
(* pqos_fini()                                                             *)
(***************************************************************************)

\* One pqos_fini() for each pqos_init() that succeeded; other threads may be
\* inside the library.  _pqos_get_inter() is read before lock_get().
CallFini(t) ==
  /\ "fini_off" \notin Faults =>
       m_init_done /\ \A u \in Thread : op[u] \in {"none", "api"}
  /\ Goto(t, "idle", "get")
  /\ op' = [op EXCEPT ![t] = "fini"]
  /\ iface' = [iface EXCEPT ![t] = m_interface]
  /\ UNCHANGED <<library, lock, ret>>

\* m_sysconf.erdt points to data that is there.
ErdtLive == "erdt" \in m_sysconf \cap up

\* The mode is set before _pqos_check_init(); reading the ERDT data through
\* a pointer that is NULL or freed may set anything.
FiniCheck(t) ==
  /\ op[t] = "fini"
  /\ Goto(t, "check", IF m_init_done THEN "body" ELSE "release")
  /\ ret' = [ret EXCEPT ![t] = IF m_init_done THEN @ ELSE "INIT"]
  /\ mode' \in IF iface[t] # "MMIO" THEN {mode}
               ELSE IF ErdtLive
                    THEN {mmio_set_mbm_mba_mode("total", k) : k \in Reached}
                    ELSE [1 .. NumDomain -> Mode]
  /\ UNCHANGED <<m_init_done, m_sysconf, m_interface, up, local, lock, op, iface>>

\* The parts pqos_fini() finalises.
Finalised(i) ==
  {"mon", "alloc", "iordt", "erdt", "cpuinfo", "machine", "log", "cap"} \cup
  IF i = "MMIO" THEN {"cores_domains", "channels_domains", "mrrm"} ELSE {}

\* iordt_fini() may fail, which only changes the value returned.  The
\* pointers to the ERDT, MRRM and channel data are not set to NULL.
FiniBody(t) ==
  /\ op[t] = "fini"
  /\ Goto(t, "body", "release")
  /\ up' = up \ Finalised(iface[t])
  /\ m_sysconf' = m_sysconf \ {"cap", "cpuinfo", "iordt", "cores_domains"}
  /\ m_init_done' = FALSE
  /\ ret' \in {ret, [ret EXCEPT ![t] = "ERROR"]}
  /\ UNCHANGED <<m_interface, local, mode, lock, op, iface>>

-----------------------------------------------------------------------------
Step(t) ==
  \/ lock_get(t) \/ Take(t) \/ lock_release(t) \/ lock_fini(t)
  \/ InitCheck(t) \/ SelectInterface(t) \/ api_init(t) \/ SetMode(t) \/ Publish(t)
  \/ \E s \in Stages \ {"interface", "api", "mode", "publish"} :
       StageOk(t, s) \/ StageFails(t, s) \/ StageSkipped(t, s)
  \/ ApiCheck(t) \/ ApiBody(t)
  \/ FiniCheck(t) \/ FiniBody(t)

Call(t) == CallInit(t) \/ InitRefused(t) \/ CallApi(t) \/ CallFini(t)

Next == \E t \in Thread : Call(t) \/ Step(t)

Spec == Init /\ [][Next]_vars

\* A thread inside a call keeps running.  Nothing is assumed of the order in
\* which the mutex serves its waiters, and nothing obliges a thread to call.
FairSpec == Spec /\ \A t \in Thread : WF_vars(Step(t))

-----------------------------------------------------------------------------
(***************************************************************************)
(* Properties                                                              *)
(***************************************************************************)

\* The thread works on the library's state: it passed _pqos_check_init().
Working(t) == at[t] \in Stages \cup {"body"}

\* API calls, pqos_init() and pqos_fini() never work on the library's state
\* at the same time (lock_get()/lock_release() around every one of them),
\* whatever pqos_fini() and a failing pqos_init() do to the mutex.
Exclusion == \A t, u \in Thread : Working(t) /\ Working(u) => t = u

\* The body of an API call finds everything it dereferences: each pointer in
\* m_sysconf is to live data, and the parts every interface needs are up.
NothingDangles ==
  \A t \in Thread : op[t] = "api" /\ at[t] = "body" =>
    /\ m_init_done
    /\ m_sysconf \subseteq up
    /\ {"log", "cpuinfo", "machine", "cap"} \subseteq up \cap (m_sysconf \cup {"log", "machine"})
    /\ m_interface = "MMIO" => {"erdt", "mrrm", "cores_domains", "iordt"} \subseteq m_sysconf

\* No part is initialised twice or finalised twice: cpuinfo_init() returns
\* -EPERM and machine_init() asserts when their data is still there, after
\* whatever sequence of failed and successful calls.
NothingTwice ==
  \A t \in Thread :
    /\ at[t] \in {"cpuinfo", "machine"} => at[t] \notin up
    /\ op[t] = "fini" /\ at[t] = "body" =>
         /\ {"log", "cpuinfo", "machine", "cap"} \subseteq up
         /\ iface[t] = "MMIO" => {"cores_domains", "mrrm"} \subseteq up

\* An initialised library keeps the machine-wide lock file, also after a
\* second pqos_init() of the same process was refused by lock_init().
LockFileKept == m_init_done => lockfile

\* An initialised library runs in the MBM/MBA mode its interface needs:
\* region aware for MMIO, total for MSR when there is an ERDT table, whatever
\* an earlier pqos_init() that failed left in the control registers.
ModeMatches ==
  m_init_done /\ (\A t \in Thread : op[t] # "fini") =>
    /\ m_interface = "MMIO" => \A d \in 1 .. NumDomain : mode[d] = "region"
    /\ m_interface = "MSR" /\ "erdt" \in m_sysconf =>
         \A d \in 1 .. NumDomain : mode[d] = "total"

\* pqos_fini() of an MMIO library reads the domains through a live pointer
\* (ASSERT(erdt != NULL) in mmio_set_mbm_mba_mode()).
FiniFindsErdt ==
  \A t \in Thread :
    op[t] = "fini" /\ at[t] = "check" /\ iface[t] = "MMIO" => ErdtLive

\* The API mutex is always released again, on every early return and error
\* path of every call.
LockReleased == (mutex.usable /\ mutex.taken) ~> ~(mutex.usable /\ mutex.taken)

\* Who works on the library's state, and in which call.
Worker == CHOOSE t \in Thread : Working(t)
Inside == IF \E t \in Thread : Working(t) THEN <<Worker, op[Worker]>>
                                          ELSE <<NoThread, "nothing">>
Service == INSTANCE PqosService WITH open <- m_init_done, inside <- Inside

\* The library does what PqosService promises: opened, used and closed by
\* one thread at a time, and used only while it is open (_pqos_check_init()
\* under the lock in every API call).
ServiceKept == Service!SSpec

\* What the calls of the library find is what pqos_init() left, whichever
\* stages failed before: no pointer to freed data, nothing initialised or freed
\* twice, the domains in the mode of the interface, and ERDT data where
\* pqos_fini() needs it.
DataSound == NothingDangles /\ NothingTwice /\ ModeMatches /\ FiniFindsErdt

=============================================================================
