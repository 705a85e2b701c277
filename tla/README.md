# A TLA+ verification of the PQoS library

This directory holds a TLA+ model of the Intel(R) RDT software package: the
PQoS library (`lib/`) on its three interfaces (machine registers, the resctrl
file system of the kernel, memory-mapped registers) and the `pqos` utility built
on it. The library lets applications monitor and allocate shared processor resources: it
tags cores, tasks and I/O channels with *classes of service* (CLOS) and
*resource monitoring ids* (RMID), and defines what a class may use of the L3
and L2 caches and of memory bandwidth.

Most of what can go wrong here is not in a single function. State lives in
machine registers that survive the process, in a lock file that other processes
read, in cached capabilities that must follow the registers, and in monitoring
groups that believe the registers have not moved. The modules describe that
state, one action for each operation, and the runs and proofs are about what
sequences of operations, failures and crashes do to it.

Contents: [inventory](#inventory), [modules](#modules), [runs](#runs),
[proofs](#proofs), [disagreements](#where-code-and-documentation-disagree),
[what is not modelled](#what-is-not-modelled), [plan](#plan).

## Inventory

| Component | Source | State | Operations | Interacts with |
|---|---|---|---|---|
| API lock | `lib/lock.c` | lock file with pid and start time, temporary file, descriptor `m_apilock`, mutex | `lock_init`, `lock_get`, `lock_release`, `lock_fini` | every API call; other processes through the file |
| Life cycle | `lib/cap.c`, entry points of `lib/api.c` | `m_init_done`, `m_sysconf`, `m_interface`, the static data of a dozen parts, MBM/MBA mode registers | `pqos_init`, `pqos_fini`, every call's `_pqos_check_init` | all parts, in a fixed order with undo labels |
| MSR allocation | `lib/allocation.c`, `lib/allocation_common.c`, `_pqos_cap_*_change` of `lib/cap.c`, discovery in `lib/hw_cap.c` | `PQR_ASSOC` class of each core, class registers of L3, L2, MBA, SMBA, feature bits (L3 CDP, I/O RDT, L2 CDP, MBA 4.0), channel classes; cached capabilities | associate, assign, release, set, probe, reset | capabilities; I/O RDT tables |
| MSR monitoring | `lib/hw_monitoring.c`, `lib/common_monitoring.c`, `lib/iordt.c` | RMID of each core and channel, IA32 counters, I/O monitoring and SNC bits, monitoring groups | start on cores or channels, stop, poll, reset | capabilities; groups are only known to the application |
| OS allocation | `lib/os_allocation.c`, `lib/resctrl*.c` | mount options, class directories with their cpus, tasks and schemata files, the `flock` on the root, cached capabilities | associate, assign, release, set, mount, light and full reset | kernel, other users of resctrl |
| OS monitoring | `lib/os_monitoring.c`, `lib/resctrl_monitoring.c`, `lib/perf_monitoring.c` | `mon_groups` directories, perf descriptors, stored counters | start, stop, add and remove tasks, poll | OS allocation moves tasks between the directories |
| MMIO allocation and monitoring | `lib/mmio*.c`, `lib/cores_domains.c` | region aware tables mapped from ERDT addresses | region aware MBA, I/O L3 allocation, counters | ERDT tables, mode registers |
| Discovery | `lib/hw_cap.c`, `lib/os_cap.c`, `lib/cpuinfo.c`, `lib/acpi.c`, `lib/erdt.c`, `lib/mrrm.c`, `lib/pci.c`, `lib/iordt.c` | tables built once | init, fini | stages of `pqos_init` |
| `pqos` utility | `pqos/*.c` | option tables, group table, signal flag | parse, reset, set, associate, monitoring loop | the library's API |
| `membw`, examples, tests | `tools/`, `examples/`, `tests/`, `unit-test/` | - | - | the API |

`PROJECT.json` lists every part with its status.

What is hard, and the properties that make each part correct:

* **API lock.** Two processes inside `lock_init` interleave at each system
  call; a process may die anywhere and leave files behind. At most one owner;
  the file names the owner; what the dead left is got past.
* **Life cycle.** Any of a dozen stages may fail and its undo code must leave a
  state from which the next `pqos_init` works; `pqos_fini` destroys a mutex
  other threads wait for. One thread works on the library at a time, no call
  sees freed data, nothing is initialised or freed twice, the mutex is released
  on every path.
* **MSR allocation.** Class counts differ between technologies and halve under
  CDP; a reset is a dozen register loops, each of which may fail or be cut off
  by a crash; cached capabilities decide what the next reset does. An assigned
  class is exclusive, a reset that returns OK has restored everything, what the
  library believes of the features is what the registers say.
* **MSR monitoring.** No table says which RMIDs are used, only the registers
  do. Two groups never share an RMID in a cluster, a group's cores carry the
  RMID it polls, nothing stays tagged for no one.
* **OS allocation.** Files shared with other users are read, changed and written
  back; a lock with a timeout guards them; switching a feature is an unmount and
  a mount. What a call was asked to change is changed and nothing else, also by
  a concurrent writer's account; capabilities follow the mount; every call
  returns.
* **OS monitoring.** Several applications share directory names; threads end and
  cores change class at any time. Groups that share a name never share a cache,
  no call touches another group's cores, a stop leaves nothing, descriptors and
  directories are lost only when an error was reported.
* **Counters.** Different widths, wrap-around, an event selector and a data
  register that are not accessed atomically, polls that fail half way. A delta is
  what was counted between two readings, and a value that is not of this poll
  says so.
* **MMIO interface.** Registers are found by arithmetic over clumps, strides and
  pages and reached through mappings that may fail. What is written, reported
  and shown is what was asked; RMIDs are exclusive in their domain.
* **The utility.** Options in any order choose an interface and fill tables that
  are applied call by call, any of which may fail; a loop with a timer and a
  signal handler. Classes come before associations, the last word wins, nothing
  is left running, the exit code is honest, and Ctrl-C or a timeout ends it.

The list `hazards` of `PROJECT.json` gives the line where each of these bites
and the property that covers it.

## Modules

| Module | Models | Step |
|---|---|---|
| `ApiLock` | `lock_init`/`lock_fini` of several processes on one lock file | system call by system call |
| `PqosLifecycle` | `pqos_init`, API calls and `pqos_fini` of several threads of one process | stage by stage |
| `PqosService` | abstract: what an application may rely on of the three kinds of call | - |
| `HwAlloc` | allocation on the MSR interface | one action for each call; a reset is one for each of its loops |
| `HwMon` | monitoring groups on the MSR interface | one action for each call |
| `ResctrlAlloc` | allocation on the OS interface, beside another user of resctrl | file access by file access |
| `OsMon` | monitoring groups on the OS interface (resctrl and perf) of several applications | one action for each call |
| `MonPoll` | the values of a group on every interface: start, poll, read, stop | event by event |
| `MmioRegs` | addresses of memory-mapped registers and what dumps show of them | operators |
| `MmioAlloc` | allocation and dumps on the MMIO interface | one action for each call, register accesses in order |
| `MmioMon` | monitoring groups on the MMIO interface; EXTENDS `HwMon` | one action for each call |
| `ToolParse` | lists of numbers on the command line of `pqos` | operators |
| `ToolAlloc` | its allocation tables and `alloc_apply` | operators on a world `w` |
| `ToolMonitor` | its group table, events, choice of processes, start and stop | operators on `w` |
| `SafeOpen` | opening a file by name, in the utility | system call by system call |
| `PqosTool` | the utility from its command line to its exit; EXTENDS the four | phase by phase of `main` |
| `MC...` | instances for TLC | |
| `PqosLifecycleProofs`, `HwAllocProofs`, `HwMonProofs`, `MmioAllocProofs`, `ResctrlAllocProofs`, `OsMonProofs`, `MonPollProofs`, `PqosToolProofs` | theorems about the module of that name, which they extend; `HwMonProofs` is about `MmioMon` too, which extends `HwMon`, and the last section of `MonPollProofs` about `ApiLock` | |

A definition `M_Xyz` is a mutated form of the definition `Xyz` that follows it,
a bug the code could have had. It is used only to show that a property notices.
A constant `Faults` names the circumstances a run admits; each circumstance is
described where `FaultKinds` is defined (`Circumstances` in `ApiLock`), and everything outside a run's `Faults`
is excluded from that run and from no other.

How they fit: every call passes through `PqosLifecycle` (mutex, initialised or
not), which is why the modules of the three interfaces take one call at a time.
`ApiLock` is the lock between processes under it. `HwMon`, `OsMon` and `MmioMon`
say which counters a group has, `MonPoll` what is read from them. `PqosTool`
makes calls of the library, whose effect is reduced to what the utility can see
(`w.lib`).

### ApiLock

`lockfile` is the file's existence and content, `tmpfile` the file of
`check_lockdir_access`, `pc` the place of each process, `seen` the locals of
`lock_init` and the buffer of the stream, `stream` whether `write_lockfile`
writes to the linked file or to an inode somebody unlinked, `m_apilock` the
descriptor, `m_init_done` whether the process is between a `pqos_init` that
succeeded and its `pqos_fini`, `leaked` (history) whether `m_apilock` was
overwritten while it was open, `field` what `get_process_start_time` reads. Each
system call on a shared file is an action: `ProbeOpen`, `ProbeUnlink`, `CreateLock`,
`read_lockfile`, `CheckStale`, `UnlinkStale`, `RecreateLock`, `WriteOpen`,
`WriteClose`, then `InitDone` or `UndoInit`. `Die` may happen at any of them.
Field 22 of `/proc/<pid>/stat` is the start time; the code counts to field 23,
which is the size of the address space, so `FieldChanges` can change it under
the fault `unstable_field`. `lock_init` does not ask whether its process is
initialised, so under `again` an initialised process enters it once more
(`CallInit`): the open with `O_EXCL` overwrites `m_apilock` (`OpenExclusive`), and
should it create the file, because somebody deleted it, `pqos_init` refuses
the call and gives the lock back (`RejectAgain`). The variable `faults` is chosen from `Environments`
at the start and kept: one run compares disciplined processes (`Disciplined`)
with processes that meet everything `lock_init` can recover from.

### PqosLifecycle and PqosService

Each thread is in an operation `op` at a place `at`: the stages of `pqos_init`
in the order of `cap.c` (log, interface, cpuinfo, machine, capabilities, api,
ERDT, cores_domains, mode, alloc, mon, MRRM, I/O RDT), `lock_get`, the check,
the body and `lock_release` of an API call, and the same of `pqos_fini`.
`m_sysconf` is the set of pointers that are not NULL, `up` the set of parts
whose data is allocated: a pointer in the first and not in the second dangles.
Every stage can fail; `Undone` is what the labels at the end of `pqos_init`
release from there. `mode` is the control register of each domain.

`PqosService` is the promise: the library is opened, used and closed by one
thread at a time and used only while open. `PqosLifecycle` maps
`open <- m_init_done` and `inside <-` the thread that is past
`_pqos_check_init`, and `ServiceKept` is the refinement.

### HwAlloc

`assoc`, `clos`, `feat` and `chan` are registers and I/O tables, `cap` the
cached capabilities. `Dom[t][c]` is the id of the resource of technology `t`
that core `c` uses, so any topology is an instance. A class register is
`<<technology, id, index>>`; with CDP a class is two of them. Definitions of
classes are abstract members of `Def`. `phase` is the loop a running reset is
in: `alloc_reset` clears L3, L2, MBA, SMBA, cores and channels and then switches
L3 CDP, I/O RDT, L2 CDP and MBA 4.0, and each may fail or be the last thing the
process did. `call` records the last call and its result, which the properties
speak of. `NumClosReq` and `Neighbours` keep the code's peculiar mixing of class
counts and of the L2, L3 and MBA ids.

### HwMon

`assoc` and `chan` hold RMIDs, `pmu` the cores whose counters are enabled,
`io` and `snc` the mode bits of clusters and sockets, `group` the structures of
the application, `lost` (a history variable) what a dead process or a failed
call left tagged. `UsedRmids` is the search through the registers,
`FreeRmids` its bounds (the fewest RMIDs any event has, the NUMA node under
sub-NUMA clustering), `Contexts` the poll contexts. `mon_reset` is split by
where it fails. The library's calls hold the API lock, so each is one step.

### ResctrlAlloc

`mnt` are the mount options, `dirs` the class directories, `cpu` and `task` the
class of each core and thread, `sch` the schemata, `flock` the holder of the
lock, `cap` the cached capabilities, `call` the call under way with its place,
its arguments and what it has read. A call is a sequence of steps: take the lock
or time out, read a file, write it, go on to the next class or core, leave.
Between two of them `Environment` acts: the peer takes and releases the lock and
writes under it, threads start and end. `os_alloc_reset` decides between
`os_alloc_reset_light`, in its three parts, and `os_alloc_reset_full`, which
unmounts and mounts. Masks are sets of ways (contiguity is checked as the code
does), bandwidth is a number that is rounded to a step or kept in MBps. `amd`
selects the limits of that vendor, which alone has SMBA; a class number comes
from the technologies other than SMBA, as in `resctrl_alloc_get_grps_num`. A set
may name one class several times: `SetTookEffect` lets the later entry count, and
the run has a table that names class 1 twice. `InputAssumption` says which
requests are made at all.

### OsMon

`os` is what the kernel has: directories per class and name, the tag of each core
and thread, live threads, open perf descriptors. `grp` holds the groups of the
applications. Names are chosen and shared as `resctrl_mon_assign` and
`resctrl_mon_parse` do, events are distributed over perf and resctrl as
`os_mon_start_events` does, and a step that fails undoes what the code undoes.
`orphan` (history) are the names a dead process or a reported error left. Cores
come in the caller's order and threads in that of `readdir()`, neither of which
means anything: both are sets, and a loop over them that stops half way may have
done any part of them. Threads end between calls, before a call has come to them,
and, while a stop or a removal gives tasks back, between the check that one
exists and the write (`Interrupts`): the stop reports an error then, with the
tasks of any subset given back, and keeps the directory. The functions of the
library are operators that take the operating system as a record and return it with a code.

### MonPoll

`cnt` is what each unit counts, `grp` the values, deltas and validity flags of
the group, `todo` the events a running poll has still to read. Counting
(`Traffic`) goes on between them. `mon_start` takes the baseline. It zeroes,
programs and enables the programmable counters only: the fixed counters of IPC
hold what they held (`Held`) and count if another agent has enabled them
(`Found`), until the start of a programmable counter disables them on its core.
What a fixed counter held counts in the first delta (`Unread`). The several
`poll` operators follow the code of each source: `hw_mon_read` with its attempts
(`Try`: another agent selects, the counter is unavailable, the error bit is set),
wrap-around at `Modulus`, stored counts of purged directories, two samples of
telemetry, overflow of memory-mapped counters. A group (`Setup`) has the events
that the start functions can give to each source: `HwEvents`, `PerfEvents` and
`ResctrlEvents`, the earlier source first. What a purge of several directories
saves and removes is said in closed form (`keep`, `remove`): a fault meets the
directory of the lowest class, and an error there ends the loop. `since` and `exact` are history: the true count between
two stored readings. `spoilt` names why a reading cannot be relied upon; what it
excludes is listed under the disagreements.

### MmioRegs, MmioAlloc and MmioMon

`MmioRegs` computes addresses as `mmio.c` does, from the clump size, stride,
region and page of an agent, and the sequence of bytes or RMIDs a dump shows.
The loops of a dump are written in closed form: what the iterations show, one
after the other, up to the first that ends in an error (`UntilError`).
`MmioAlloc` keeps the lanes of the bandwidth registers (`mba`), every page of
the cache masks (`cbm`) and the region aware bit (`tme`). A call checks its
arguments in the code's order; what is left is a sequence of register accesses,
cut off where a mapping fails. An access is named by where the loops of the call
stand when it is made (request, write or read, position in the request's list of
regions, limit) and `Earlier` orders the names as the loops run, so that what a
register holds after a call is said in closed form: what the last write to it
among those that were done wrote (`Latest`), or what it held. `MmioMon` replaces in `HwMon` the search for RMIDs:
by ERDT domain, for cores and devices apart, so that exclusion
(`DomainRmidExclusive`) is stated for each of the two kinds.

### PqosTool and its parts

`PqosTool` walks `main`: options in order with the configuration file in its
place, the interface, the library, reset, print, allocation, monitoring, exit.
`pc` is the phase, `w` the world: selections `sel`, effect on the library `lib`,
number of calls made; one call of a run, `w.fail`, fails. The loop polls, waits
for the timer and looks at the timeout; `monitoring_ctrlc` may set `stop` at any
time. A file is opened with the steps of `SafeOpen`, the configuration file for
reading only, so that it is never created; meanwhile
`OthersSwitch` changes what the name denotes. Numbers typed by the user are taken
as read, lists and ranges are parsed.

## Runs

`PROJECT.json` names the configuration of each. All finish within three minutes.

| Run | Instance | Shows |
|---|---|---|
| `lock` | 2 processes, 4 starts, in three environments: disciplined with a second `pqos_init` by an initialised process; all other circumstances but a crash in the probe; a second `pqos_init` when its own file may be gone, empty or taken over | disciplined processes exclude each other and the file names the owner; always: an open descriptor belongs to a process with a lock file of its own or to an initialised one (to the former only, and never lost, without a second `pqos_init`), exclusive probe, and (liveness) a lone `lock_init` gets past what the dead left |
| `life_calls` | 3 threads, all interfaces, every stage failing | exclusion, no dangling pointer, nothing twice, right mode, the mutex is released (liveness), refinement of `PqosService` |
| `hw_platform` | 2 cores on one L3 and two L2, 4 classes of L2 and 2 of L3, CDP, I/O RDT, one channel, death anywhere in a reset | an assigned class is exclusive, cached features are those of the hardware, every core's class exists |
| `hw_reset` | L2 with CDP, MBA 4.0, SMBA, all tables of one class, failures anywhere | OK means restored; set and get agree; the probe is harmless |
| `hw_mon` | 3 cores in 2 clusters, 2 NUMA nodes, 2 channels, 2 groups, 4 RMIDs, failing registers and tables, crashes | groups never share an RMID and follow their cores, nothing is stray, every RMID is usable |
| `resctrl_alloc` | 2 cores, 2 threads, 4 technologies, 3 classes (2 with CDP), 2 calls, a peer, all faults | lock released, assigned classes alone, set and reset took effect, capabilities follow the mount, nothing else changes, every call returns (liveness) |
| `os_mon` | 3 cores on 2 caches, a process of 2 threads, 2 applications, 2 RMIDs, 4 calls, all faults | a stop cleans, a poll restores, names are shared between caches only, others are untouched, descriptors are owned |
| `mon_poll` | groups of 12 kinds on 2 units, counters modulo 4, performance counters modulo 2, fixed ones that hold 0 or 1 and run or not, 2 units of work, 3 polls, 1 fault | deltas are exact, values are fresh or flagged, power rests on two samples, programmable and uncore counters run |
| `mon_regions` | memory regions 1 and 3 | violated: the value of region 1 is asked, that of region 3 is given |
| `mmio_alloc` | 4 CPU and 3 device domains with and without tables, 3 calls, any mapping failing | limits and masks are what was asked, what is reported is set, pages agree, a reset restores, dumps show what was asked |
| `mmio_mon` | 4 cores in 2 domains, 3 channels (one not in ERDT), 2 groups, crashes, failing registers and mappings | RMIDs are exclusive in a domain, a group counts itself only, nothing stays tagged without a reason |
| `tool` | some 490 command lines of up to 4 options, 4 platforms, one library call failing, one overflow, a file name that changes once | order and effect of allocation, exit code, interface, groups stopped, events, processes chosen, files opened, and (liveness) the loop ends |

Several of the invariants a run checks are conjunctions of named parts, each
with its own comment in the module:

| Property | Parts |
|---|---|
| `ApiLock!FilesOwned` | `DescriptorOwned`, `ProbeExclusive` |
| `PqosLifecycle!DataSound` | `NothingDangles`, `NothingTwice`, `ModeMatches`, `FiniFindsErdt` |
| `HwMon!GroupSound` | `GroupFollowed`, `RmidUsable` |
| `ResctrlAlloc!Consistent` | `TypeOK`, `LockReleased`, `CapMatchesMount`, `GroupsReady` |
| `ResctrlAlloc!OkMeansDone` | `AssignedAlone`, `SetTookEffect`, `ResetRestores` |
| `OsMon!NothingLeft` | `StopCleans`, `LeftOnlyOnError`, `DescriptorsOwned` |
| `OsMon!CountedApart` | `TypeOK`, `PollRestores`, `CachesApart` |
| `MonPoll!ValuesSound` | `PollTypeOK`, `FreshOrFlagged`, `PowerExact`, `CountersRun` |
| `MmioAlloc!RegistersSound` | `TypeOK`, `ReportedIsSet`, `PagesAgree`, `ResetRestores` |
| `MmioAlloc!SetsExact` | `BandwidthStep`, `CacheStep` |
| `MmioAlloc!DumpsExact` | `DumpExact`, `CountersApart` |
| `MmioMon!CountsItself` | `MmioTypeOK`, `DomainRmidExclusive`, `CountedExactly`, `RmidInDomain` |
| `PqosTool!AsAsked` | `AssocAsAsked`, `ClassesFirst`, `OnlyNamed`, `GroupsDisjoint`, `DisabledStay`, `TopRight` |
| `PqosTool!EndsClean` | `TypeOK`, `ExitHonest`, `InterfaceFits`, `GroupsStopped` |
| `PqosTool!FilesByName` | `OpenedByName`, `LinkNotFollowed` |

**Bounds.** Two processes suffice for every race on the lock file, since it has
one name and one content; `MaxStart` bounds process starts so that pids are
reused. Three threads are needed for two to wait for the mutex that a third
destroys. Two cores with one L3 and an L2 each are the least that share one
technology and not the other, and classes only L2 has make the counts differ;
the proof covers every topology. Two classes are the least that CDP can halve.
Four RMIDs give each NUMA node one besides the reserved ones, and `local`
bandwidth one less than occupancy: the search succeeds, meets a foreign RMID,
and runs out. Two groups can be two of cores, two of channels or one of each.
Boot values of the channel tables are RMID 1, the one the search would choose
first. On resctrl two calls are enough for one to set what the next resets,
releases or finds in use; a call itself is up to twenty steps that the peer
enters anywhere. Four calls on `OsMon` start two groups, change a class or a
list of threads, and stop one; with two RMIDs the second group may have to
share; every group has an event of resctrl and one of perf, so that both are
taken and given back in one call. Counters modulo 4 that start with 0 or 3, and
performance counters modulo 2, wrap within the traffic of one run; IPC is
started with and without a programmable counter; `Wide` is larger than any sum,
so that only real wrap-around is seen. In `mmio_alloc` RMIDs 7-9, 14-17, 31-33
and 40 lie around the ends of a clump, a group of eight and a page. Command
lines take every option alone, every pair of allocation options, of monitoring
options and of the other options that go with them, and triples where a third
option matters. `CHECK_DEADLOCK FALSE` is used where behaviours stop at a bound:
`lock` (starts), `os_mon` (calls), `mon_poll` and `mon_regions` (polls).

**Fairness.** `ApiLock!FairSpec` assumes weak fairness of `Step(p)`: a process
inside `lock_init` is scheduled until it returns or dies; none of its system
calls blocks (they open, read, write and unlink ordinary files). `PqosLifecycle!FairSpec`
assumes weak fairness of `Step(t)`: a thread inside a call runs on; waiting for
the mutex is a step that is not enabled until it is free. `ResctrlAlloc!FairSpec`
assumes weak fairness of `Library`, the steps of the one call under way: `flock`
is granted or interrupted by the alarm, all else is file access. Nothing is
assumed of the peer, which may keep the lock for ever. `PqosTool!Spec` assumes
weak fairness of `LoopStep`, the steps from the first poll to the exit: the
timer expires, and reading it returns. Nothing is assumed of calls being made,
of deaths, of which waiter gets the mutex, or of users pressing keys.

**Mutants.** For each property of each passing run `PROJECT.json` names a mutant
that breaks it, for example a search that forgets the channels
(`M_UsedRmids`), an undo label that forgets a part (`M_Undone`), a reset that
does not double the halved class count (`M_MaxClos`), a search that overlooks
the RMIDs of other channels (`M_FreeForDomain`), a wait for a lock without its
timeout (`M_TimesOut`).

## Proofs

TLAPS proves the following for every value of the constants, from the named
`ASSUME`s of the modules. Every invariant was checked with TLC on an instance
before it was proved.

| Theorem | Property | Hypothesis |
|---|---|---|
| `MonPollProofs!TypeCorrect`, `FilesAreOwned` | `TypeOK`, `FilesOwned` | none |
| `MonPollProofs!SerialMutualExclusion`, `SerialOwnerOnFile` | `MutualExclusion`, `OwnerOnFile` | `Disciplined`, inside the properties |
| `PqosLifecycleProofs!TypeCorrect` | `TypeOK` | none |
| `PqosLifecycleProofs!OneThreadWorks`, `LockFileStays`, `LibraryIsService` | `Exclusion`, `LockFileKept`, `ServiceKept` | `Disciplined` |
| `PqosLifecycleProofs!LibraryDataSound` | `DataSound` | `Disciplined`, no fault `mode` |
| `HwAllocProofs!TypeCorrect`, `AssignIsExclusive`, `ProbingIsHarmless`, `SetAndGetAgree` | `TypeOK`, `AssignExclusive`, `ProbeIsHarmless`, `SetIsWhatGetReturns` | none |
| `HwAllocProofs!ResetDoesRestore` | `ResetRestores` | no fault `mem` |
| `HwAllocProofs!CapIsTrue` | `CapMatchesHw` | no fault `msr` |
| `HwAllocProofs!CoresHaveClasses` | `ClassesExist` | no fault `msr`, `Tech # {}` |
| `HwMonProofs!TypeCorrect` | `TypeOK` | none |
| `HwMonProofs!GroupsCountApart`, `GroupsAreSound`, `NothingIsLeftOver` | `RmidExclusive`, `GroupSound`, `NothingStray` | no fault `live` |
| `HwMonProofs!MmioGroupsCountThemselves`, `MmioNothingIsLeftTagged` | `CountsItself`, `NothingLeftTagged` | no fault `live` |
| `ResctrlAllocProofs!LibraryAndFilesAgree`, `OthersKeepTheirs`, `OkIsTrue` | `Consistent`, `OnlyAsked`, `OkMeansDone` | none |
| `OsMonProofs!AllIsGivenBack`, `OthersAreUntouched` | `NothingLeft`, `OthersUntouched` | none |
| `OsMonProofs!GroupsCountedApart` | `CountedApart` | `SmallIds` |
| `MmioAllocProofs!RegistersAreSound`, `SetsAreExact`, `DumpsAreExact` | `RegistersSound`, `SetsExact`, `DumpsExact` | none |
| `MonPollProofs!ValuesAreSound`, `DeltasAreExact` | `ValuesSound`, `DeltaExact` | none |
| `PqosToolProofs!FilesOpenedByName`, `UtilityEndsClean` | `FilesByName`, `EndsClean` | none |

Each hypothesis excludes a behaviour that the code has and that breaks the
property; they are among the disagreements below, and the runs make the same
exclusion. `live` is a `pqos_mon_reset` under running groups, which it does not
forget. `mode` is a mode register that cannot be written, after which `pqos_init`
ends on its error path with OK. `mem` is a missing list of ids, with which a
reset says OK half way. `msr` is a register access that fails: a write that fails
on the second cache leaves CDP switched in the first. `SmallIds` says that L3 ids
are below 32, the width of the word `resctrl_mon_assign` keeps them in. `Disciplined`
is, for `ApiLock`, that `lock_init` calls do not overlap and that the start time
of a process is stable, and for `PqosLifecycle` that `pqos_fini` is called once
for each `pqos_init` that succeeded and that `lock_init` does not take the lock
file of its own living process for stale (the start time again). `Tech # {}` excludes a machine
that has nothing to allocate, where there are no classes to speak of.

The arguments, module by module:

* **ApiLock.** Mutual exclusion is not inductive: a rival may already have
  judged the file stale. `IInv` adds that at most one process is in `lock_init`,
  that nobody who created a file has a rival past the check, that the file (or
  the buffer about to be flushed) has the creator's name, and that whoever is
  about to judge the file has read the owner's. An initialised process that
  enters `lock_init` again finds the file with its own name, alive, and is
  refused, so exclusion survives it. `FilesOwned` needs no discipline: that the
  descriptor is open follows from the place of the process, and who may have one
  open elsewhere from `m_init_done`.
* **PqosLifecycle.** The crux of the invariant `Control` is that when the mutex
  is destroyed the library is already closed and everyone still about is an API
  call that will find it so (`DestroyedMeansClosed`). `Simulation` maps each step
  to a step of the service or a stutter. For the data, `Data` says of each stage
  of `pqos_init` which parts it finds up (`Gathers`, by the order of the stages,
  and `CoreParts`), that an open library has all its interface needs
  (`OpenSound`), that none is left by an attempt that gave up
  (`NothingGathered`), and that `pqos_fini` finds what it frees (`FiniKnows`).
* **HwAlloc.** `AssignIsExclusive` rests on `SearchIsComplete` (each core that
  shares a requested resource is among the ones the search reads);
  `ResetDoesRestore` on `ResetProgress`, what a reset has already done in each
  of its loops, and on `SlotBound`, that doubling reaches the last register.
  `CapIsTrue` needs `CapAgrees`, which says of each feature which registers a
  reset that is under way has switched and that the cached flag is the old one
  until it is done; `CoresHaveClasses` needs in addition that every core has been
  moved to class 0 before a feature is switched (`SwitchedUnused`).
* **HwMon.** The three properties support each other. A search for an RMID
  reads registers and not groups, so exclusion needs that a running group's
  cores and channels carry its RMIDs (`GroupInv`: `Followed`, `Carried`); that a
  stop does not untag another's cores needs exclusion; and what is tagged or
  counted without a group is in `lost` (`StrayInv`), which every failing call
  must have extended.
* **MmioMon** shares the registers, stop and reset of `HwMon` and the lemmas about
  them. The search is by domain, and `MmioInv` relates the RMID of a group to the
  domains of all cores and channels it watches.
* **ResctrlAlloc.** The other user acts between any two steps, so the invariant
  speaks about each place of a call: what it has read still holds because the
  lock is held (`Reading`), or what is read without the lock is not relied upon.
  `Base` keeps mount, directories and capabilities together; `Assigning`,
  `Setting` and `Resetting` say how much of a call's table or classes are done
  (`Written`, `TableLeft`, `InFile`).
* **OsMon.** `Owned` says that who serves which event of a group follows from
  the events, that a directory or tag belongs to a group with its name or to
  `orphan`, that names were taken once, and that descriptors are those of
  groups. Each library function has a lemma that says what it leaves
  (`StopEventsIs`, `StartEventsIs`, `AssignIs`, `AssocRestoreIs`, `PurgeIs`); what
  a stop that a thread's end cuts short leaves is not promised but in `orphan`.
  `Undone` is what a failed start must leave and `Counted` what a successful one
  must. The last call's promises (`LastOK`) follow from these in each step.
* **MmioAlloc.** `RegistersSound` is inductive as it stands; the difficulty is
  in a single step, which stands for a sequence of accesses of any length. The
  names of accesses are tuples of numbers below a bound, and `LatestExists` shows that
  a set of such names that is not empty has a latest one: an induction over the
  length of the tuples, done by hand with the least element of a set of numbers.
  From it follows what a lane (`LaneIs`) and a mask (`MaskIs`) hold after any part
  of a call, hence that a set gives the last value asked for and that a read
  in the same call returns what the writes before it left (`ReadTells`). That
  pages agree needs that a page belongs to one class only (`PageIs`), which is
  why `InputsAssumption` bounds the class of an element of `pqos_l3ca_set`: the
  code does not look at it, and a class 512 above another would be written to
  the second page of that one. The assumption also gives the arguments of the
  callers their types in `pqos.h` and says that the registers of all classes fit
  on a page.
* **MmioAlloc, dumps.** The invariant is `DumpsTold`: what was shown last is what
  the dump functions give for what the user typed, or lines of counters that the
  type asked for has. From it `DumpExactHolds` and `CountersApartHolds` draw the
  property. A dump is sequences put in a row; `FlattenHolds` says what is in it
  and `FlattenUniform` where, when all of them but the last have the same length, hence
  each byte of a line (`HexBytes`). `strlisttotab` goes through a list with a
  table in hand; `StrlistExact` shows that the table has the numbers of the
  list, each once, or the parser has given up (by induction with the least
  number at which that could fail, `AllNumbers`). Two sockets name different domains
  because agents are dealt to sockets by position (`SocketsApart`), so a
  request names each domain once (`Request`). Counters are apart because their
  addresses are quotients and remainders of the RMID (`MbmPlaced`,
  `ClumpsApart`), which `Apart` tells one from the other. `AgentsAssumption` gives
  the tables of the firmware their types and says that a domain has one agent in
  each table, that clumps do not overlap, and that a list of correction factors
  is empty, has one for all RMIDs, or one for each.
* **MonPoll.** A delta is right when the value kept at the last reading and what
  has been counted since (`since`) make up what the units hold now; `Balance`
  says so for each source: modulo the length of a counter (`Cyclic`), with the
  counts saved from purged directories, scaled for memory-mapped counters. It
  is not inductive alone. A reading without an earlier one must give zero, so
  `Flags` relates the validity flag of each source (`Unbased`) to what the
  caller was told (`gap`); a wrapped counter is recognised only if less than a
  full turn was counted (`Narrow`); nothing overflows 64 bits because sums are
  bounded by the work done and what the fixed counters held before (`Bounded`,
  `OldContent`, with `WidthAssumption`); a directory that
  no longer belongs to the group has counted nothing (`Dirs`); and a running
  poll has read what it left behind, or marked it (`Processed`). A sum over
  units is a fold: `SumIs` shows by the least counterexample that it satisfies
  the equation of a sum, and `SumAdd`, `SumMono`, `SumUpdate` follow in the same
  way. An outcome of a reading is judged by one predicate, `Reading`, from which
  `EventInv` draws the step; `LocalReading` and `PurgeReading` reduce it to what
  each of the nine readers must show about its own event.
* **PqosTool, files.** `FilesInv` follows the steps of `safe_fopen` and `safe_open`:
  what was recorded at the first look at the name is compared with what is
  open (`Recorded`, `Looked`, `LookedAgain`), and a file that differs is closed
  (`Closed`).
* **PqosTool, the end.** `ToolInv` says for each phase of `main` what the world
  is like (`WorldInv`): `Chosen` while options are read, `Settled` once the
  interface is fixed, `Opened` while the library is open and nothing runs,
  `Watching` in the loop, `Over` after it. That no call goes to an interface
  without such a function is decided long before it is made: an option narrows
  the interfaces that are still possible or is refused, so what is selected
  suits each of them (`Suits`, `SelSound`), and the one that is chosen in the
  end is one of them. That each group is stopped once needs that what runs is
  marked as started (`StartedGroups`) and that nothing was stopped before the
  loop was left, also when a start fails half way. The exit code is part of
  `WorldInv`: a phase in which a call failed leaves it at failure. The tables are worked through by loops that
  the model writes as folds (`Gather`, `ForEach`). The body of a fold is an
  operator and cannot be a parameter of a lemma, so `Result(kind, ...)` names
  the bodies that occur; one lemma for each kind shows its loop to be a run of
  it, `RunExists` that the recursive function exists, and `LoopKeeps` that a loop
  keeps what its body keeps, by the least index at which it could fail.
  `OptionsAssumption` gives the argument of each option its type and says that a
  configuration file does not name another: `parse_config_file` knows no keyword
  for it (`main.c:1434`). `LinesAssumption` makes a command line a sequence of
  these options, `PlatformsAssumption` the interfaces of a platform a subset of
  the three, `ResourceAssumption` the ids of a platform finite; `ProfileAssumption`
  and `DevAssumption` type the tables of profiles and devices.

Model-checked only:

* the liveness properties `CrashRecovery`, `LockReleased`, `CallReturns` and
  `Stops`: liveness under fairness and `ENABLED` are beyond this prover;
* `AsAsked` of `PqosTool`, which compares what the utility has done with a
  reference reading of the whole command line: it is about the order of calls
  over all tables at once, and each of its parts would need a specification of
  its own of each loop, not only what the loop keeps.

## Where code and documentation disagree

One is stated as a run that TLC violates (`findings` of `PROJECT.json`):
`pqos_mon_get_region_value` indexes the values of memory regions by number, and
the poll stores them by position in the list of the group.

Others met while modelling. Where a property could not hold for the reason given,
it says so in its condition or its comment.

Lock, life cycle and MSR interface:

* Two overlapping `lock_init` calls may both own the lock: one judges the other's
  file stale before it is written (`lock.c:267`, against the comment at
  `lock.c:106`); `MutualExclusion` asks for disciplined processes.
* `get_process_start_time` reads field 23 of the stat line, the size of the
  address space, so a living owner is taken for dead when it has grown
  (`lock.c:141`, against `lock.c:114`).
* A mode register that cannot be written ends `pqos_init` on the error path with
  `PQOS_RETVAL_OK` (`cap.c:945`, against `pqos.h:247`): the fault `mode` of
  `PqosLifecycle`, which the run excludes.
* `pqos_fini` sets the mode of the domains before `_pqos_check_init`
  (`cap.c:1106`); after a failed `pqos_init` it uses freed ERDT data, which
  `mmio_common.c:47` asserts to be there. The run lets only threads that
  initialised the library close it.
* MBA 4.0 that was switched on cannot be switched off in the same process:
  `mba40_on` is set at discovery and not by the switch
  (`allocation_common.c:484`, against the comment two lines above).
* `alloc_reset` resets channels while the capability still says I/O RDT is off
  (`allocation_common.c:432`), so enabling it leaves the tables as they were;
  the comment says "initialize mmio tables".
* A register write that fails on the second L3 leaves CDP on in the first; the
  cached flag keeps its value and a later reset to it returns OK.
* After a crash between two L3 caches `pqos_init` fails, although its message
  asks for a CAT reset (`hw_cap.c:140`), which needs an initialised library.
* Cores of two L2 clusters are accepted when L2 is requested together with
  another technology (`allocation.c:1452`, against `pqos.h:1409`).
* A requested technology the platform lacks makes the search forget the limit of
  one it has (`allocation.c:175`); with L3 and L2 requested on a machine without
  L3 a class in use is returned (`allocation.c:231`). `AssignExclusive` is
  therefore stated for technologies the platform has.
* `pqos_alloc_assign` does not look at the classes of I/O channels.
* Without memory for a list of ids `alloc_reset` returns OK having stopped half
  way (`allocation_common.c:271`); `ResetDoesRestore` excludes it.
* `pqos_fini` of a process that is not initialised unlinks the lock file of
  another (`cap.c:1111`). A process dying in `check_lockdir_access` leaves the
  temporary file, and every later `lock_init` fails (`lock.c:166`).
* A second `pqos_init` of one process is refused but has overwritten `m_apilock`
  with -1, so the descriptor leaks and `pqos_fini` reports an error later
  (`lock.c:263`); the circumstance `again` of `ApiLock`, under which
  `DescriptorOwned` does not say that the descriptor is kept.
* Of two threads waiting for the mutex that `pqos_fini` destroys, the second may
  never be woken.
* A failed MMIO `pqos_init` leaves the domains in region aware mode and some of
  its tables allocated.
* `pqos_mon_reset` does not forget running groups: a new group may get the RMID
  of an old one, and stopping the old one takes cores from the new (`Faults`
  value `live` of `HwMon`).
* Channels whose RMID register has an enable bit (`Ref`) cannot be read after
  they are cleared (`iordt.c:785`), so after a reset no search for an RMID in
  their cluster succeeds while I/O monitoring is on.
* In SNC total mode the RMIDs of the further nodes are in no register and a
  group of channels may get one of them (`hw_monitoring.c:663`).
* `hw_mon_stop` returns before it gives anything back when a core of a context
  cannot be read, and `pqos_mon_stop` frees the group all the same; counters of
  the first cores stay enabled when those of a later one cannot be started.
* A failing `iordt_mon_assoc_reset` is forgotten when an SNC mode is set in the
  same call (`common_monitoring.c:619`); an SNC request on a platform without
  it returns PARAM after everything was reset.
* The throttling value of MBA is computed in unsigned arithmetic and wraps when the
  step does not divide 100 (`allocation.c:990`).

OS interface:

* `os_alloc_assign` searches for a class without the lock (`os_allocation.c:425`),
  so another user may take it in between; `os_alloc_assign_pid` holds the lock.
* `resctrl_alloc_assoc_get` returns OK with the class unset for a core in a group
  that is none of the library's.
* `os_alloc_reset` accepts a request for the SMBA controller without asking
  whether there is one; a mount that fails in a full reset leaves resctrl
  unmounted until the library is closed and opened; only thread group leaders are
  moved to the default class (`Leader`).
* `os_alloc_release` compares the number of cores with the ids, so gaps of offline
  cores refuse valid ones.
* The alarm of `resctrl_lock` may fire before `flock` is entered, which then waits
  for ever (`resctrl.c:90`).
* A failed start without a name of its own moves cores to class 0, although
  comments say that the class is kept (`resctrl_monitoring.c:1777` and `:1768`,
  `os_monitoring.c:328`).
* A failing `resctrl_mon_start` frees `l3id` twice.
* A failed `pqos_mon_add_pids` removes the directories of the group that was
  there, in all classes.
* Stopping a group of tasks removes directories that a group of cores has taken
  over, since a group of tasks is never found to be shared.
* A partly failed `perf_mon_start` loses the descriptors it had opened;
  `os_mon_remove_pids` after a lock timeout closes descriptors that stay listed;
  a group whose processes were all removed cannot be stopped.
* L3 ids are kept in a word: ids from 32 on are lost in one place, 63 is refused
  in another and accepted in a third.
* A poll writes core masks while it holds only the shared lock.

Counters:

* `hw_mon_read` returns the content of the selector as data when the error bit is
  set and the selector is unchanged (`hw_monitoring.c:502`), and cannot notice
  another agent that selects without an error.
* `hw_mon_read_counter` looks for an overflow of total bandwidth in the value of
  local bandwidth (`hw_monitoring.c:1272`).
* The fixed counters of IPC are neither zeroed, programmed nor enabled. "Fixed
  counters are used for IPC calculations" (`common_monitoring.c:104`, and `:71`),
  under the bit `PQOS_PERF_EVENT_IPC`, which `mon_start_perf` never passes: it
  builds the mask from `perf_event[]` (`:65` and `:328`), where cycles and
  instructions have bits of their own. With an event of the last level cache in the
  group they are disabled on its cores, and without one they count only if
  somebody else has enabled them; there is no reading at the start, so the first
  delta is all that they held. Stopping a group of IPC disables the counters of
  its cores whoever uses them (`:201`). `CountersRun` speaks of the programmable
  and uncore counters, and `DeltaExact` takes the old content as counted.
* `get_delta` of `resctrl_monitoring.c:1850` is one short after a wrap; deltas of
  performance and uncore counters of fewer bits wrap at 64 bits.
* `uncore_mon_start` forgets the error of all but the last socket; counters that
  were enabled before one failed stay enabled.
* A directory with an unavailable counter is purged with its count; a purge that
  fails after saving counts twice; energy is not saved, so that power can become
  negative.
* Remote bandwidth is valid right after a new baseline although its delta is not
  (`api.c:1764`), and mixes two intervals after a poll that failed between local
  and total. An MMIO overflow does not clear `valid_mbm_read`.

MMIO interface:

* `mmio_l3ca_set` checks contiguity and zero masks while it writes, so a refusal
  leaves earlier elements applied; `mmio_mba_set` checks first, "so that an invalid
  value does not leave a partially applied configuration behind". It does not check
  the class, and refuses a zero mask unless gaps are supported too.
* A start that meets an event without a counter leaves the RMIDs in the cores; a
  combination of core counters passes the switch of `mmio_mon_start_channels`.
* Cores of one L3 cluster in several domains are read in the domain of the first
  (`DomainAssumption`).
* A dump that fails has printed the earlier domains; sockets are taken from the
  position in the table; the copy of a range of counters assumes that it stays in
  its group of eight; RMIDs beyond the platform's are scaled with a factor beyond
  the list.
* `pqos_mba_set` reads the interface before it takes the lock.

The utility:

* `strlisttotabrealloc` writes one element past a table that a range filled
  exactly (`main.c:447`); `strlisttotab` refuses a duplicate inside a range when
  the table is full; full tables of channels and devices drop entries silently.
* An overflow makes the loop poll again without looking at the timer or the
  timeout (`monitor.c:3400`); failures of the poll, the timer and the cache size
  leave the exit code at success; a failing `TIOCGWINSZ` makes the number of rows
  wrap (`monitor.c:3360`); comparing occupancies truncates to `int`.
* `set_l3_clos` on MMIO indexes socket ids by domain; `set_smba_clos` leaves fields
  uninitialised; devices are ignored without allocation capability; groups of a
  device and of its channel are not found to overlap.
* "unless config file was provided" (`alloc.c:2888`) is not implemented; the
  interface of a configuration file overrides an earlier choice; options that
  print ignore `-e` and `-a`; `--mon-uncore` does not narrow the interface.
* Ctrl-C before the handler is installed leaves groups monitored.
* `safe_fopen` may create or truncate the target of a link before it notices
  (`LinkNotFollowed` speaks of `safe_open`).

## What is not modelled

* Wording, logging and formatting, among them the whole output of the utility
  (`monitor_csv.c`, `monitor_text.c`, `monitor_xml.c`, `cap.c`): they change no
  state.
* Discovery: the parsing of ACPI, ERDT, MRRM and PCI tables, of CPUID, of
  `/sys` and of resctrl's info files. It reads once and changes nothing; its
  results are constants, and its failure is a stage of `PqosLifecycle`.
* The arithmetic of masks and of throttling values on the MSR interface (`Def`
  is abstract; on resctrl and MMIO they are modelled); requests for the MBA
  controller, which the MSR interface refuses; custom RMIDs (a build option).
* `pqos_init` while another thread is inside the library, which re-initialises the
  mutex that thread holds.
* The options of the utility that ask for dumps (`main.c:2266`ff) as options; what
  they make the library show is in `MmioRegs` and `MmioAlloc`.
* `pqos_fopen` and `pqos_open` of `lib/common.c`, which take the steps of
  `safe_fopen` and `safe_open` for files that only the system's administrator
  can replace.
* Uncore units are one counter each, and the four uncore events are one.
* `membw`, the examples, the tests and packaging. They are clients of the API or
  have no part in it; the tests were read for what the code is meant to do.

## Plan

The components that keep state are modelled, and for those of the lock, the life
cycle, the three interfaces and the polling of counters the invariants are
proved. What is left:

1. The parts of `AsAsked` one by one, starting with `GroupsDisjoint`, for which
   `grp_add` would have to be shown to keep the groups of a kind apart.
2. Liveness stays with TLC.

The order of modelling followed importance: the lock and the life cycle carry
every call, MSR allocation and monitoring are the library's core, the OS
interface is the next most used, the utility only sequences calls.
