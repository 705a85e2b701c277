------------------------------ MODULE ApiLock ------------------------------
(***************************************************************************)
(* The inter-process API lock of the PQoS library (lib/lock.c).            *)
(*                                                                         *)
(* pqos_init() calls lock_init(), which claims the machine-wide lock file  *)
(* LOCKFILE by creating it with O_CREAT|O_EXCL and writing "<pid> <start   *)
(* time>" into it; a file left by a process that no longer runs is stale   *)
(* and is replaced.  pqos_fini() calls lock_fini(), which unlinks it.      *)
(*                                                                         *)
(* Every system call on a file two processes share is a step of its own.   *)
(* The descriptor m_apilock is only ever closed, so an inode is told apart *)
(* from its successor only where write_lockfile() holds a stream on it.    *)
(***************************************************************************)
EXTENDS Naturals, FiniteSets

CONSTANTS
  Proc,       \* process ids that may use the library
  NoProc,     \* no process: the pid of a file that cannot be parsed
  MaxField,   \* largest value of the field read from /proc/<pid>/stat
  MaxStart,   \* bound on the number of process starts
  Environments \* the circumstances considered, each a subset of Circumstances

(***************************************************************************)
(* "overlap"        : lock_init() calls of two processes may overlap       *)
(* "unstable_field" : the field get_process_start_time() reads changes     *)
(*                    while the process lives (it is field 23, vsize)      *)
(* "fini_uninit"    : an application calls pqos_fini() although its        *)
(*                    pqos_init() failed, as the programs in examples/ do  *)
(* "write_error"    : fprintf()/fclose() of the lock file fail, unchecked  *)
(* "probe_crash"    : a process may die between creating and deleting the  *)
(*                    temporary file of check_lockdir_access()             *)
(* "again"          : an initialised application calls pqos_init() again;  *)
(*                    lock_init() runs before pqos_init() refuses the call *)
(***************************************************************************)
Circumstances == {"overlap", "unstable_field", "fini_uninit", "write_error",
               "probe_crash", "again"}

ASSUME ProcAssumption == NoProc \notin Proc
ASSUME FieldAssumption == MaxField \in Nat \ {0} /\ MaxStart \in Nat
ASSUME FaultAssumption == \A E \in Environments : E \subseteq Circumstances

VARIABLES
  lockfile,   \* LOCKFILE: does it exist, and which pid and time it records
  tmpfile,    \* does LOCKFILE_TMP exist
  pc,         \* where each process is
  seen,       \* the locals pid and stime of lock_init()
  stream,     \* write_lockfile()'s stream: on LOCKFILE or on a deleted inode
  m_apilock,  \* is the static descriptor m_apilock open
  m_init_done, \* is the process between a pqos_init() and its pqos_fini()
  leaked,     \* has m_apilock been overwritten while it was open
  field,      \* what get_process_start_time() reads for the process
  started,    \* number of process starts so far
  faults      \* the circumstances of this behaviour, which do not change

vars == <<lockfile, tmpfile, pc, seen, stream, m_apilock, m_init_done, leaked,
          field, started, faults>>

Record == [state : {"absent", "present"}, pid : Proc \cup {NoProc}, stime : 0 .. MaxField]
NoFile == [state |-> "absent", pid |-> NoProc, stime |-> 0]
EmptyFile == [state |-> "present", pid |-> NoProc, stime |-> 0]
Names(p, t) == [state |-> "present", pid |-> p, stime |-> t]

\* The places in lock_init() between its first and its last system call.
InInit == {"probe", "unprobe", "create", "read", "check", "unlink",
           "recreate", "fopen", "fclose", "mutex"}

\* lock_init() returned -1: the directory probe failed, the lock file is in
\* use, or its own write or mutex initialisation failed.
Refused == {"noaccess", "inuse", "undone"}

\* "reject": lock_init() of an initialised process returned 0 and pqos_init()
\* is about to notice that it is initialised.
Places == InInit \cup {"dead", "run", "owner", "reject"} \cup Refused

\* lock_init() has created the lock file and has not undone it.
Created == {"fopen", "fclose", "mutex", "owner", "reject"}

TypeOK ==
  /\ lockfile \in Record
  /\ tmpfile \in {"absent", "present"}
  /\ pc \in [Proc -> Places]
  /\ seen \in [Proc -> Record]
  /\ stream \in [Proc -> {"none", "linked", "deleted"}]
  /\ m_apilock \in [Proc -> {"closed", "open"}]
  /\ m_init_done \in [Proc -> BOOLEAN]
  /\ leaked \in [Proc -> BOOLEAN]
  /\ field \in [Proc -> 0 .. MaxField]
  /\ started \in 0 .. MaxStart
  /\ faults \in Environments

Init ==
  /\ lockfile = NoFile
  /\ tmpfile = "absent"
  /\ pc = [p \in Proc |-> "dead"]
  /\ seen = [p \in Proc |-> NoFile]
  /\ stream = [p \in Proc |-> "none"]
  /\ m_apilock = [p \in Proc |-> "closed"]
  /\ m_init_done = [p \in Proc |-> FALSE]
  /\ leaked = [p \in Proc |-> FALSE]
  /\ field = [p \in Proc |-> 0]
  /\ started = 0
  /\ faults \in Environments

-----------------------------------------------------------------------------
Exists == lockfile.state = "present"

Goto(p, from, to) ==
  /\ pc[p] = from
  /\ pc' = [pc EXCEPT ![p] = to]

\* unlink(LOCKFILE): a stream open on the file is left on a deleted inode.
Unlink ==
  /\ lockfile' = NoFile
  /\ stream' = [p \in Proc |-> IF stream[p] = "linked" THEN "deleted"
                                                       ELSE stream[p]]

(***************************************************************************)
(* A definition named M_... is a mutated form of the one after it: a bug   *)
(* the code could have had, used to show that a property would notice.     *)
(***************************************************************************)

\* get_process_start_time(): 0 when /proc/<pid>/stat cannot be read.
get_process_start_time(q) ==
  IF q \in Proc /\ pc[q] # "dead" THEN field[q] ELSE 0

\* Mutant: returns what the comment above the C function documents, 0 for alive.
M_is_pid_alive(q, t) ==
  ~(get_process_start_time(q) # 0 /\ get_process_start_time(q) = t)

is_pid_alive(q, t) ==
  /\ get_process_start_time(q) # 0
  /\ get_process_start_time(q) = t

\* A process starts; its pid may be that of one that died (external).  With
\* a stable field the value identifies the incarnation; vsize does not.
Start(p) ==
  /\ Goto(p, "dead", "run")
  /\ started < MaxStart
  /\ started' = started + 1
  /\ \E v \in 1 .. MaxField :
       /\ "unstable_field" \notin faults => v = started + 1
       /\ field' = [field EXCEPT ![p] = v]
  /\ UNCHANGED <<lockfile, tmpfile, seen, stream, m_apilock, m_init_done, leaked>>

\* The process maps or unmaps memory: field 23 of its stat file changes.
FieldChanges(p) ==
  /\ "unstable_field" \in faults
  /\ pc[p] # "dead"
  /\ \E v \in (1 .. MaxField) \ {field[p]} :
       field' = [field EXCEPT ![p] = v]
  /\ UNCHANGED <<lockfile, tmpfile, pc, seen, stream, m_apilock, m_init_done,
                 leaked, started>>

\* The process exits or is killed; its files stay, its descriptors close.
Die(p) ==
  /\ pc[p] # "dead"
  /\ pc[p] = "unprobe" => "probe_crash" \in faults
  /\ pc' = [pc EXCEPT ![p] = "dead"]
  /\ seen' = [seen EXCEPT ![p] = NoFile]
  /\ stream' = [stream EXCEPT ![p] = "none"]
  /\ m_apilock' = [m_apilock EXCEPT ![p] = "closed"]
  /\ m_init_done' = [m_init_done EXCEPT ![p] = FALSE]
  /\ leaked' = [leaked EXCEPT ![p] = FALSE]
  /\ field' = [field EXCEPT ![p] = 0]
  /\ UNCHANGED <<lockfile, tmpfile, started>>

-----------------------------------------------------------------------------
(***************************************************************************)
(* lock_init()                                                             *)
(***************************************************************************)

\* The call: the first, again after a failure, and again although initialised.
CallInit(p) ==
  /\ pc[p] \in {"run", "owner"} \cup Refused
  /\ m_init_done[p] => "again" \in faults
  /\ "overlap" \in faults \/ \A q \in Proc : pc[q] \notin InInit
  /\ pc' = [pc EXCEPT ![p] = "probe"]
  /\ UNCHANGED <<lockfile, tmpfile, seen, stream, m_apilock, m_init_done, leaked,
                 field, started>>

\* check_lockdir_access(): open(LOCKFILE_TMP, O_CREAT|O_EXCL) ...
ProbeOpen(p) ==
  /\ IF tmpfile = "present" THEN Goto(p, "probe", "noaccess")
                ELSE Goto(p, "probe", "unprobe")
  /\ tmpfile' = "present"
  /\ UNCHANGED <<lockfile, seen, stream, m_apilock, m_init_done, leaked, field,
                 started>>

\* ... and unlink(LOCKFILE_TMP).
ProbeUnlink(p) ==
  /\ Goto(p, "unprobe", "create")
  /\ tmpfile' = "absent"
  /\ UNCHANGED <<lockfile, seen, stream, m_apilock, m_init_done, leaked, field,
                 started>>

\* m_apilock = open(LOCKFILE, O_RDWR|O_CREAT|O_EXCL): EEXIST leaves -1, and a
\* descriptor that was open is overwritten either way.
OpenExclusive(p) ==
  /\ m_apilock' = [m_apilock EXCEPT ![p] = IF Exists THEN "closed" ELSE "open"]
  /\ leaked' = [leaked EXCEPT ![p] = leaked[p] \/ m_apilock[p] = "open"]

CreateLock(p) ==
  /\ IF Exists
     THEN Goto(p, "create", "read") /\ UNCHANGED lockfile
     ELSE Goto(p, "create", "fopen") /\ lockfile' = EmptyFile
  /\ OpenExclusive(p)
  /\ UNCHANGED <<tmpfile, seen, stream, m_init_done, field, started>>

\* read_lockfile(&pid, &stime): no file, or nothing to parse in it, gives -1.
read_lockfile(p) ==
  /\ Goto(p, "read", "check")
  /\ seen' = [seen EXCEPT ![p] = lockfile]
  /\ UNCHANGED <<lockfile, tmpfile, stream, m_apilock, m_init_done, leaked, field,
                 started>>

\* Mutant: only an unreadable file counts as stale.
M_Stale(r) == r.pid = NoProc

\* The file is stale when it could not be read or its writer is gone.
Stale(r) == r.pid = NoProc \/ ~is_pid_alive(r.pid, r.stime)

CheckStale(p) ==
  /\ IF Stale(seen[p]) THEN Goto(p, "check", "unlink")
                       ELSE Goto(p, "check", "inuse")
  /\ seen' = [seen EXCEPT ![p] = NoFile]
  /\ UNCHANGED <<lockfile, tmpfile, stream, m_apilock, m_init_done, leaked, field,
                 started>>

\* unlink(LOCKFILE) of the stale file; ENOENT ends lock_init().
UnlinkStale(p) ==
  /\ IF Exists THEN Goto(p, "unlink", "recreate")
                        ELSE Goto(p, "unlink", "inuse")
  /\ Unlink
  /\ UNCHANGED <<tmpfile, seen, m_apilock, m_init_done, leaked, field, started>>

RecreateLock(p) ==
  /\ IF Exists
     THEN Goto(p, "recreate", "inuse") /\ UNCHANGED lockfile
     ELSE Goto(p, "recreate", "fopen") /\ lockfile' = EmptyFile
  /\ OpenExclusive(p)
  /\ UNCHANGED <<tmpfile, seen, stream, m_init_done, field, started>>

\* Mutant: m_start_time is not set before the file is written.
M_WriteOpen(p) ==
  /\ Goto(p, "fopen", "fclose")
  /\ lockfile' = EmptyFile
  /\ stream' = [stream EXCEPT ![p] = "linked"]
  /\ seen' = [seen EXCEPT ![p] = Names(p, 0)]
  /\ UNCHANGED <<tmpfile, m_apilock, m_init_done, leaked, field, started>>

\* write_lockfile(): fopen(LOCKFILE, "w") creates or truncates the file ...
WriteOpen(p) ==
  /\ Goto(p, "fopen", "fclose")
  /\ lockfile' = EmptyFile
  /\ stream' = [stream EXCEPT ![p] = "linked"]
  /\ seen' = [seen EXCEPT ![p] = Names(p, field[p])]
  /\ UNCHANGED <<tmpfile, m_apilock, m_init_done, leaked, field, started>>

\* Mutant: the flush writes the next field of the stat line.
M_WriteClose(p) ==
  /\ Goto(p, "fclose", "mutex")
  /\ lockfile' = Names(p, seen[p].stime + 1)
  /\ stream' = [stream EXCEPT ![p] = "none"]
  /\ seen' = [seen EXCEPT ![p] = NoFile]
  /\ UNCHANGED <<tmpfile, m_apilock, m_init_done, leaked, field, started>>

\* ... and fclose() flushes "<m_pid> <m_start_time>" into that inode.
WriteClose(p) ==
  /\ Goto(p, "fclose", "mutex")
  /\ lockfile' \in {IF stream[p] = "linked" THEN seen[p] ELSE lockfile}
                     \cup (IF "write_error" \in faults THEN {lockfile} ELSE {})
  /\ stream' = [stream EXCEPT ![p] = "none"]
  /\ seen' = [seen EXCEPT ![p] = NoFile]
  /\ UNCHANGED <<tmpfile, m_apilock, m_init_done, leaked, field, started>>

\* Mutant: the failure path forgets to close and reset the descriptor.
M_UndoInit(p) ==
  /\ pc[p] \in {"fopen", "mutex"}
  /\ pc' = [pc EXCEPT ![p] = "undone"]
  /\ Unlink
  /\ UNCHANGED <<tmpfile, seen, m_apilock, m_init_done, leaked, field, started>>

\* write_lockfile() or pthread_mutex_init() fails: close, unlink, -1.
UndoInit(p) ==
  /\ pc[p] \in {"fopen", "mutex"}
  /\ pc' = [pc EXCEPT ![p] = "undone"]
  /\ Unlink
  /\ m_apilock' = [m_apilock EXCEPT ![p] = "closed"]
  /\ UNCHANGED <<tmpfile, seen, m_init_done, leaked, field, started>>

\* pthread_mutex_init(&m_apilock_mutex) succeeds: lock_init() returns 0.
InitDone(p) ==
  /\ Goto(p, "mutex", IF m_init_done[p] THEN "reject" ELSE "owner")
  /\ m_init_done' = [m_init_done EXCEPT ![p] = TRUE]
  /\ UNCHANGED <<lockfile, tmpfile, seen, stream, m_apilock, leaked, field,
                 started>>

\* _pqos_check_init(0) fails in pqos_init(): lock_fini(), the library stays
\* initialised.
RejectAgain(p) ==
  /\ Goto(p, "reject", "undone")
  /\ m_apilock' = [m_apilock EXCEPT ![p] = "closed"]
  /\ Unlink
  /\ UNCHANGED <<tmpfile, seen, m_init_done, leaked, field, started>>

-----------------------------------------------------------------------------
\* lock_fini(): close and destroy are local, the unlink is not conditional.
LockFini(p) ==
  /\ m_init_done[p]
  /\ pc[p] \in {"owner"} \cup Refused
  /\ pc' = [pc EXCEPT ![p] = "run"]
  /\ m_init_done' = [m_init_done EXCEPT ![p] = FALSE]
  /\ m_apilock' = [m_apilock EXCEPT ![p] = "closed"]
  /\ Unlink
  /\ UNCHANGED <<tmpfile, seen, leaked, field, started>>

\* pqos_fini() of a process that is not initialised still calls lock_fini().
FiniUninit(p) ==
  /\ "fini_uninit" \in faults
  /\ pc[p] \in Refused /\ ~m_init_done[p]
  /\ pc' = [pc EXCEPT ![p] = "run"]
  /\ m_apilock' = [m_apilock EXCEPT ![p] = "closed"]
  /\ Unlink
  /\ UNCHANGED <<tmpfile, seen, m_init_done, leaked, field, started>>

-----------------------------------------------------------------------------
Step(p) ==
  \/ ProbeOpen(p) \/ ProbeUnlink(p)
  \/ CreateLock(p) \/ read_lockfile(p) \/ CheckStale(p)
  \/ UnlinkStale(p) \/ RecreateLock(p)
  \/ WriteOpen(p) \/ WriteClose(p) \/ InitDone(p)
  \/ RejectAgain(p)

Next ==
  /\ UNCHANGED faults
  /\ \E p \in Proc :
       \/ Start(p) \/ Die(p) \/ FieldChanges(p)
       \/ CallInit(p) \/ Step(p) \/ UndoInit(p)
       \/ LockFini(p) \/ FiniUninit(p)

Spec == Init /\ [][Next]_vars

\* A process inside lock_init(), or undoing the lock_init() of a refused
\* pqos_init(), keeps running until it returns or dies.
FairSpec == Spec /\ \A p \in Proc : WF_vars(Step(p) /\ UNCHANGED faults)

-----------------------------------------------------------------------------
(***************************************************************************)
(* Properties                                                              *)
(***************************************************************************)

\* lock_init() calls do not overlap, the field that stands for the start time
\* does not change while a process lives, writes reach the file, and
\* pqos_fini() is called only by an initialised process.  Crashes may happen
\* anywhere, and an initialised process may call pqos_init() again.
Disciplined == faults \subseteq {"probe_crash", "again"}

\* "API thread/process safe access is secured through these locks": at most
\* one process is between a successful lock_init() and its lock_fini(), as
\* long as the processes are disciplined, also while that process is refused
\* another lock_init().  Each of the other circumstances breaks it.
MutualExclusion ==
  Disciplined => \A p, q \in Proc : m_init_done[p] /\ m_init_done[q] => p = q

\* While a process owns the lock the file names it and the time it started,
\* so that a later lock_init(), its own included, recognises it as alive.
OwnerOnFile ==
  Disciplined =>
    \A p \in Proc : m_init_done[p] => lockfile = Names(p, field[p])

\* The static descriptor m_apilock is open whenever the process has just
\* created the lock file, and otherwise only while it is initialised.  Unless
\* an initialised process calls pqos_init() again, it is open exactly then and
\* no path of lock_init() and lock_fini() leaks it: the second call overwrites
\* the descriptor it finds, so there the condition cannot be left out.
DescriptorOwned ==
  \A p \in Proc :
    /\ pc[p] \in Created => m_apilock[p] = "open"
    /\ m_apilock[p] = "open" => pc[p] \in Created \/ m_init_done[p]
    /\ "again" \notin faults =>
         ~leaked[p] /\ (m_apilock[p] = "open" => pc[p] \in Created)

\* At most one process is between creating and deleting LOCKFILE_TMP, so the
\* unlink in check_lockdir_access() removes the caller's own file.
ProbeExclusive ==
  \A p, q \in Proc : pc[p] = "unprobe" /\ pc[q] = "unprobe" =>
    p = q /\ tmpfile = "present"

\* A lock file left behind by a dead process blocks no one: with no other
\* process alive, lock_init() ends with the lock held, unless its own write or
\* mutex initialisation fails, or a file from an earlier process with the same
\* pid cannot be told from its own.
Alone(p) == \A q \in Proc \ {p} : pc[q] = "dead"
CrashRecovery ==
  \A p \in Proc :
    pc[p] = "probe" ~> \/ pc[p] \in {"owner", "undone", "dead"}
                      \/ ~Alone(p)
                      \/ lockfile = Names(p, field[p])

\* The files of lock_init() have one owner each: unless an initialised process
\* calls pqos_init() again, the descriptor is open exactly while the process
\* has a lock file of its own and is never lost; and nobody deletes the
\* temporary file of another.
FilesOwned == DescriptorOwned /\ ProbeExclusive

=============================================================================
