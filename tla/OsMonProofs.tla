---------------------------- MODULE OsMonProofs ----------------------------
(***************************************************************************)
(* Proofs about OsMon, for every machine, any number of groups and of      *)
(* processes that use the library, any events and all circumstances.       *)
(***************************************************************************)
EXTENDS OsMon, TLAPS

-----------------------------------------------------------------------------
(* The kernel's operations *)

\* Nothing but tags, classes and directories differs.
SameRest(v, w) ==
  v.alive = w.alive /\ v.fds = w.fds /\ v.leak = w.leak /\ v.lk = w.lk

LEMMA ReclassIs ==
  ASSUME NEW w \in OsType, NEW S, NEW c \in Class, NEW v, v = Reclass(w, S, c)
  PROVE  /\ v \in OsType /\ SameRest(v, w) /\ v.dirs = w.dirs
         /\ \A x \in Target : /\ v.cls[x] = IF x \in S THEN c ELSE w.cls[x]
                              /\ v.mon[x] = IF x \in S /\ w.cls[x] # c THEN None ELSE w.mon[x]
  BY DEF Reclass, OsType, SameRest, None

LEMMA UntagIs ==
  ASSUME NEW w \in OsType, NEW S, NEW v, v = Untag(w, S)
  PROVE  /\ v \in OsType /\ SameRest(v, w) /\ v.dirs = w.dirs /\ v.cls = w.cls
         /\ \A x \in Target : v.mon[x] = IF x \in S THEN None ELSE w.mon[x]
  BY DEF Untag, OsType, SameRest, None

LEMMA RemovedIs ==
  ASSUME NEW w \in OsType, NEW ds, NEW v, v = Removed(w, ds)
  PROVE  /\ v \in OsType /\ SameRest(v, w) /\ v.dirs = w.dirs \ ds /\ v.cls = w.cls
         /\ \A x \in Target :
              v.mon[x] = IF <<w.cls[x], w.mon[x]>> \in ds THEN None ELSE w.mon[x]
  BY DEF Removed, OsType, SameRest, None

LEMMA EndedIs ==
  ASSUME NEW w \in OsType, NEW dead, NEW v, v = Ended(w, dead)
  PROVE  /\ v \in OsType /\ v.dirs = w.dirs /\ v.cls = w.cls /\ v.fds = w.fds
         /\ v.lk = w.lk /\ v.leak = w.leak /\ v.alive = w.alive \ dead
         /\ \A x \in Target : v.mon[x] = IF x \in dead THEN None ELSE w.mon[x]
  BY DEF Ended, OsType, None

LEMMA WithLk ==
  ASSUME NEW w \in OsType, NEW i \in 0 .. 2, NEW v, v = [w EXCEPT !.lk = i]
  PROVE  /\ v \in OsType /\ v.alive = w.alive /\ v.cls = w.cls /\ v.mon = w.mon
         /\ v.dirs = w.dirs /\ v.fds = w.fds /\ v.leak = w.leak /\ v.lk = i
  BY DEF OsType

LEMMA DeadIs ==
  ASSUME NEW w \in OsType, NEW p, NEW v, v = Dead(w, p)
  PROVE  /\ v \in OsType /\ v.alive = w.alive /\ v.cls = w.cls /\ v.mon = w.mon
         /\ v.dirs = w.dirs /\ v.fds = {d \in w.fds : Owner[d[1]] # p}
<1>1. PICK F, L : F = {d \in w.fds : Owner[d[1]] # p} /\ L = {d \in w.leak : Owner[d[1]] # p}
  OBVIOUS
<1>a. w.fds \in SUBSET Descriptor /\ w.leak \in SUBSET Descriptor
  BY DEF OsType
<1>2. F \in SUBSET Descriptor /\ L \in SUBSET Descriptor
  BY <1>1, <1>a, Zenon
<1>3. v = [w EXCEPT !.fds = F, !.leak = L, !.lk = 0]
  BY <1>1 DEF Dead
<1>5. v = [alive |-> w.alive, cls |-> w.cls, mon |-> w.mon, dirs |-> w.dirs, fds |-> F, leak |-> L,
           lk |-> 0]
  BY <1>3 DEF OsType
<1>4. /\ v \in OsType /\ v.alive = w.alive /\ v.cls = w.cls /\ v.mon = w.mon
      /\ v.dirs = w.dirs /\ v.fds = F
  BY <1>2, <1>5 DEF OsType
<1> QED
  BY <1>1, <1>4

-----------------------------------------------------------------------------
(* The invariant *)

\* Who is tagged is in a directory that exists.
TagsIn(w) == \A x \in Target : w.mon[x] # None => <<w.cls[x], w.mon[x]>> \in w.dirs

World(w) == w \in OsType /\ TagsIn(w)

\* Who serves the events of a group is fixed by the events, and a group has a
\* name if resctrl serves one.  It watches cores or the threads of processes.
GroupOK(g) ==
  /\ g.perf = {e \in Expanded(g.ev) : Serves(e) = "perf"}
  /\ g.resctrl = {e \in Expanded(g.ev) : Serves(e) = "resctrl"}
  /\ g.name # None <=> g.resctrl # {}
  /\ g.pids # {} => g.cores = {}
  /\ g.pids = {} => g.tids = {}
  /\ g.name < next

\* Names are taken once.
NamesUsed == \A d \in os.dirs : d[2] < next

\* A core is tagged with the name of a group that has it, or with one that was
\* left behind.
TagsOwned ==
  \A k \in Core : os.mon[k] # None =>
    os.mon[k] \in orphan \/ \E h \in Actives : grp[h].name = os.mon[k] /\ k \in grp[h].cores

Owned ==
  /\ World(os) /\ grp \in [Handle -> GroupType] /\ next \in Name /\ orphan \subseteq Name
  /\ \A h \in Actives : GroupOK(grp[h])
  /\ NamesUsed
  /\ TagsOwned
  /\ LeftOnlyOnError
  /\ DescriptorsOwned

-----------------------------------------------------------------------------
(* Stopping *)

\* v keeps of w what others have: nothing is new, a core's tag is only taken.
Shrunk(v, w) ==
  /\ v.dirs \subseteq w.dirs
  /\ \A k \in Core : v.mon[k] \in {w.mon[k], None}

LEMMA DirIs ==
  ASSUME NEW w \in OsType, NEW d \in w.dirs
  PROVE  d = <<d[1], d[2]>> /\ d[1] \in Class /\ d[2] \in Name
  BY DEF OsType

LEMMA NamesIs ==
  ASSUME NEW w, NEW n
  PROVE  n \in Names(w) <=> \E d \in w.dirs : d[2] = n
  BY DEF Names

LEMMA TagNamed ==
  ASSUME NEW w, World(w), NEW x \in Target, w.mon[x] # None
  PROVE  w.mon[x] \in Names(w)
  BY NamesIs DEF World, TagsIn

LEMMA UntagWorld ==
  ASSUME NEW w, World(w), NEW S, NEW v, v = Untag(w, S)
  PROVE  World(v)
  BY UntagIs DEF World, TagsIn

LEMMA RemovedWorld ==
  ASSUME NEW w, World(w), NEW ds, NEW v, v = Removed(w, ds)
  PROVE  World(v) /\ Shrunk(v, w)
<1>1. /\ w \in OsType /\ TagsIn(w) /\ v \in OsType /\ v.dirs = w.dirs \ ds /\ v.cls = w.cls
      /\ \A x \in Target :
           v.mon[x] = IF <<w.cls[x], w.mon[x]>> \in ds THEN None ELSE w.mon[x]
  BY RemovedIs DEF World
<1> QED
  BY <1>1 DEF World, TagsIn, Shrunk, Target

LEMMA DeleteIs ==
  ASSUME NEW w, World(w), NEW n \in Name, NEW v, v = Delete(w, n)
  PROVE  /\ World(v) /\ SameRest(v, w) /\ Shrunk(v, w) /\ n \notin Names(v)
         /\ \A x \in Target : v.mon[x] = IF w.mon[x] = n THEN None ELSE w.mon[x]
<1>1. PICK ds : ds = {d \in w.dirs : d[2] = n}
  OBVIOUS
<1>2. v = Removed(w, ds)
  BY <1>1 DEF Delete
<1>3. World(v) /\ Shrunk(v, w)
  BY <1>2, RemovedWorld
<1>4. /\ w \in OsType /\ SameRest(v, w) /\ v.dirs = w.dirs \ ds
      /\ \A x \in Target :
           v.mon[x] = IF <<w.cls[x], w.mon[x]>> \in ds THEN None ELSE w.mon[x]
  BY <1>2, RemovedIs DEF World
<1>5. n \notin Names(v)
  BY <1>1, <1>4, NamesIs
<1>6. ASSUME NEW x \in Target
      PROVE  v.mon[x] = IF w.mon[x] = n THEN None ELSE w.mon[x]
  <2>1. <<w.cls[x], w.mon[x]>> \in ds <=> w.mon[x] = n /\ <<w.cls[x], w.mon[x]>> \in w.dirs
    BY <1>1
  <2>2. w.mon[x] = n => <<w.cls[x], w.mon[x]>> \in w.dirs
    BY DEF World, TagsIn, Name
  <2> QED
    BY <1>4, <2>1, <2>2
<1> QED
  BY <1>3, <1>4, <1>5, <1>6

LEMMA ReclassWorld ==
  ASSUME NEW w, World(w), NEW S, NEW c \in Class, NEW v, v = Reclass(w, S, c)
  PROVE  World(v)
  BY ReclassIs DEF World, TagsIn

LEMMA ZeroClass == 0 \in Class
  BY PlatformAssumption

LEMMA UnsetCoresIs ==
  ASSUME NEW w, World(w), NEW g \in GroupType, NEW r, r = UnsetCores(w, g)
  PROVE  /\ World(r.w) /\ SameRest(r.w, w) /\ r.w.dirs = w.dirs
         /\ \A x \in Target : r.w.mon[x] \in {w.mon[x], None}
         /\ \A x \in Target \ g.cores : r.w.mon[x] = w.mon[x]
         /\ r.ret \in {"OK", "ERROR"}
         /\ g.name # None => r.ret = "OK" /\ \A x \in g.cores : r.w.mon[x] # g.name
<1>a. w \in OsType /\ g.cores \subseteq Target
  BY DEF World, GroupType, Target
<1>1. CASE g.name # None
  <2>1. PICK S : S = {k \in g.cores : w.mon[k] = g.name}
    OBVIOUS
  <2>2. r.w = Untag(w, S) /\ r.ret = "OK"
    BY <1>1, <2>1 DEF UnsetCores, Ret
  <2> QED
    BY <1>a, <1>1, <2>1, <2>2, UntagIs, UntagWorld
<1>2. CASE g.name = None /\ \E k \in g.cores : w.cls[k] = 0
  <2>1. r.w = w /\ r.ret = "ERROR"
    BY <1>2 DEF UnsetCores, Ret
  <2> QED
    BY <1>2, <2>1 DEF SameRest
<1>3. CASE g.name = None /\ ~ \E k \in g.cores : w.cls[k] = 0
  <2>1. r.w = Reclass(w, g.cores, 0) /\ r.ret = "OK"
    BY <1>3 DEF UnsetCores, Ret
  <2> QED
    BY <1>a, <1>3, <2>1, ZeroClass, ReclassIs, ReclassWorld
<1> QED
  BY <1>1, <1>2, <1>3

\* Whoever else has the name keeps a directory of it alive.
LEMMA SharedIs ==
  ASSUME NEW w, World(w), NEW g \in GroupType, g.name # None
  PROVE  /\ Shared(w, g) => g.pids = {} /\ \E k \in Core \ g.cores : w.mon[k] = g.name
         /\ ~Shared(w, g) /\ g.pids = {} => \A k \in Core \ g.cores : w.mon[k] # g.name
<1>1. \A k \in Core : w.cls[k] \in Class
  BY DEF World, OsType, Target
<1> QED
  BY <1>1 DEF Shared, CpuMask

\* What resctrl_mon_stop() leaves.
LEMMA ResctrlStopIs ==
  ASSUME NEW w, World(w), NEW g \in GroupType, NEW back, NEW r, r = ResctrlStop(w, g, back)
  PROVE  /\ World(r.w) /\ SameRest(r.w, w) /\ Shrunk(r.w, w)
         /\ r.ret \in {"OK", "ERROR"}
         /\ g.pids = {} => \A k \in Core \ g.cores : r.w.mon[k] = w.mon[k]
         /\ g.pids = {} /\ g.name # None => r.ret = "OK"
         /\ g.name # None /\ r.ret = "OK" =>
              /\ \A x \in g.cores : r.w.mon[x] # g.name
              /\ g.name \in Names(r.w) =>
                   g.pids = {} /\ \E k \in Core \ g.cores : w.mon[k] = g.name /\ r.w.mon[k] = g.name
<1> DEFINE A == IF g.pids = {} THEN w ELSE Untag(w, g.tids \cap w.alive \cap back)
           O == IF g.pids # {} /\ back # Tasks THEN Ret(A, "ERROR")
                ELSE IF g.cores = {} THEN Ret(A, "OK") ELSE UnsetCores(A, g)
<1>a. w \in OsType /\ g.cores \subseteq Core /\ g.tids \subseteq Tasks /\ g.name \in Nat
      /\ Core \cap Tasks = {} /\ Core \subseteq Target
  BY PlatformAssumption DEF World, GroupType, Target
<1>1. PICK v : v = A
  OBVIOUS
<1>2. /\ World(v) /\ SameRest(v, w) /\ v.dirs = w.dirs
      /\ \A k \in Core : v.mon[k] = w.mon[k]
  BY <1>a, <1>1, UntagIs, UntagWorld DEF SameRest
<1>3. PICK o : o = O
  OBVIOUS
<1>4. /\ World(o.w) /\ SameRest(o.w, v) /\ o.w.dirs = v.dirs
      /\ \A k \in Core : o.w.mon[k] \in {v.mon[k], None}
      /\ \A k \in Core \ g.cores : o.w.mon[k] = v.mon[k]
      /\ o.ret \in {"OK", "ERROR"}
      /\ g.pids = {} /\ g.name # None => o.ret = "OK"
      /\ g.name # None /\ o.ret = "OK" => \A x \in g.cores : o.w.mon[x] # g.name
  <2>0. CASE g.pids # {} /\ back # Tasks
    <3>1. o.w = v /\ o.ret = "ERROR"
      BY <1>1, <1>3, <2>0 DEF Ret
    <3> QED
      BY <1>2, <2>0, <3>1 DEF SameRest
  <2>1. CASE ~(g.pids # {} /\ back # Tasks) /\ g.cores = {}
    <3>1. o.w = v /\ o.ret = "OK"
      BY <1>1, <1>3, <2>1 DEF Ret
    <3> QED
      BY <1>2, <2>1, <3>1 DEF SameRest
  <2>2. CASE ~(g.pids # {} /\ back # Tasks) /\ g.cores # {}
    <3>1. o = UnsetCores(v, g)
      BY <1>1, <1>3, <2>2
    <3> QED
      BY <1>2, <1>a, <3>1, UnsetCoresIs
  <2> QED
    BY <2>0, <2>1, <2>2
<1>5. r = IF o.ret = "OK" /\ g.name # None /\ ~Shared(o.w, g)
          THEN Ret(Delete(o.w, g.name), "OK") ELSE o
  BY <1>1, <1>3 DEF ResctrlStop
<1> HIDE DEF A, O
<1>6. SameRest(o.w, w) /\ Shrunk(o.w, w) /\ \A k \in Core \ g.cores : o.w.mon[k] = w.mon[k]
  BY <1>2, <1>4 DEF SameRest, Shrunk
<1>7. CASE ~(o.ret = "OK" /\ g.name # None /\ ~Shared(o.w, g))
  <2>1. r = o
    BY <1>5, <1>7
  <2>2. g.name # None /\ o.ret = "OK" =>
          g.pids = {} /\ \E k \in Core \ g.cores : o.w.mon[k] = g.name
    BY <1>4, <1>7, SharedIs
  <2> QED
    BY <1>4, <1>6, <2>1, <2>2
<1>8. CASE o.ret = "OK" /\ g.name # None /\ ~Shared(o.w, g)
  <2>1. r.w = Delete(o.w, g.name) /\ r.ret = "OK" /\ g.name \in Name
    BY <1>5, <1>8, <1>a DEF Ret, Name
  <2>2. /\ World(r.w) /\ SameRest(r.w, o.w) /\ Shrunk(r.w, o.w) /\ g.name \notin Names(r.w)
        /\ \A x \in Target : r.w.mon[x] = IF o.w.mon[x] = g.name THEN None ELSE o.w.mon[x]
    BY <1>4, <2>1, DeleteIs
  <2>3. SameRest(r.w, w) /\ Shrunk(r.w, w)
    BY <1>6, <2>2 DEF SameRest, Shrunk
  <2>4. g.pids = {} => \A k \in Core \ g.cores : r.w.mon[k] = w.mon[k]
    BY <1>4, <1>6, <1>8, <1>a, <2>2, SharedIs
  <2>5. \A x \in g.cores : r.w.mon[x] # g.name
    BY <1>8, <1>a, <2>2
  <2> QED
    BY <2>1, <2>2, <2>3, <2>4, <2>5
<1> QED
  BY <1>7, <1>8

\* Descriptors of group h for the targets S and the events E.
Fds(h, S, E) == {h} \X S \X E

\* What os_mon_stop_events() leaves: descriptors are closed, cores of others
\* stay, and unless the lock was not to be had, or a thread of the group ended
\* in its turn, a directory of the name is left only if somebody else is in it.
Stopped(r, w, h, g) ==
  /\ World(r.w) /\ Shrunk(r.w, w)
  /\ r.w.fds = w.fds \ Fds(h, Watched(g), g.perf)
  /\ r.ret \in {"OK", "ERROR"}
  /\ g.pids = {} => \A k \in Core \ g.cores : r.w.mon[k] = w.mon[k]
  /\ g.resctrl = {} => r.w.dirs = w.dirs /\ r.w.mon = w.mon
  /\ g.name # None /\ g.resctrl # {} /\ (r.ret = "OK" \/ (w.lk = 0 /\ g.pids = {})) =>
       /\ \A x \in g.cores : r.w.mon[x] # g.name
       /\ g.name \in Names(r.w) =>
            g.pids = {} /\ \E k \in Core \ g.cores : w.mon[k] = g.name /\ r.w.mon[k] = g.name

LEMMA StopEventsIs ==
  ASSUME NEW w, World(w), NEW h \in Handle, NEW g \in GroupType, NEW back,
         NEW r, r = StopEvents(w, h, g, back)
  PROVE  Stopped(r, w, h, g)
<1> USE DEF Stopped
<1>1. PICK F : F = Fds(h, Watched(g), g.perf)
  OBVIOUS
<1>2. PICK c : c = [w EXCEPT !.fds = w.fds \ F]
  OBVIOUS
<1>3. c = PerfStop(w, h, g)
  BY <1>1, <1>2 DEF PerfStop, Fds
<1>4. /\ c \in OsType /\ c.dirs = w.dirs /\ c.mon = w.mon /\ c.cls = w.cls /\ c.lk = w.lk
      /\ c.fds = w.fds \ F /\ World(c)
  <2>1. w \in OsType
    BY DEF World
  <2>2. /\ c \in OsType /\ c.dirs = w.dirs /\ c.mon = w.mon /\ c.cls = w.cls /\ c.lk = w.lk
        /\ c.fds = w.fds \ F
    BY <2>1, <1>2 DEF OsType
  <2> QED
    BY <2>2 DEF World, TagsIn
<1>5. PICK k : k = Lock(c)
  OBVIOUS
<1>6. /\ World(k.w) /\ k.w.dirs = c.dirs /\ k.w.mon = c.mon /\ k.w.fds = c.fds
      /\ k.ret = "OK" <=> c.lk = 0
      /\ k.ret \in {"OK", "ERROR"}
      /\ k.ret = "OK" => k.w = c
  <2>1. CASE c.lk > 0
    <3>1. c.lk - 1 \in 0 .. 2 /\ k.w = [c EXCEPT !.lk = c.lk - 1] /\ k.ret = "ERROR"
      BY <1>4, <1>5, <2>1 DEF Lock, Ret, OsType
    <3> QED
      BY <1>4, <2>1, <3>1, WithLk DEF World, TagsIn
  <2>2. CASE c.lk = 0
    <3>1. k.w = c /\ k.ret = "OK"
      BY <1>4, <1>5, <2>2 DEF Lock, Ret
    <3> QED
      BY <1>4, <2>2, <3>1
  <2> QED
    BY <1>4, <2>1, <2>2 DEF OsType
<1>7. PICK o : o = IF g.resctrl = {} THEN Ret(c, "OK")
                   ELSE IF k.ret # "OK" THEN k ELSE ResctrlStop(k.w, g, back)
  OBVIOUS
<1>8. r.w = o.w /\ r.ret \in {"OK", "ERROR"} /\ (r.ret = "OK" => o.ret = "OK")
  BY <1>3, <1>5, <1>7 DEF StopEvents, Ret
<1>9. CASE g.resctrl = {}
  <2>1. o.w = c
    BY <1>7, <1>9 DEF Ret
  <2> QED
    BY <1>1, <1>4, <1>8, <1>9, <2>1 DEF Shrunk
<1>10. CASE g.resctrl # {} /\ k.ret # "OK"
  <2>1. o = k
    BY <1>7, <1>10
  <2> QED
    BY <1>1, <1>4, <1>6, <1>8, <1>10, <2>1 DEF Shrunk
<1>11. CASE g.resctrl # {} /\ k.ret = "OK"
  <2>1. o = ResctrlStop(c, g, back)
    BY <1>6, <1>7, <1>11
  <2>2. /\ World(o.w) /\ SameRest(o.w, c) /\ Shrunk(o.w, c)
        /\ g.pids = {} => \A j \in Core \ g.cores : o.w.mon[j] = c.mon[j]
        /\ g.pids = {} /\ g.name # None => o.ret = "OK"
        /\ g.name # None /\ o.ret = "OK" =>
              /\ \A x \in g.cores : o.w.mon[x] # g.name
              /\ g.name \in Names(o.w) =>
                   g.pids = {} /\ \E j \in Core \ g.cores : c.mon[j] = g.name /\ o.w.mon[j] = g.name
    BY SMTT(30), <1>4, <2>1, ResctrlStopIs
  <2> QED
    BY <1>1, <1>4, <1>8, <1>11, <2>2 DEF Shrunk, SameRest
<1> QED
  BY <1>9, <1>10, <1>11

-----------------------------------------------------------------------------
(* Starting *)

LEMMA ExpandedReal ==
  ASSUME NEW ev
  PROVE  Expanded(ev) \subseteq Real
  BY DEF Expanded, Real

LEMMA DescriptorsIn ==
  ASSUME NEW h \in Handle, NEW S \in SUBSET Target, NEW E \in SUBSET Real
  PROVE  Fds(h, S, E) \subseteq Descriptor
  BY DEF Descriptor, Fds

LEMMA WatchedIn ==
  ASSUME NEW g \in GroupType
  PROVE  Watched(g) \in SUBSET Target
  BY DEF Watched, GroupType, Target

LEMMA StartedWithIs ==
  ASSUME NEW g \in GroupType, NEW x, NEW b, b = StartedWith(g, x)
  PROVE  /\ b \in GroupType
         /\ b.on = g.on /\ b.cores = g.cores /\ b.pids = g.pids /\ b.tids = g.tids
         /\ b.name = g.name /\ b.ev = g.ev
         /\ Poor(Expanded(g.ev), x) = {} =>
              /\ b.perf = {e \in Expanded(g.ev) : Serves(e) = "perf"}
              /\ b.resctrl = {e \in Expanded(g.ev) : Serves(e) = "resctrl"}
<1>1. PICK R : R = Reached(Expanded(g.ev), x)
  OBVIOUS
<1>2. PICK P, Q : P = {e \in R : Serves(e) = "perf"} /\ Q = {e \in R : Serves(e) = "resctrl"}
  OBVIOUS
<1>3. b = [g EXCEPT !.perf = P, !.resctrl = Q]
  BY <1>1, <1>2 DEF StartedWith
<1>4. R \subseteq Expanded(g.ev) /\ (Poor(Expanded(g.ev), x) = {} => R = Expanded(g.ev))
  BY <1>1 DEF Reached
<1>5. P \subseteq Real /\ Q \subseteq Real
  BY <1>2, <1>4, ExpandedReal
<1>6. /\ b \in GroupType
      /\ b.on = g.on /\ b.cores = g.cores /\ b.pids = g.pids /\ b.tids = g.tids
      /\ b.name = g.name /\ b.ev = g.ev /\ b.perf = P /\ b.resctrl = Q
  BY <1>3, <1>5 DEF GroupType
<1> QED
  BY <1>2, <1>4, <1>6

\* Only descriptors differ.
SameDirs(v, w) ==
  v.alive = w.alive /\ v.cls = w.cls /\ v.mon = w.mon /\ v.dirs = w.dirs

LEMMA PerfStartedIs ==
  ASSUME NEW w, World(w), NEW h \in Handle, NEW g \in GroupType, NEW x, x.opened \subseteq Target,
         NEW b, b = StartedWith(g, x), NEW v, v = PerfStarted(w, h, g, x)
  PROVE  /\ World(v) /\ SameDirs(v, w) /\ v.lk = w.lk
         /\ v.fds = w.fds \cup Fds(h, Watched(g), b.perf)
<1>1. PICK bad : bad = {e \in Expanded(g.ev) :
                          e = x.bad /\ Before(e) \cap Poor(Expanded(g.ev), x) = {}}
  OBVIOUS
<1>2. PICK F, L : F = Fds(h, Watched(g), b.perf) /\ L = Fds(h, x.opened, bad)
  OBVIOUS
<1>3. bad \subseteq Real /\ b \in GroupType
  BY <1>1, ExpandedReal, StartedWithIs
<1>4. F \subseteq Descriptor /\ L \subseteq Descriptor
  BY <1>2, <1>3, DescriptorsIn, WatchedIn DEF GroupType
<1>5. v = [w EXCEPT !.fds = w.fds \cup F, !.leak = w.leak \cup L]
  BY <1>1, <1>2 DEF PerfStarted, PerfStart, Fds
<1>6. w \in OsType
  BY DEF World
<1>7. v = [alive |-> w.alive, cls |-> w.cls, mon |-> w.mon, dirs |-> w.dirs,
           fds |-> w.fds \cup F, leak |-> w.leak \cup L, lk |-> w.lk]
  BY <1>5, <1>6 DEF OsType
<1>8. v \in OsType /\ SameDirs(v, w) /\ v.lk = w.lk /\ v.fds = w.fds \cup F
  BY <1>4, <1>6, <1>7 DEF OsType, SameDirs
<1>9. World(v)
  BY <1>8 DEF World, TagsIn, SameDirs
<1> QED
  BY <1>2, <1>8, <1>9

\* The targets S of w are in directories of the name n.
TaggedAs(v, w, S, n) ==
  /\ World(v) /\ SameRest(v, w)
  /\ \A m \in Names(v) : m \in Names(w) \/ m = n
  /\ DirsOf(w, S, n) \subseteq w.dirs => v.dirs = w.dirs
  /\ \A x \in S : v.mon[x] = n
  /\ \A x \in Target \ S : v.mon[x] = w.mon[x]

LEMMA TaggedIs ==
  ASSUME NEW w, World(w), NEW S \in SUBSET Target, NEW n \in Name, NEW v, v = Tagged(w, S, n)
  PROVE  TaggedAs(v, w, S, n)
<1>0. w \in OsType /\ TagsIn(w)
  BY DEF World
<1>1. PICK ds : ds = DirsOf(w, S, n)
  OBVIOUS
<1>2. ds \subseteq Class \X Name /\ \A d \in ds : d[2] = n
  BY <1>0, <1>1 DEF DirsOf, OsType
<1>a. PICK f : f = [x \in Target |-> IF x \in S THEN n ELSE w.mon[x]]
  OBVIOUS
<1>b. f \in [Target -> Nat]
  BY <1>0, <1>a DEF OsType, Name
<1>3. v = [alive |-> w.alive, cls |-> w.cls, mon |-> f, dirs |-> w.dirs \cup ds, fds |-> w.fds,
           leak |-> w.leak, lk |-> w.lk]
  BY <1>0, <1>1, <1>a DEF Tagged, OsType
<1>c. v \in OsType /\ SameRest(v, w) /\ v.cls = w.cls /\ v.dirs = w.dirs \cup ds /\ v.mon = f
  BY <1>0, <1>2, <1>3, <1>b DEF OsType, SameRest
<1>4. /\ v \in OsType /\ SameRest(v, w) /\ v.cls = w.cls /\ v.dirs = w.dirs \cup ds
      /\ v.mon = [x \in Target |-> IF x \in S THEN n ELSE w.mon[x]]
  BY <1>a, <1>c
<1>5. \A x \in S : v.mon[x] = n
  BY <1>4
<1>6. \A x \in Target \ S : v.mon[x] = w.mon[x]
  BY <1>4
<1>7. \A x \in S : <<w.cls[x], n>> \in ds
  BY <1>1 DEF DirsOf
<1>8. TagsIn(v)
  BY <1>0, <1>4, <1>5, <1>6, <1>7 DEF TagsIn
<1>9. \A m \in Names(v) : m \in Names(w) \/ m = n
  BY <1>2, <1>4, NamesIs
<1> QED
  BY <1>1, <1>4, <1>5, <1>6, <1>8, <1>9 DEF World, TaggedAs

\* Whatever stops the loop of resctrl_mon_assoc_set() calls, some of the targets
\* are in directories of the name and the others where they were.
LEMMA AssocSetIs ==
  ASSUME NEW w, World(w), NEW S \in SUBSET Target, NEW n \in Name, NEW r \in AssocSet(w, S, n)
  PROVE  \E P \in SUBSET S :
           /\ r.w = Tagged(w, P, n) /\ r.ret \in {"OK", "PARAM", "BUSY"}
           /\ r.ret = "OK" => P = S
<1>1. PICK ended : ended = S \cap Gone(w)
  OBVIOUS
<1>2. \/ r = Ret(Tagged(w, S, n), "OK")
      \/ \E P \in SUBSET (S \ ended) : r = Ret(Tagged(w, P, n), "PARAM")
      \/ \E P \in SUBSET (S \ ended) : r = Ret(Tagged(w, P, n), "BUSY")
  BY <1>1, Zenon DEF AssocSet
<1>3. CASE r = Ret(Tagged(w, S, n), "OK")
  BY <1>3 DEF Ret
<1>4. ASSUME NEW P \in SUBSET (S \ ended), r = Ret(Tagged(w, P, n), "PARAM")
      PROVE  P \in SUBSET S /\ r.w = Tagged(w, P, n) /\ r.ret = "PARAM"
  BY <1>4 DEF Ret
<1>5. ASSUME NEW P \in SUBSET (S \ ended), r = Ret(Tagged(w, P, n), "BUSY")
      PROVE  P \in SUBSET S /\ r.w = Tagged(w, P, n) /\ r.ret = "BUSY"
  BY <1>5 DEF Ret
<1> QED
  BY <1>2, <1>3, <1>4, <1>5

\* A name for group g that resctrl_mon_assign() may choose: its own, a new one,
\* or one whose cores are on other caches.
Chosen(n, w, g) ==
  /\ n \in Name
  /\ g.name # None => n = g.name
  /\ g.name = None => n = next \/ n \in Names(w)
  /\ g.name = None /\ g.tids = {} /\ g.cores # {} /\ (\A k \in Core : L3id[k] < 32) =>
       \/ n = next
       \/ \A k \in Core, m \in g.cores : w.mon[k] = n => L3id[k] # L3id[m]

LEMMA AssignIs ==
  ASSUME NEW w, World(w), next \in Name, NEW g \in GroupType, NEW quiet, NEW unread,
         NEW n \in Assign(w, g, quiet, unread), n # None
  PROVE  Chosen(n, w, g)
<1> USE DEF Chosen
<1>a. g.name \in Nat /\ g.cores \subseteq Core /\ w \in OsType
  BY DEF GroupType, World
<1>b. \A m \in Names(w) : m \in Name
  BY <1>a, NamesIs, DirIs
<1>1. CASE g.name # None \/ g.tids # {} \/ g.cores = {} \/ \E k \in g.cores : L3id[k] > 63
  <2>1. n = IF g.name # None THEN g.name ELSE next
    BY <1>1 DEF Assign
  <2>2. ~ \E k \in g.cores : L3id[k] > 63 /\ L3id[k] < 32
    BY <1>a, PlatformAssumption
  <2> QED
    BY <1>1, <1>a, <2>1 DEF Name
<1>2. CASE ~(g.name # None \/ g.tids # {} \/ g.cores = {} \/ \E k \in g.cores : L3id[k] > 63)
  <2>1. n = next \/ n \in Reusable(w, g, quiet)
    BY <1>2 DEF Assign
  <2>2. Reusable(w, g, quiet) \subseteq Names(w)
    BY DEF Reusable
  <2>3. ASSUME n \in Reusable(w, g, quiet), \A k \in Core : L3id[k] < 32,
               NEW k \in Core, NEW m \in g.cores, w.mon[k] = n, L3id[k] = L3id[m]
        PROVE  FALSE
    <3>1. n \in Names(w) /\ Parse(w)[n] \cap L3Bits(g.cores) = {}
      BY <2>3 DEF Reusable
    <3>2. Parse(w)[n] = {L3id[j] : j \in {j \in Core : w.mon[j] = n}}
      BY <3>1 DEF Parse
    <3>3. L3id[k] \in Parse(w)[n]
      BY <2>3, <3>2
    <3>4. L3id[m] \in 0 .. 31
      BY <2>3, <1>a, PlatformAssumption
    <3>5. L3id[m] \in L3Bits(g.cores)
      BY <3>4 DEF L3Bits
    <3> QED
      BY <2>3, <3>1, <3>3, <3>5
  <2> QED
    BY <1>2, <1>b, <2>1, <2>2, <2>3
<1> QED
  BY <1>1, <1>2

LEMMA ResctrlStartIs ==
  ASSUME NEW w, World(w), NEW g \in GroupType, g.name # None, NEW r \in ResctrlStart(w, g)
  PROVE  \E P \in SUBSET Watched(g) : \E v :
           /\ v = Tagged(w, P, g.name) /\ r.ret \in {"OK", "PARAM", "BUSY"}
           /\ r.ret = "OK" => P = Watched(g)
           /\ r.ret = "OK" \/ g.pids = {} => r.w = v /\ r.g = g
           /\ ~(r.ret = "OK" \/ g.pids = {}) =>
                r.w = Delete(v, g.name) /\ r.g = [g EXCEPT !.name = None]
<1>1. PICK a \in AssocSet(w, Watched(g), g.name) :
        r = IF a.ret # "OK" /\ g.pids # {}
            THEN [w |-> Delete(a.w, g.name), ret |-> a.ret, g |-> [g EXCEPT !.name = None]]
            ELSE [w |-> a.w, ret |-> a.ret, g |-> g]
  BY DEF ResctrlStart
<1>2. Watched(g) \in SUBSET Target /\ g.name \in Name
  BY WatchedIn DEF GroupType, Name
<1>3. PICK P \in SUBSET Watched(g) :
        /\ a.w = Tagged(w, P, g.name) /\ a.ret \in {"OK", "PARAM", "BUSY"}
        /\ a.ret = "OK" => P = Watched(g)
  BY <1>1, <1>2, AssocSetIs
<1>4. CASE a.ret # "OK" /\ g.pids # {}
  <2>1. r.w = Delete(a.w, g.name) /\ r.ret = a.ret /\ r.g = [g EXCEPT !.name = None]
    BY <1>1, <1>4
  <2> QED
    BY <1>3, <1>4, <2>1
<1>5. CASE ~(a.ret # "OK" /\ g.pids # {})
  <2>1. r.w = a.w /\ r.ret = a.ret /\ r.g = g
    BY <1>1, <1>5
  <2> QED
    BY <1>3, <1>5, <2>1
<1> QED
  BY <1>4, <1>5

LEMMA LockIs ==
  ASSUME NEW w, World(w), NEW r, r = Lock(w)
  PROVE  /\ World(r.w) /\ SameDirs(r.w, w) /\ r.w.fds = w.fds
         /\ r.ret = "OK" => r.w = w /\ w.lk = 0
<1>1. w \in OsType
  BY DEF World
<1>2. CASE w.lk > 0
  <2>1. w.lk - 1 \in 0 .. 2 /\ r.w = [w EXCEPT !.lk = w.lk - 1] /\ r.ret = "ERROR"
    BY <1>1, <1>2 DEF Lock, Ret, OsType
  <2> QED
    BY <1>1, <2>1, WithLk DEF World, TagsIn, SameDirs
<1>3. CASE ~(w.lk > 0)
  <2>1. r.w = w /\ w.lk = 0
    BY <1>1, <1>3 DEF Lock, Ret, OsType
  <2> QED
    BY <2>1 DEF SameDirs
<1> QED
  BY <1>2, <1>3

\* What os_mon_start_events() leaves of the call's arguments ...
SameGroup(a, g) ==
  a.on = g.on /\ a.cores = g.cores /\ a.pids = g.pids /\ a.tids = g.tids /\ a.ev = g.ev

\* ... of the system when it fails: less than before ...
Undone(v, w) ==
  /\ World(v) /\ v.fds \subseteq w.fds /\ Names(v) \subseteq Names(w)
  /\ \A k \in Core : v.mon[k] \in {w.mon[k], None}

\* ... and when it succeeds: all that is watched is counted.
Counted(v, w, h, g, a) ==
  /\ World(v) /\ v.fds = w.fds \cup Fds(h, Watched(g), a.perf)
  /\ a.perf = {e \in Expanded(g.ev) : Serves(e) = "perf"}
  /\ a.resctrl = {e \in Expanded(g.ev) : Serves(e) = "resctrl"}
  /\ a.resctrl = {} => SameDirs(v, w) /\ a.name = g.name
  /\ a.resctrl # {} =>
       /\ a.name # None
       /\ \A m \in Names(v) : m \in Names(w) \/ m = a.name
       /\ \A x \in Watched(g) : v.mon[x] = a.name
       /\ \A x \in Target \ Watched(g) : v.mon[x] = w.mon[x]

\* A core of another group is where it was.
OthersStay(v, w, g) ==
  g.pids = {} => \A k \in Core \ g.cores : v.mon[k] = w.mon[k]

LEMMA SameDirsNames ==
  ASSUME NEW v, NEW w, SameDirs(v, w)
  PROVE  Names(v) = Names(w)
  BY DEF SameDirs, Names

LEMMA ShrunkNames ==
  ASSUME NEW v, NEW w, Shrunk(v, w)
  PROVE  Names(v) \subseteq Names(w)
  BY NamesIs DEF Shrunk

\* A start that fails before resctrl_mon_start() gives its descriptors back.
LEMMA FailedEarly ==
  ASSUME NEW w, NEW u, World(u), SameDirs(u, w), NEW h \in Handle, NEW g \in GroupType,
         NEW b \in GroupType, SameGroup(b, g),
         u.fds = w.fds \cup Fds(h, Watched(g), b.perf),
         NEW ret, NEW n, NEW res, res = Failed(u, h, ret, b, n)
  PROVE  Undone(res.w, w) /\ OthersStay(res.w, w, g) /\ res.g = b /\ res.ret = ret /\ res.n = n
<1>1. PICK s : s = StopEvents(u, h, b, Tasks)
  OBVIOUS
<1>2. res.w = s.w /\ res.g = b /\ res.ret = ret /\ res.n = n
  BY <1>1 DEF Failed, Outcome
<1>3. Watched(b) = Watched(g)
  BY DEF Watched, SameGroup
<1>4. PICK F : F = Fds(h, Watched(g), b.perf)
  OBVIOUS
<1>5. /\ World(s.w) /\ Shrunk(s.w, u) /\ s.w.fds = u.fds \ F
      /\ b.pids = {} => \A k \in Core \ b.cores : s.w.mon[k] = u.mon[k]
  <2>1. Stopped(s, u, h, b)
    BY <1>1, StopEventsIs
  <2> QED
    BY <1>3, <1>4, <2>1 DEF Stopped
<1>6. s.w.fds \subseteq w.fds
  BY <1>4, <1>5
<1>7. Names(s.w) \subseteq Names(w)
  BY <1>5, ShrunkNames, SameDirsNames
<1>8. \A k \in Core : s.w.mon[k] \in {w.mon[k], None}
  BY <1>5 DEF Shrunk, SameDirs
<1>9. OthersStay(s.w, w, g)
  BY <1>5 DEF OthersStay, SameGroup, SameDirs
<1> QED
  BY <1>2, <1>5, <1>6, <1>7, <1>8, <1>9 DEF Undone

\* A start that fails in resctrl_mon_start() takes back the tags it has given.
LEMMA FailedLate ==
  ASSUME NEW w, NEW u, World(u), SameDirs(u, w), u.lk = 0, NEW h \in Handle, NEW g \in GroupType,
         g.pids # {} => g.cores = {},
         NEW b \in GroupType, SameGroup(b, g), b.resctrl # {}, NEW m \in Name, b.name = m,
         u.fds = w.fds \cup Fds(h, Watched(g), b.perf),
         NEW r \in ResctrlStart(u, b), r.ret # "OK",
         NEW n, NEW res, res = Failed(r.w, h, r.ret, r.g, n)
  PROVE  /\ Undone(res.w, w) /\ OthersStay(res.w, w, g)
         /\ res.g \in GroupType /\ SameGroup(res.g, g) /\ res.ret \in {"PARAM", "BUSY"} /\ res.n = n
<1>1. PICK P \in SUBSET Watched(b) : \E v :
        /\ v = Tagged(u, P, m) /\ r.ret \in {"OK", "PARAM", "BUSY"}
        /\ b.pids = {} => r.w = v /\ r.g = b
        /\ ~(b.pids = {}) => r.w = Delete(v, m) /\ r.g = [b EXCEPT !.name = None]
  <2>1. b.name # None
    BY DEF Name
  <2> QED
    BY <2>1, ResctrlStartIs
<1>2. PICK v :
        /\ v = Tagged(u, P, m) /\ r.ret \in {"PARAM", "BUSY"}
        /\ b.pids = {} => r.w = v /\ r.g = b
        /\ ~(b.pids = {}) => r.w = Delete(v, m) /\ r.g = [b EXCEPT !.name = None]
  BY <1>1
<1>3. Watched(b) \in SUBSET Target /\ P \in SUBSET Target
  BY <1>1, WatchedIn DEF GroupType, Name
<1>4. /\ World(v) /\ SameRest(v, u)
      /\ \A l \in Names(v) : l \in Names(u) \/ l = m
      /\ \A x \in P : v.mon[x] = m
      /\ \A x \in Target \ P : v.mon[x] = u.mon[x]
  <2>1. TaggedAs(v, u, P, m)
    BY <1>2, <1>3, TaggedIs
  <2> QED
    BY <2>1 DEF TaggedAs
<1>5. /\ Watched(b) = Watched(g) /\ b.pids = g.pids /\ b.cores = g.cores
      /\ g.cores \subseteq Core /\ g.tids \subseteq Tasks
      /\ Core \cap Tasks = {} /\ Core \subseteq Target
  BY PlatformAssumption DEF SameGroup, Watched, GroupType, Target
<1>6. P \cap Core \subseteq g.cores
  BY <1>1, <1>5 DEF Watched
<1>7. PICK s : s = StopEvents(r.w, h, r.g, Tasks)
  OBVIOUS
<1>8. res.w = s.w /\ res.g = r.g /\ res.ret \in {"PARAM", "BUSY"} /\ res.n = n
  BY <1>2, <1>7 DEF Failed, Outcome
<1>9. PICK F : F = Fds(h, Watched(g), b.perf)
  OBVIOUS
<1>10. u.mon = w.mon /\ Names(u) = Names(w)
  BY SameDirsNames DEF SameDirs
<1>11. CASE g.pids = {}
  <2>1. r.w = v /\ r.g = b
    BY <1>2, <1>5, <1>11
  <2>2. /\ World(s.w) /\ Shrunk(s.w, v) /\ s.w.fds = v.fds \ F
        /\ \A k \in Core \ b.cores : s.w.mon[k] = v.mon[k]
        /\ \A x \in b.cores : s.w.mon[x] # m
        /\ m \in Names(s.w) => \E k \in Core \ b.cores : v.mon[k] = m
    <3>1. v.lk = 0
      BY <1>4 DEF SameRest
    <3>2. Stopped(s, v, h, b)
      BY <1>4, <1>7, <2>1, StopEventsIs
    <3> QED
      BY <1>5, <1>9, <1>11, <3>1, <3>2 DEF Stopped, Name
  <2>3. s.w.fds \subseteq w.fds
    BY <1>4, <1>9, <2>2 DEF SameRest
  <2>4. \A k \in Core \ g.cores : v.mon[k] = w.mon[k]
    BY <1>4, <1>5, <1>6, <1>10
  <2>5. m \in Names(s.w) => m \in Names(w)
    <3>1. SUFFICES ASSUME NEW k \in Core \ g.cores, v.mon[k] = m
                   PROVE  m \in Names(w)
      BY <1>5, <2>2
    <3>2. u.mon[k] = m
      BY <1>10, <2>4, <3>1
    <3> QED
      <4>1. k \in Target /\ u.mon[k] # None
        BY <1>5, <3>2 DEF Name
      <4> QED
        BY <1>10, <3>2, <4>1, TagNamed
  <2>6. Names(s.w) \subseteq Names(w)
    BY <1>4, <1>10, <2>2, <2>5, ShrunkNames
  <2>7. ASSUME NEW k \in Core
        PROVE  s.w.mon[k] \in {w.mon[k], None}
    <3>1. s.w.mon[k] \in {v.mon[k], None}
      BY <2>2 DEF Shrunk
    <3>2. CASE k \in P
      BY <1>4, <1>5, <1>6, <2>2, <3>1, <3>2
    <3>3. CASE k \notin P
      BY <1>4, <1>5, <1>10, <3>1, <3>3
    <3> QED
      BY <3>2, <3>3
  <2>8. OthersStay(s.w, w, g)
    BY <1>5, <2>2, <2>4 DEF OthersStay
  <2> QED
    BY <1>8, <2>1, <2>2, <2>3, <2>6, <2>7, <2>8 DEF Undone
<1>12. CASE g.pids # {}
  <2>1. r.w = Delete(v, m) /\ r.g = [b EXCEPT !.name = None] /\ g.cores = {}
    BY <1>2, <1>5, <1>12
  <2>2. r.g \in GroupType /\ SameGroup(r.g, g) /\ r.g.perf = b.perf
    BY <2>1 DEF GroupType, SameGroup, None
  <2>3. /\ World(r.w) /\ SameRest(r.w, v) /\ Shrunk(r.w, v) /\ m \notin Names(r.w)
    BY <1>3, <1>4, <2>1, DeleteIs
  <2>4. Watched(r.g) = Watched(g)
    BY <2>2 DEF Watched, SameGroup
  <2>5. World(s.w) /\ Shrunk(s.w, r.w) /\ s.w.fds = r.w.fds \ F
    <3>1. Stopped(s, r.w, h, r.g)
      BY <1>7, <2>2, <2>3, StopEventsIs
    <3> QED
      BY <1>9, <2>2, <2>4, <3>1 DEF Stopped
  <2>6. s.w.fds \subseteq w.fds
    BY <1>4, <1>9, <2>3, <2>5 DEF SameRest
  <2>7. Names(s.w) \subseteq Names(w)
    BY <1>4, <1>10, <2>3, <2>5, ShrunkNames
  <2>8. \A k \in Core : v.mon[k] = w.mon[k]
    BY <1>4, <1>5, <1>6, <1>10, <2>1
  <2>9. \A k \in Core : s.w.mon[k] \in {w.mon[k], None}
    BY <2>3, <2>5, <2>8 DEF Shrunk
  <2>10. OthersStay(s.w, w, g)
    BY <1>12 DEF OthersStay
  <2> QED
    BY <1>8, <2>2, <2>5, <2>6, <2>7, <2>9, <2>10 DEF Undone
<1> QED
  BY <1>11, <1>12

\* What os_mon_start_events() returns.
Begun(res, w, h, g) ==
  /\ res.g \in GroupType /\ SameGroup(res.g, g)
  /\ res.ret \in {"OK", "ERROR", "PARAM", "BUSY"}
  /\ OthersStay(res.w, w, g)
  /\ res.n # None => Chosen(res.n, w, g)
  /\ res.ret # "OK" => Undone(res.w, w)
  /\ res.ret = "OK" => /\ Counted(res.w, w, h, g, res.g)
                       /\ res.g.resctrl # {} => res.g.name = res.n

LEMMA StartEventsIs ==
  ASSUME NEW w, World(w), next \in Name, NEW h \in Handle, NEW g \in GroupType,
         g.pids # {} => g.cores = {}, NEW x, x.opened \subseteq Target, NEW quiet,
         NEW res \in StartEvents(w, h, g, x, quiet)
  PROVE  Begun(res, w, h, g)
<1>1. PICK u, b, k : /\ u = PerfStarted(w, h, g, x) /\ b = StartedWith(g, x) /\ k = Lock(u)
  OBVIOUS
<1>2. World(u) /\ SameDirs(u, w) /\ u.fds = w.fds \cup Fds(h, Watched(g), b.perf)
  BY <1>1, PerfStartedIs
<1>3. /\ b \in GroupType /\ SameGroup(b, g) /\ b.name = g.name
      /\ Poor(Expanded(g.ev), x) = {} =>
              /\ b.perf = {e \in Expanded(g.ev) : Serves(e) = "perf"}
              /\ b.resctrl = {e \in Expanded(g.ev) : Serves(e) = "resctrl"}
  <2>1. /\ b \in GroupType /\ b.name = g.name
        /\ b.on = g.on /\ b.cores = g.cores /\ b.pids = g.pids /\ b.tids = g.tids /\ b.ev = g.ev
        /\ Poor(Expanded(g.ev), x) = {} =>
              /\ b.perf = {e \in Expanded(g.ev) : Serves(e) = "perf"}
              /\ b.resctrl = {e \in Expanded(g.ev) : Serves(e) = "resctrl"}
    BY <1>1, StartedWithIs
  <2> QED
    BY <2>1 DEF SameGroup
<1>4. World(k.w) /\ SameDirs(k.w, u) /\ k.w.fds = u.fds /\ (k.ret = "OK" => k.w = u /\ u.lk = 0)
  BY <1>1, <1>2, LockIs
<1>5. ASSUME NEW v, World(v), SameDirs(v, u), v.fds = u.fds, res = Failed(v, h, "ERROR", b, None)
      PROVE  Begun(res, w, h, g)
  <2>1. SameDirs(v, w) /\ v.fds = w.fds \cup Fds(h, Watched(g), b.perf)
    BY <1>2, <1>5 DEF SameDirs
  <2>2. /\ Undone(res.w, w) /\ OthersStay(res.w, w, g) /\ res.g = b /\ res.ret = "ERROR"
        /\ res.n = None
    BY <1>3, <1>5, <2>1, FailedEarly
  <2> QED
    BY <1>3, <2>2 DEF Begun
<1>6. CASE Poor(Expanded(g.ev), x) # {}
  <2>1. res = Failed(u, h, "ERROR", b, None)
    BY <1>1, <1>6 DEF StartEvents
  <2> QED
    BY <1>2, <1>5, <2>1 DEF SameDirs
<1>7. CASE Poor(Expanded(g.ev), x) = {} /\ b.resctrl = {}
  <2>1. res = Outcome(u, "OK", b, None)
    BY <1>1, <1>7 DEF StartEvents
  <2>2. res.w = u /\ res.ret = "OK" /\ res.g = b /\ res.n = None
    BY <2>1 DEF Outcome
  <2>3. OthersStay(u, w, g)
    BY <1>2 DEF OthersStay, SameDirs
  <2>4. Counted(u, w, h, g, b)
    BY <1>2, <1>3, <1>7 DEF Counted
  <2> QED
    BY <1>3, <1>7, <2>2, <2>3, <2>4 DEF Begun
<1>8. CASE Poor(Expanded(g.ev), x) = {} /\ b.resctrl # {} /\ k.ret # "OK"
  <2>1. res = Failed(k.w, h, "ERROR", b, None)
    BY <1>1, <1>8 DEF StartEvents
  <2> QED
    BY <1>4, <1>5, <2>1
<1>9. CASE Poor(Expanded(g.ev), x) = {} /\ b.resctrl # {} /\ k.ret = "OK"
  <2>1. PICK n \in Assign(u, b, quiet, x.unread) :
          res \in IF n = None THEN {Failed(u, h, "ERROR", b, None)}
                  ELSE {IF r.ret = "OK" THEN Outcome(r.w, "OK", r.g, n)
                        ELSE Failed(r.w, h, r.ret, r.g, n) :
                          r \in ResctrlStart(u, [b EXCEPT !.name = n])}
    BY <1>1, <1>9 DEF StartEvents
  <2>2. CASE n = None
    <3>1. res = Failed(u, h, "ERROR", b, None)
      BY <2>1, <2>2
    <3> QED
      BY <1>2, <1>5, <3>1 DEF SameDirs
  <2>3. CASE n # None
    <3>1. PICK c : c = [b EXCEPT !.name = n]
      OBVIOUS
    <3>2. PICK r \in ResctrlStart(u, c) :
            res = IF r.ret = "OK" THEN Outcome(r.w, "OK", r.g, n) ELSE Failed(r.w, h, r.ret, r.g, n)
      BY <2>1, <2>3, <3>1
    <3>3. Chosen(n, u, b)
      BY <1>2, <1>3, <2>1, <2>3, AssignIs
    <3>4. n \in Name
      BY <3>3 DEF Chosen
    <3>5. Chosen(n, w, g)
      <4>1. Names(u) = Names(w) /\ u.mon = w.mon
        BY <1>2, SameDirsNames DEF SameDirs
      <4> QED
        BY <1>3, <3>3, <4>1 DEF Chosen, SameGroup
    <3>6. c \in GroupType /\ SameGroup(c, g) /\ c.name = n /\ c.perf = b.perf /\ c.resctrl = b.resctrl
      BY <1>3, <3>1, <3>4 DEF GroupType, SameGroup, Name
    <3>7. CASE r.ret = "OK"
      <4>1. PICK P \in SUBSET Watched(c) : \E v :
              v = Tagged(u, P, c.name) /\ P = Watched(c) /\ r.w = v /\ r.g = c
        <5>1. c.name # None
          BY <2>3, <3>6
        <5>2. \E P \in SUBSET Watched(c) : \E v :
                /\ v = Tagged(u, P, c.name) /\ r.ret \in {"OK", "PARAM", "BUSY"}
                /\ r.ret = "OK" => P = Watched(c)
                /\ r.ret = "OK" \/ c.pids = {} => r.w = v /\ r.g = c
                /\ ~(r.ret = "OK" \/ c.pids = {}) =>
                     r.w = Delete(v, c.name) /\ r.g = [c EXCEPT !.name = None]
          BY <1>2, <3>2, <3>6, <5>1, ResctrlStartIs
        <5> QED
          BY <3>7, <5>2
      <4>2. r.w = Tagged(u, P, n) /\ P = Watched(g) /\ r.g = c
        BY <3>6, <4>1 DEF Watched, SameGroup
      <4>3. P \in SUBSET Target
        BY <4>2, WatchedIn
      <4>4. TaggedAs(r.w, u, P, n)
        BY <1>2, <3>4, <4>2, <4>3, TaggedIs
      <4>5. res.w = r.w /\ res.ret = "OK" /\ res.g = c /\ res.n = n
        BY <3>2, <3>7, <4>2 DEF Outcome
      <4>6. Names(u) = Names(w) /\ u.mon = w.mon
        BY <1>2, SameDirsNames DEF SameDirs
      <4>7. r.w.fds = w.fds \cup Fds(h, Watched(g), c.perf)
        BY <1>2, <3>6, <4>4 DEF TaggedAs, SameRest
      <4>8. Counted(r.w, w, h, g, c)
        BY <1>3, <1>9, <2>3, <3>6, <4>2, <4>4, <4>6, <4>7 DEF Counted, TaggedAs
      <4>9. OthersStay(r.w, w, g)
        <5>1. Core \cap Watched(g) \subseteq g.cores /\ Core \subseteq Target
          BY PlatformAssumption DEF Watched, GroupType, Target
        <5> QED
          BY <4>2, <4>4, <4>6, <5>1 DEF OthersStay, TaggedAs
      <4> QED
        BY <3>5, <3>6, <4>5, <4>8, <4>9 DEF Begun
    <3>8. CASE r.ret # "OK"
      <4>1. res = Failed(r.w, h, r.ret, r.g, n)
        BY <3>2, <3>8
      <4>2. u.lk = 0 /\ u.fds = w.fds \cup Fds(h, Watched(g), c.perf) /\ c.resctrl # {}
        BY <1>2, <1>4, <1>9, <3>6
      <4>3. /\ Undone(res.w, w) /\ OthersStay(res.w, w, g)
            /\ res.g \in GroupType /\ SameGroup(res.g, g) /\ res.ret \in {"PARAM", "BUSY"}
            /\ res.n = n
        BY <1>2, <3>2, <3>4, <3>6, <3>8, <4>1, <4>2, FailedLate
      <4> QED
        BY <3>5, <4>3 DEF Begun
    <3> QED
      BY <3>7, <3>8
  <2> QED
    BY <2>2, <2>3
<1> QED
  BY <1>6, <1>7, <1>8, <1>9

-----------------------------------------------------------------------------
(* Polling *)

\* Some cores of S got their tags back, and all that had lost them if r says OK.
Restored(r, w, S, n) ==
  \E P \in SUBSET S :
    /\ r.w = Tagged(w, P, n) /\ r.ret \in {"OK", "RESOURCE"}
    /\ \A k \in P : <<w.cls[k], n>> \in w.dirs
    /\ r.ret = "OK" => \A k \in S \ P : w.mon[k] # None

LEMMA AssocRestoreIs ==
  ASSUME NEW w, World(w), NEW S \in SUBSET Core, NEW n, NEW r \in AssocRestore(w, S, n)
  PROVE  Restored(r, w, S, n)
<1>1. PICK bare, stuck : /\ bare = {k \in S : AssocGet(w, k) = None}
                         /\ stuck = {k \in bare : <<w.cls[k], n>> \notin w.dirs}
  OBVIOUS
<1>2. \A k \in S : AssocGet(w, k) = w.mon[k]
  BY DEF AssocGet
<1>3. bare \in SUBSET S /\ \A k \in S \ bare : w.mon[k] # None
  BY <1>1, <1>2
<1>4. \/ stuck = {} /\ r = Ret(Tagged(w, bare, n), "OK")
      \/ \E P \in SUBSET (bare \ stuck) : r = Ret(Tagged(w, P, n), "RESOURCE")
  BY <1>1, Zenon DEF AssocRestore
<1>5. ASSUME stuck = {}, r = Ret(Tagged(w, bare, n), "OK")
      PROVE  /\ r.w = Tagged(w, bare, n) /\ r.ret = "OK"
             /\ \A k \in bare : <<w.cls[k], n>> \in w.dirs
  <2>1. r.w = Tagged(w, bare, n) /\ r.ret = "OK"
    BY <1>5 DEF Ret
  <2>2. \A k \in bare : <<w.cls[k], n>> \in w.dirs
    BY <1>1, <1>5
  <2> QED
    BY <1>3, <2>1, <2>2
<1>6. ASSUME NEW P \in SUBSET (bare \ stuck), r = Ret(Tagged(w, P, n), "RESOURCE")
      PROVE  /\ P \in SUBSET S /\ r.w = Tagged(w, P, n) /\ r.ret = "RESOURCE"
             /\ \A k \in P : <<w.cls[k], n>> \in w.dirs
  <2>1. r.w = Tagged(w, P, n) /\ r.ret = "RESOURCE"
    BY <1>6 DEF Ret
  <2>2. \A k \in P : <<w.cls[k], n>> \in w.dirs
    BY <1>1
  <2> QED
    BY <1>3, <2>1, <2>2
<1>7. ASSUME NEW P \in SUBSET S, r.w = Tagged(w, P, n), r.ret \in {"OK", "RESOURCE"},
             \A k \in P : <<w.cls[k], n>> \in w.dirs,
             r.ret = "OK" => \A k \in S \ P : w.mon[k] # None
      PROVE  Restored(r, w, S, n)
  BY <1>7 DEF Restored
<1> QED
  BY <1>3, <1>4, <1>5, <1>6, <1>7

\* resctrl_mon_purge() removes no directory that a core is in.
LEMMA PurgeIs ==
  ASSUME NEW w, World(w), NEW g, NEW full, NEW v, v = Purge(w, g, full)
  PROVE  World(v) /\ SameRest(v, w) /\ Shrunk(v, w) /\ \A k \in Core : v.mon[k] = w.mon[k]
<1>1. CASE Shared(w, g)
  <2>1. v = w
    BY <1>1 DEF Purge
  <2> QED
    BY <2>1 DEF SameRest, Shrunk
<1>2. CASE ~Shared(w, g)
  <2>1. PICK ds : ds = {d \in w.dirs : d[2] = g.name /\ Empty(w, d[1], g.name, full)}
    OBVIOUS
  <2>2. v = Removed(w, ds) /\ w \in OsType
    BY <1>2, <2>1 DEF Purge, World
  <2>3. World(v) /\ Shrunk(v, w)
    BY <2>2, RemovedWorld
  <2>4. /\ SameRest(v, w)
        /\ \A x \in Target :
              v.mon[x] = IF <<w.cls[x], w.mon[x]>> \in ds THEN None ELSE w.mon[x]
    BY <2>2, RemovedIs
  <2>5. ASSUME NEW k \in Core, <<w.cls[k], w.mon[k]>> \in ds
        PROVE  FALSE
    <3>1. w.mon[k] = g.name /\ Empty(w, w.cls[k], g.name, full)
      BY <2>1, <2>5
    <3>2. k \in CpuMask(w, w.cls[k], g.name)
      BY <3>1 DEF CpuMask
    <3> QED
      BY <3>1, <3>2 DEF Empty
  <2> QED
    BY <2>3, <2>4, <2>5 DEF Target
<1> QED
  BY <1>1, <1>2

\* What a poll leaves: cores of the group may have got their tag back.
Polled(r, w, g) ==
  /\ World(r.w) /\ r.w.fds = w.fds /\ Names(r.w) \subseteq Names(w)
  /\ r.ret \in {"OK", "RESOURCE", "ERROR"}
  /\ \A k \in Core \ g.cores : r.w.mon[k] = w.mon[k]
  /\ \A k \in g.cores : r.w.mon[k] \in {w.mon[k], g.name}
  /\ r.ret = "OK" /\ g.resctrl # {} => \A k \in g.cores : r.w.mon[k] # None

LEMMA ResctrlPollIs ==
  ASSUME NEW w, World(w), NEW g \in GroupType, g.name # None, NEW full,
         NEW r \in ResctrlPoll(w, g, full)
  PROVE  Polled(r, w, g)
<1>1. PICK a \in AssocRestore(w, g.cores, g.name) :
        r = IF a.ret = "OK" THEN Ret(Purge(a.w, g, full), "OK") ELSE a
  BY DEF ResctrlPoll
<1>2. g.cores \in SUBSET Core /\ Core \subseteq Target
  BY DEF GroupType, Target
<1>a. Restored(a, w, g.cores, g.name)
  BY <1>1, <1>2, AssocRestoreIs
<1>3. PICK P \in SUBSET g.cores :
           /\ a.w = Tagged(w, P, g.name) /\ a.ret \in {"OK", "RESOURCE"}
           /\ \A k \in P : <<w.cls[k], g.name>> \in w.dirs
           /\ a.ret = "OK" => \A k \in g.cores \ P : w.mon[k] # None
  BY <1>a DEF Restored
<1>4. PICK n \in Name : n = g.name
  BY DEF GroupType, Name
<1>5. P \in SUBSET Target /\ a.w = Tagged(w, P, n)
  BY <1>2, <1>3, <1>4
<1>6. TaggedAs(a.w, w, P, n)
  BY <1>5, TaggedIs
<1>7. DirsOf(w, P, n) \subseteq w.dirs
  BY <1>3, <1>4 DEF DirsOf
<1>8. /\ World(a.w) /\ a.w.fds = w.fds /\ a.w.dirs = w.dirs
      /\ \A k \in Core \ g.cores : a.w.mon[k] = w.mon[k]
      /\ \A k \in g.cores : a.w.mon[k] \in {w.mon[k], g.name}
      /\ a.ret = "OK" => \A k \in g.cores : a.w.mon[k] # None
  BY <1>2, <1>3, <1>4, <1>6, <1>7 DEF TaggedAs, SameRest
<1>9. Names(a.w) = Names(w)
  BY <1>8 DEF Names
<1>10. CASE a.ret = "OK"
  <2>1. r.w = Purge(a.w, g, full) /\ r.ret = "OK"
    BY <1>1, <1>10 DEF Ret
  <2>2. World(r.w) /\ SameRest(r.w, a.w) /\ Shrunk(r.w, a.w) /\ \A k \in Core : r.w.mon[k] = a.w.mon[k]
    BY <1>8, <2>1, PurgeIs
  <2>3. Names(r.w) \subseteq Names(w)
    BY <1>9, <2>2, ShrunkNames
  <2> QED
    BY <1>2, <1>8, <1>10, <2>1, <2>2, <2>3 DEF Polled, SameRest
<1>11. CASE a.ret # "OK"
  <2>1. r = a
    BY <1>1, <1>11
  <2> QED
    BY <1>3, <1>8, <1>9, <1>11, <2>1 DEF Polled
<1> QED
  BY <1>10, <1>11

-----------------------------------------------------------------------------
(* The circumstances of a call *)

LEMMA CircumstancesAre ==
  ASSUME NEW ts, NEW x \in Circumstances(ts)
  PROVE  /\ x.opened \in SUBSET ts /\ x.dead \in SUBSET ts /\ x.lk \in 0 .. 2
         /\ x = Calm \/ moves < MaxMoves
<1>1. CASE x = Calm
  BY <1>1 DEF Calm
<1>2. CASE x \in ThreadsEnd(ts)
  <2>1. PICK d \in SUBSET ts : x = [Calm EXCEPT !.dead = d]
    BY <1>2 DEF ThreadsEnd
  <2> QED
    BY <1>2, <2>1 DEF Calm, Circumstances, Trouble
<1>3. CASE x \in LockFails
  <2>1. PICK n \in 1 .. 2 : x = [Calm EXCEPT !.lk = n]
    BY <1>3 DEF LockFails
  <2> QED
    BY <1>3, <2>1 DEF Calm, Circumstances, Trouble
<1>4. CASE x \in PerfFails(ts)
  <2>1. PICK o \in SUBSET ts : \E e : x = OpenFails(e, o)
    BY <1>4 DEF PerfFails
  <2>2. PICK e : x = OpenFails(e, o)
    BY <2>1
  <2> QED
    BY <1>4, <2>2 DEF OpenFails, Calm, Circumstances, Trouble
<1>5. CASE x \in Unavailable
  <2>1. PICK u : x = [Calm EXCEPT !.unread = u]
    BY <1>5 DEF Unavailable
  <2> QED
    BY <1>5, <2>1 DEF Calm, Circumstances, Trouble
<1> QED
  BY <1>1, <1>2, <1>3, <1>4, <1>5 DEF Circumstances, Trouble

LEMMA StopCircumstancesAre ==
  ASSUME NEW ts, NEW x \in StopCircumstances(ts)
  PROVE  x.dead \in SUBSET ts /\ x.lk \in 0 .. 2 /\ (x = Calm \/ moves < MaxMoves)
<1>1. CASE x = Calm
  BY <1>1 DEF Calm
<1>2. CASE x \in ThreadsEnd(ts)
  <2>1. PICK d \in SUBSET ts : x = [Calm EXCEPT !.dead = d]
    BY <1>2 DEF ThreadsEnd
  <2> QED
    BY <1>2, <2>1 DEF Calm, StopCircumstances
<1>3. CASE x \in LockFails
  <2>1. PICK n \in 1 .. 2 : x = [Calm EXCEPT !.lk = n]
    BY <1>3 DEF LockFails
  <2> QED
    BY <1>3, <2>1 DEF Calm, StopCircumstances
<1>4. CASE x \in Interrupts(ts) /\ x # Calm
  <2>1. PICK y \in ThreadsEnd(ts) : \E b : x = [y EXCEPT !.back = b]
    BY <1>4 DEF Interrupts
  <2>2. PICK d \in SUBSET ts : y = [Calm EXCEPT !.dead = d]
    BY <2>1 DEF ThreadsEnd
  <2>3. PICK b : x = [y EXCEPT !.back = b]
    BY <2>1
  <2>4. moves < MaxMoves
    BY <1>4 DEF StopCircumstances
  <2> QED
    BY <2>2, <2>3, <2>4 DEF Calm
<1> QED
  BY <1>1, <1>2, <1>3, <1>4 DEF StopCircumstances

\* The system a call begins with: threads may have ended since.
Ready(w) ==
  /\ World(w) /\ w.dirs = os.dirs /\ w.fds = os.fds
  /\ \A k \in Core : w.mon[k] = os.mon[k]

LEMMA ReadyLk ==
  ASSUME World(os), NEW i \in 0 .. 2, NEW w, w = [os EXCEPT !.lk = i]
  PROVE  Ready(w)
  BY WithLk DEF Ready, World, TagsIn

LEMMA ReadyEnded ==
  ASSUME NEW v, Ready(v), NEW dead \in SUBSET Tasks, NEW w, w = Ended(v, dead)
  PROVE  Ready(w)
<1>1. v \in OsType
  BY DEF Ready, World
<1>2. /\ w \in OsType /\ w.dirs = v.dirs /\ w.cls = v.cls /\ w.fds = v.fds
      /\ \A x \in Target : w.mon[x] = IF x \in dead THEN None ELSE v.mon[x]
  BY <1>1, EndedIs
<1>3. \A k \in Core : k \notin dead /\ k \in Target
  BY PlatformAssumption DEF Target
<1> QED
  BY <1>2, <1>3 DEF Ready, World, TagsIn

-----------------------------------------------------------------------------
(* Steps *)

LEMMA NamesOf ==
  ASSUME NEW v, NEW w, Names(v) \subseteq Names(w), NEW n, \A d \in w.dirs : d[2] < n
  PROVE  \A d \in v.dirs : d[2] < n
<1>1. \A d \in v.dirs : d[2] \in Names(w)
  BY DEF Names
<1> QED
  BY <1>1 DEF Names

\* A step that leaves the groups alone and only takes tags from cores, or gives
\* them back to the cores of a group.
LEMMA KeepStep ==
  ASSUME Owned, grp' = grp, orphan \subseteq orphan', orphan' \subseteq Name,
         next' \in Name, next <= next',
         World(os'), os'.fds \subseteq os.fds, Names(os') \subseteq Names(os),
         \A k \in Core : \/ os'.mon[k] \in {os.mon[k], None}
                         \/ \E h \in Actives : k \in grp[h].cores /\ os'.mon[k] = grp[h].name
  PROVE  Owned'
<1>1. Actives' = Actives
  BY DEF Actives
<1>2. next \in Nat /\ next' \in Nat
  BY DEF Owned, Name
<1>3. \A h \in Actives : GroupOK(grp[h])'
  <2>1. \A h \in Actives : grp[h].name \in Nat
    BY DEF Owned, Actives, GroupType
  <2> QED
    BY <1>2, <2>1 DEF Owned, GroupOK
<1>4. \A d \in os'.dirs : d[2] < next'
  <2>1. \A d \in os'.dirs : d[2] < next /\ d[2] \in Nat
    <3>1. \A d \in os'.dirs : d[2] < next
      BY NamesOf DEF Owned, NamesUsed
    <3>2. os' \in OsType
      BY DEF World
    <3> QED
      BY <3>1, <3>2, DirIs DEF Name
  <2> QED
    BY <1>2, <2>1
<1>5. TagsOwned'
  <2>1. SUFFICES ASSUME NEW k \in Core, os'.mon[k] # None
                 PROVE  \/ os'.mon[k] \in orphan'
                        \/ \E h \in Actives : grp[h].name = os'.mon[k] /\ k \in grp[h].cores
    BY <1>1 DEF TagsOwned
  <2> QED
    BY <2>1 DEF Owned, TagsOwned
<1>6. LeftOnlyOnError'
  <2>1. Names(os') \subseteq {grp[h].name : h \in Actives} \cup orphan'
    BY DEF Owned, LeftOnlyOnError
  <2> QED
    BY <1>1, <2>1 DEF LeftOnlyOnError
<1>7. DescriptorsOwned'
  BY <1>1 DEF Owned, DescriptorsOwned
<1> QED
  BY <1>1, <1>3, <1>4, <1>5, <1>6, <1>7 DEF Owned, NamesUsed

\* A step that only takes.
LEMMA TakeStep ==
  ASSUME Owned, grp' = grp, orphan \subseteq orphan', orphan' \subseteq Name,
         next' \in Name, next <= next', Undone(os', os)
  PROVE  Owned'
  BY KeepStep DEF Undone

\* The system after a call.
LEMMA DoneIs ==
  ASSUME NEW w, World(w), NEW v, v = Done(w)
  PROVE  World(v) /\ SameDirs(v, w) /\ v.fds = w.fds
  BY WithLk DEF Done, World, TagsIn, SameDirs

\* A process dies.
LEMMA DiesStep ==
  ASSUME Owned, NEW p, NEW w, Undone(w, os), Dies(p, w), next' \in Name, next <= next'
  PROVE  Owned'
<1>1. PICK v : v = Dead(w, p)
  OBVIOUS
<1>2. os' = v /\ w \in OsType /\ TagsIn(w)
  BY <1>1 DEF Dies, Undone, World
<1>3. /\ v \in OsType /\ v.cls = w.cls /\ v.mon = w.mon
      /\ v.dirs = w.dirs /\ v.fds = {d \in w.fds : Owner[d[1]] # p}
  BY <1>1, <1>2, DeadIs
<1>4. World(os') /\ Names(os') \subseteq Names(os)
  BY <1>2, <1>3 DEF World, TagsIn, Undone, Names
<1>5. /\ grp \in [Handle -> GroupType] /\ Actives = {h \in Handle : grp[h].on}
      /\ grp' = [h \in Handle |-> IF Owner[h] = p THEN Idle ELSE grp[h]]
      /\ orphan' = orphan \cup ({grp[h].name : h \in {h \in Handle : Owner[h] = p}} \ {None})
  BY DEF Owned, Dies, Actives
<1>6. Idle \in GroupType /\ Idle.on = FALSE
  BY DEF Idle, GroupType, None
<1>7. /\ grp' \in [Handle -> GroupType]
      /\ Actives' = {h \in Actives : Owner[h] # p}
      /\ \A h \in Actives' : grp'[h] = grp[h]
  BY <1>5, <1>6 DEF Actives
<1>8. orphan' \subseteq Name
  BY <1>5 DEF Owned, GroupType, Name
<1>9. \A h \in Actives : h \in Actives' \/ grp[h].name = None \/ grp[h].name \in orphan'
  BY <1>5, <1>7 DEF Actives
<1>10. next \in Nat /\ next' \in Nat
  BY DEF Owned, Name
<1>11. \A h \in Actives' : GroupOK(grp[h])'
  <2>1. \A h \in Actives' : grp[h].name \in Nat /\ h \in Actives /\ grp'[h] = grp[h]
    BY <1>5, <1>7 DEF GroupType
  <2> QED
    BY <1>10, <2>1 DEF Owned, GroupOK
<1>12. \A d \in os'.dirs : d[2] < next'
  <2>1. \A d \in os'.dirs : d[2] < next
    BY <1>4, NamesOf DEF Owned, NamesUsed
  <2>2. \A d \in os'.dirs : d[2] \in Nat
    BY <1>2, <1>3, DirIs DEF Name
  <2> QED
    BY <1>10, <2>1, <2>2
<1>13. TagsOwned'
  <2>1. SUFFICES ASSUME NEW k \in Core, os'.mon[k] # None
                 PROVE  \/ os'.mon[k] \in orphan'
                        \/ \E h \in Actives' : grp'[h].name = os'.mon[k] /\ k \in grp'[h].cores
    BY DEF TagsOwned
  <2>2. os'.mon[k] = os.mon[k]
    BY <1>2, <1>3, <2>1 DEF Undone
  <2>3. CASE os.mon[k] \in orphan
    BY <1>5, <2>2, <2>3
  <2>4. ASSUME NEW h \in Actives, grp[h].name = os.mon[k], k \in grp[h].cores
        PROVE  \/ os'.mon[k] \in orphan'
               \/ \E j \in Actives' : grp'[j].name = os'.mon[k] /\ k \in grp'[j].cores
    BY <1>7, <1>9, <2>1, <2>2, <2>4
  <2> QED
    BY <2>1, <2>2, <2>3, <2>4 DEF Owned, TagsOwned
<1>14. LeftOnlyOnError'
  <2>1. SUFFICES ASSUME NEW n \in Names(os')
                 PROVE  n \in {grp'[h].name : h \in Actives'} \cup orphan'
    BY DEF LeftOnlyOnError
  <2>2. n \in Name
    BY <1>2, <1>3, <2>1, NamesIs, DirIs
  <2>3. n \in {grp[h].name : h \in Actives} \cup orphan
    BY <1>4, <2>1 DEF Owned, LeftOnlyOnError
  <2>4. CASE n \in orphan
    BY <1>5, <2>4
  <2>5. ASSUME NEW h \in Actives, n = grp[h].name
        PROVE  n \in {grp'[j].name : j \in Actives'} \cup orphan'
    BY <1>7, <1>9, <2>2, <2>5 DEF Name
  <2> QED
    BY <2>3, <2>4, <2>5
<1>15. DescriptorsOwned'
  <2>1. SUFFICES ASSUME NEW d \in os'.fds
                 PROVE  /\ d[1] \in Actives' /\ d[2] \in Watched(grp'[d[1]])
                        /\ d[3] \in grp'[d[1]].perf
    BY DEF DescriptorsOwned, Watched
  <2>2. d \in os.fds /\ Owner[d[1]] # p
    BY <1>2, <1>3, <2>1 DEF Undone
  <2> QED
    BY <1>7, <2>2 DEF Owned, DescriptorsOwned
<1> QED
  BY <1>4, <1>7, <1>8, <1>11, <1>12, <1>13, <1>14, <1>15 DEF Owned, NamesUsed

\* The groups when one of them is changed or begins.
LEMMA Changed ==
  ASSUME grp \in [Handle -> GroupType], NEW h \in Handle, NEW g \in GroupType, g.on = TRUE,
         grp' = [grp EXCEPT ![h] = g]
  PROVE  /\ grp' \in [Handle -> GroupType] /\ grp'[h] = g
         /\ Actives' = Actives \cup {h}
         /\ \A j \in Actives \ {h} : grp'[j] = grp[j]
  BY DEF Actives

\* A group that begins: what is asked for is as a call of the API asks.
Fresh(g) ==
  /\ g \in GroupType /\ g.name = None
  /\ g.pids # {} => g.cores = {}
  /\ g.pids = {} => g.tids = {}

LEMMA UndoneReady ==
  ASSUME NEW w, Ready(w), NEW v, Undone(v, w), NEW u, World(u), SameDirs(u, v), u.fds = v.fds
  PROVE  Undone(u, os)
<1>1. Names(u) = Names(v) /\ Names(w) = Names(os)
  BY DEF SameDirs, Ready, Names
<1> QED
  BY <1>1 DEF Undone, Ready, SameDirs

LEMMA NewName ==
  ASSUME Owned, NEW w, Ready(w), NEW n, Chosen(n, w, Idle)
  PROVE  n = next \/ n < next
<1>1. Names(w) = Names(os)
  BY DEF Ready, Names
<1>2. \A m \in Names(os) : m < next
  BY NamesIs DEF Owned, NamesUsed
<1> QED
  BY <1>1, <1>2 DEF Chosen, Idle

LEMMA StartedStep ==
  ASSUME Owned, NEW h \in Handle, ~grp[h].on, NEW g, Fresh(g), NEW w, Ready(w),
         NEW res, Begun(res, w, h, g), NEW x, Started(h, res, x)
  PROVE  Owned'
<1>1. next \in Nat /\ next > 0
  BY DEF Owned, Name, None
<1>2. /\ next' \in Name /\ next <= next' /\ (res.n = next => next' = next + 1)
  BY <1>1 DEF Started, Name, None
<1>3. PICK v : v = Done(res.w)
  OBVIOUS
<1>4. os' = v
  BY <1>3 DEF Started
<1>5. CASE res.ret # "OK"
  <2>1. grp' = grp /\ orphan' = orphan \cup Left(res.w, res.g)
    BY <1>5 DEF Started
  <2>2. Undone(res.w, w) /\ World(res.w) /\ res.g \in GroupType
    BY <1>5 DEF Begun, Undone
  <2>3. World(v) /\ SameDirs(v, res.w) /\ v.fds = res.w.fds
    BY <1>3, <2>2, DoneIs
  <2>4. Undone(os', os)
    BY <1>4, <2>2, <2>3, UndoneReady
  <2>5. orphan' \subseteq Name
    BY <2>1, <2>2 DEF Owned, Left, GroupType, Name
  <2> QED
    BY <1>2, <2>1, <2>4, <2>5, TakeStep
<1>6. CASE res.ret = "OK"
  <2>1. PICK a : a = [res.g EXCEPT !.on = TRUE]
    OBVIOUS
  <2>2. grp' = [grp EXCEPT ![h] = a] /\ orphan' = orphan
    BY <1>6, <2>1 DEF Started
  <2>3. /\ res.g \in GroupType /\ SameGroup(res.g, g) /\ Counted(res.w, w, h, g, res.g)
        /\ res.g.resctrl # {} => res.g.name = res.n
        /\ res.n # None => Chosen(res.n, w, g)
    BY <1>6 DEF Begun
  <2>4. /\ a \in GroupType /\ a.on = TRUE /\ a.cores = g.cores /\ a.pids = g.pids
        /\ a.tids = g.tids /\ a.ev = g.ev /\ a.name = res.g.name /\ a.perf = res.g.perf
        /\ a.resctrl = res.g.resctrl
    BY <2>1, <2>3 DEF GroupType, SameGroup
  <2>5. Watched(a) = Watched(g)
    BY <2>4 DEF Watched
  <2>6. World(res.w)
    BY <2>3 DEF Counted
  <2>7. World(v) /\ SameDirs(v, res.w) /\ v.fds = res.w.fds
    BY <1>3, <2>6, DoneIs
  <2>8. grp \in [Handle -> GroupType] /\ h \notin Actives
    BY DEF Owned, Actives
  <2>9. /\ grp' \in [Handle -> GroupType] /\ grp'[h] = a
        /\ Actives' = Actives \cup {h} /\ \A j \in Actives : grp'[j] = grp[j]
    BY ZenonT(30), <2>2, <2>4, <2>8, Changed
  <2>10. a.resctrl = {} => v.mon = w.mon /\ v.dirs = w.dirs /\ a.name = None
    BY <2>3, <2>4, <2>7 DEF Counted, SameDirs, Fresh
  <2>11. a.resctrl # {} =>
           /\ a.name = res.n /\ a.name # None
           /\ \A m \in Names(v) : m \in Names(os) \/ m = a.name
           /\ \A y \in Watched(g) : v.mon[y] = a.name
           /\ \A y \in Target \ Watched(g) : v.mon[y] = w.mon[y]
    <3>1. Names(v) = Names(res.w) /\ v.mon = res.w.mon /\ Names(w) = Names(os)
      BY <2>7 DEF SameDirs, Names, Ready
    <3> QED
      BY <2>3, <2>4, <3>1 DEF Counted
  <2>12. a.name < next' /\ a.name \in Nat
    <3>1. CASE a.resctrl = {}
      BY <1>1, <1>2, <2>10, <3>1 DEF None, Name
    <3>2. CASE a.resctrl # {}
      <4>1. a.name = res.n /\ res.n # None /\ Chosen(res.n, w, g)
        BY <2>3, <2>11, <3>2
      <4>2. Chosen(res.n, w, Idle)
        BY <4>1 DEF Chosen, Idle, Fresh
      <4>3. res.n = next \/ res.n < next
        BY <4>2, NewName
      <4>4. res.n \in Nat /\ next' \in Nat
        BY <1>2, <4>1 DEF Chosen, Name
      <4> QED
        BY <1>1, <1>2, <4>1, <4>3, <4>4
    <3> QED
      BY <3>1, <3>2
  <2>13. \A j \in Actives' : GroupOK(grp[j])'
    <3>1. SUFFICES ASSUME NEW j \in Actives'
                   PROVE  GroupOK(grp[j])'
      OBVIOUS
    <3>2. CASE j = h
      BY <2>3, <2>4, <2>9, <2>10, <2>11, <2>12, <3>2 DEF GroupOK, Counted, Fresh
    <3>3. CASE j # h
      <4>1. j \in Actives /\ grp'[j] = grp[j] /\ GroupOK(grp[j]) /\ grp[j].name \in Nat
        BY <2>8, <2>9, <3>1, <3>3 DEF Owned, GroupType, Actives
      <4>2. next' \in Nat
        BY <1>2 DEF Name
      <4> QED
        BY <1>1, <1>2, <4>1, <4>2 DEF GroupOK
    <3> QED
      BY <3>2, <3>3
  <2>14. \A m \in Names(os') : m \in Names(os) \/ (m = a.name /\ m # None)
    <3>1. CASE a.resctrl = {}
      BY <1>4, <2>10, <3>1 DEF Names, Ready
    <3>2. CASE a.resctrl # {}
      BY <1>4, <2>11, <3>2
    <3> QED
      BY <3>1, <3>2
  <2>15. NamesUsed'
    <3>1. \A m \in Names(os) : m < next /\ m \in Nat
      BY NamesIs, DirIs DEF Owned, NamesUsed, World, Name
    <3>2. next' \in Nat
      BY <1>2 DEF Name
    <3>3. \A m \in Names(os') : m < next'
      BY <1>1, <1>2, <2>12, <2>14, <3>1, <3>2
    <3> QED
      BY <3>3, NamesIs DEF NamesUsed
  <2>16. TagsOwned'
    <3>1. SUFFICES ASSUME NEW k \in Core, os'.mon[k] # None
                   PROVE  \/ os'.mon[k] \in orphan'
                          \/ \E j \in Actives' : grp'[j].name = os'.mon[k] /\ k \in grp'[j].cores
      BY DEF TagsOwned
    <3>2. Core \cap Watched(g) \subseteq g.cores /\ Core \subseteq Target
      BY PlatformAssumption DEF Watched, Fresh, GroupType, Target
    <3>3. CASE a.resctrl # {} /\ k \in Watched(g)
      <4>1. os'.mon[k] = a.name /\ k \in a.cores
        BY <1>4, <2>4, <2>11, <3>2, <3>3
      <4> QED
        BY <2>9, <4>1
    <3>4. CASE ~(a.resctrl # {} /\ k \in Watched(g))
      <4>1. os'.mon[k] = os.mon[k]
        BY <1>4, <2>10, <2>11, <3>2, <3>4 DEF Ready
      <4> QED
        BY <2>2, <2>9, <3>1, <4>1 DEF Owned, TagsOwned
    <3> QED
      BY <3>3, <3>4
  <2>17. LeftOnlyOnError'
    <3>1. SUFFICES ASSUME NEW n \in Names(os')
                   PROVE  n \in {grp'[j].name : j \in Actives'} \cup orphan'
      BY DEF LeftOnlyOnError
    <3>2. n \in Names(os) => n \in {grp[j].name : j \in Actives} \cup orphan
      BY DEF Owned, LeftOnlyOnError
    <3> QED
      BY <2>2, <2>9, <2>14, <3>1, <3>2
  <2>18. DescriptorsOwned'
    <3>1. SUFFICES ASSUME NEW d \in os'.fds
                   PROVE  /\ d[1] \in Actives' /\ d[2] \in Watched(grp'[d[1]])
                          /\ d[3] \in grp'[d[1]].perf
      BY DEF DescriptorsOwned, Watched
    <3>2. d \in os.fds \/ d \in Fds(h, Watched(g), a.perf)
      BY <1>4, <2>3, <2>4, <2>7, <3>1 DEF Counted, Ready
    <3>3. CASE d \in os.fds
      BY <2>9, <3>3 DEF Owned, DescriptorsOwned
    <3>4. CASE d \in Fds(h, Watched(g), a.perf)
      <4>1. d[1] = h /\ d[2] \in Watched(g) /\ d[3] \in a.perf
        BY <3>4 DEF Fds
      <4> QED
        BY <2>5, <2>9, <4>1
    <3> QED
      BY <3>2, <3>3, <3>4
  <2> QED
    BY <1>2, <1>4, <2>2, <2>7, <2>9, <2>13, <2>15, <2>16, <2>17, <2>18 DEF Owned
<1> QED
  BY <1>5, <1>6

LEMMA AbortedStep ==
  ASSUME Owned, NEW h \in Handle, NEW g, NEW w, Ready(w),
         NEW res, Begun(res, w, h, g), NEW x, Aborted(h, res, x)
  PROVE  Owned'
<1>1. next \in Nat /\ next' = (IF res.n = next THEN next + 1 ELSE next) /\ next \in Name
  BY DEF Aborted, Owned, Name
<1>2. next' \in Name /\ next <= next'
  BY <1>1 DEF Name, None
<1>3. Undone(res.w, w) /\ World(res.w)
  BY DEF Aborted, Begun, Undone
<1>4. Undone(res.w, os)
  BY <1>3, UndoneReady DEF SameDirs
<1> QED
  BY <1>2, <1>4, DiesStep DEF Aborted

LEMMA SameStep ==
  ASSUME Owned, UNCHANGED <<os, grp, next, orphan>>
  PROVE  Owned'
<1>1. next \in Nat
  BY DEF Owned, Name
<1>2. Undone(os', os)
  BY DEF Undone, Owned
<1> QED
  BY <1>1, <1>2, TakeStep DEF Owned

LEMMA TidsAre ==
  ASSUME World(os), NEW ps \in SUBSET Tasks
  PROVE  TidFind(os, ps) \in SUBSET Tasks /\ (ps = {} => TidFind(os, ps) = {})
  BY DEF TidFind, World, OsType

LEMMA PidsAre ==
  ASSUME NEW ps \in PidSets
  PROVE  ps \in SUBSET Tasks /\ ps # {}
  BY InputAssumption

\* os_mon_add_pids(): new threads have the name of the old ones.
LEMMA AddStep ==
  ASSUME Owned, NEW h \in Handle, os_mon_add_pids(h)
  PROVE  Owned'
<1>1. PICK ps \in PidSets :
        LET g == grp[h]
            tids == TidFind(os, ps) \ g.tids
            added == [Idle EXCEPT !.pids = ps, !.tids = tids, !.ev = g.ev, !.name = g.name]
        IN  \/ UNCHANGED <<os, grp>>
            \/ \E x \in Circumstances(tids) :
               \E res \in StartEvents(Ended([os EXCEPT !.lk = x.lk], x.dead), h, added, x, {}) :
                  /\ os' = Done(res.w)
                  /\ grp' = IF res.ret # "OK" THEN grp
                            ELSE [grp EXCEPT ![h] = [g EXCEPT !.tids = @ \cup tids, !.pids = @ \cup ps]]
  BY DEF os_mon_add_pids
<1>2. /\ h \in Actives /\ grp[h].pids # {} /\ next' = next /\ orphan' = orphan
      /\ next \in Name /\ next \in Nat /\ orphan \subseteq Name /\ World(os)
      /\ grp \in [Handle -> GroupType] /\ GroupOK(grp[h])
  BY DEF os_mon_add_pids, Owned, Actives, Name
<1>3. PICK g, tids : g = grp[h] /\ tids = TidFind(os, ps) \ g.tids
  OBVIOUS
<1>4. PICK added : added = [Idle EXCEPT !.pids = ps, !.tids = tids, !.ev = g.ev, !.name = g.name]
  OBVIOUS
<1>5. ps \in SUBSET Tasks /\ ps # {} /\ tids \in SUBSET Tasks /\ g \in GroupType /\ g.cores = {}
  BY <1>2, <1>3, PidsAre, TidsAre DEF GroupOK
<1>6. /\ added \in GroupType /\ added.pids = ps /\ added.cores = {} /\ added.tids = tids
      /\ added.name = g.name /\ added.ev = g.ev
  BY <1>4, <1>5 DEF Idle, GroupType
<1>7. CASE UNCHANGED <<os, grp>>
  BY <1>2, <1>7, SameStep
<1>8. CASE ~UNCHANGED <<os, grp>>
  <2>1. PICK x \in Circumstances(tids) :
        \E res \in StartEvents(Ended([os EXCEPT !.lk = x.lk], x.dead), h, added, x, {}) :
           /\ os' = Done(res.w)
           /\ grp' = IF res.ret # "OK" THEN grp
                     ELSE [grp EXCEPT ![h] = [g EXCEPT !.tids = @ \cup tids, !.pids = @ \cup ps]]
    BY <1>1, <1>3, <1>4, <1>8
  <2>2. PICK w0, w : w0 = [os EXCEPT !.lk = x.lk] /\ w = Ended(w0, x.dead)
    OBVIOUS
  <2>3. PICK res \in StartEvents(w, h, added, x, {}) :
           /\ os' = Done(res.w)
           /\ grp' = IF res.ret # "OK" THEN grp
                     ELSE [grp EXCEPT ![h] = [g EXCEPT !.tids = @ \cup tids, !.pids = @ \cup ps]]
    BY <2>1, <2>2
  <2>4. x.opened \in SUBSET tids /\ x.dead \in SUBSET Tasks /\ x.lk \in 0 .. 2
    BY <1>5, CircumstancesAre
  <2>5. Ready(w)
    <3>1. Ready(w0)
      BY <1>2, <2>2, <2>4, ReadyLk
    <3> QED
      BY <2>2, <2>4, <3>1, ReadyEnded
  <2>6. Begun(res, w, h, added)
    <3>1. World(w) /\ x.opened \subseteq Target
      BY <1>5, <2>4, <2>5 DEF Ready, Target
    <3> QED
      BY <1>2, <1>6, <2>3, <3>1, StartEventsIs
  <2>7. PICK v : v = Done(res.w)
    OBVIOUS
  <2>8. World(res.w)
    BY <2>6 DEF Begun, Counted, Undone
  <2>9. os' = v /\ World(v) /\ SameDirs(v, res.w) /\ v.fds = res.w.fds
    BY <2>3, <2>7, <2>8, DoneIs
  <2>10. CASE res.ret # "OK"
    <3>1. Undone(res.w, w)
      BY <2>6, <2>10 DEF Begun
    <3>2. Undone(os', os)
      BY <2>5, <2>9, <3>1, UndoneReady
    <3> QED
      BY <1>2, <2>3, <2>10, <3>2, TakeStep
  <2>11. CASE res.ret = "OK"
    <3>1. PICK a : a = [g EXCEPT !.tids = g.tids \cup tids, !.pids = g.pids \cup ps]
      OBVIOUS
    <3>2. grp' = [grp EXCEPT ![h] = a]
      BY <2>3, <2>11, <3>1
    <3>3. /\ a \in GroupType /\ a.on = g.on /\ a.cores = {} /\ a.pids = g.pids \cup ps
          /\ a.tids = g.tids \cup tids /\ a.ev = g.ev /\ a.name = g.name /\ a.perf = g.perf
          /\ a.resctrl = g.resctrl
      BY <1>5, <3>1 DEF GroupType
    <3>4. a.on = TRUE
      BY <1>2, <1>3, <3>3 DEF Actives, GroupType
    <3>5. /\ grp' \in [Handle -> GroupType] /\ grp'[h] = a
          /\ Actives' = Actives /\ \A j \in Actives \ {h} : grp'[j] = grp[j]
      <4>1. /\ grp' \in [Handle -> GroupType] /\ grp'[h] = a
            /\ Actives' = Actives \cup {h} /\ \A j \in Actives \ {h} : grp'[j] = grp[j]
        BY <1>2, <3>2, <3>3, <3>4, Changed
      <4>2. Actives \cup {h} = Actives
        BY <1>2
      <4> QED
        BY <4>1, <4>2
    <3>6. Counted(res.w, w, h, added, res.g) /\ (res.g.resctrl # {} => res.g.name = res.n)
          /\ (res.n # None => Chosen(res.n, w, added))
      BY <2>6, <2>11 DEF Begun
    <3>7. res.g.perf = g.perf /\ res.g.resctrl = g.resctrl
      BY <1>2, <1>3, <1>6, <3>6 DEF Counted, GroupOK
    <3>8. Watched(added) = tids /\ Watched(g) = g.tids /\ Watched(a) = g.tids \cup tids
      BY <1>5, <1>6, <3>3 DEF Watched
    <3>9. g.resctrl # {} => res.g.name = g.name /\ g.name # None
      BY <1>2, <1>3, <1>6, <3>6, <3>7 DEF GroupOK, Chosen, Counted
    <3>10. \A m \in Names(v) : m \in Names(os) \/ (m = g.name /\ g.name # None)
      <4>1. Names(v) = Names(res.w) /\ Names(w) = Names(os)
        BY <2>5, <2>9 DEF SameDirs, Ready, Names
      <4>2. g.resctrl = {} => Names(res.w) = Names(w)
        BY <3>6, <3>7, SameDirsNames DEF Counted
      <4> QED
        BY <3>6, <3>7, <3>9, <4>1, <4>2 DEF Counted
    <3>11. \A k \in Core : v.mon[k] = os.mon[k]
      <4>1. \A k \in Core : k \in Target /\ k \notin Watched(added)
        BY <1>5, <3>8, PlatformAssumption DEF Target
      <4> QED
        BY <2>5, <2>9, <3>6, <4>1 DEF Counted, SameDirs, Ready
    <3>12. \A j \in Actives' : GroupOK(grp[j])'
      <4>1. GroupOK(a)'
        BY <1>2, <1>3, <1>5, <3>3 DEF GroupOK
      <4>2. \A j \in Actives \ {h} : GroupOK(grp[j])'
        BY <1>2, <3>5 DEF Owned, GroupOK
      <4> QED
        BY <3>5, <4>1, <4>2
    <3>13. NamesUsed'
      <4>1. \A m \in Names(os) : m < next
        BY NamesIs DEF Owned, NamesUsed
      <4>2. g.name < next
        BY <1>2, <1>3 DEF GroupOK
      <4>3. \A m \in Names(os') : m < next'
        BY <1>2, <2>9, <3>10, <4>1, <4>2
      <4> QED
        BY <4>3, NamesIs DEF NamesUsed
    <3>14. TagsOwned'
      <4>1. SUFFICES ASSUME NEW k \in Core, os'.mon[k] # None
                     PROVE  \/ os'.mon[k] \in orphan'
                            \/ \E j \in Actives' : grp'[j].name = os'.mon[k] /\ k \in grp'[j].cores
        BY DEF TagsOwned
      <4>2. os'.mon[k] = os.mon[k]
        BY <2>9, <3>11
      <4>3. \A j \in Actives : k \in grp[j].cores => j # h /\ grp'[j] = grp[j]
        BY <1>3, <1>5, <3>5
      <4> QED
        BY <1>2, <3>5, <4>1, <4>2, <4>3 DEF Owned, TagsOwned
    <3>15. LeftOnlyOnError'
      <4>1. SUFFICES ASSUME NEW n \in Names(os')
                     PROVE  n \in {grp'[j].name : j \in Actives'} \cup orphan'
        BY DEF LeftOnlyOnError
      <4>2. n \in Names(os) => n \in {grp[j].name : j \in Actives} \cup orphan
        BY DEF Owned, LeftOnlyOnError
      <4>3. \A j \in Actives : grp'[j].name = grp[j].name
        BY <1>3, <3>3, <3>5
      <4> QED
        BY <1>2, <1>3, <2>9, <3>5, <3>10, <4>1, <4>2, <4>3
    <3>16. DescriptorsOwned'
      <4>1. SUFFICES ASSUME NEW d \in os'.fds
                     PROVE  /\ d[1] \in Actives' /\ d[2] \in Watched(grp'[d[1]])
                            /\ d[3] \in grp'[d[1]].perf
        BY DEF DescriptorsOwned, Watched
      <4>2. d \in os.fds \/ d \in Fds(h, tids, g.perf)
        BY <2>5, <2>9, <3>6, <3>7, <3>8, <4>1 DEF Counted, Ready
      <4>3. CASE d \in os.fds
        <5>1. d[1] \in Actives /\ d[2] \in Watched(grp[d[1]]) /\ d[3] \in grp[d[1]].perf
          BY <4>3 DEF Owned, DescriptorsOwned
        <5> QED
          BY <1>3, <3>3, <3>5, <3>8, <5>1
      <4>4. CASE d \in Fds(h, tids, g.perf)
        <5>1. d[1] = h /\ d[2] \in tids /\ d[3] \in g.perf
          BY <4>4 DEF Fds
        <5> QED
          BY <1>2, <3>3, <3>5, <3>8, <5>1
      <4> QED
        BY <4>2, <4>3, <4>4
    <3> QED
      BY <1>2, <2>9, <3>5, <3>12, <3>13, <3>14, <3>15, <3>16 DEF Owned
  <2> QED
    BY <2>10, <2>11
<1> QED
  BY <1>7, <1>8

\* os_mon_remove_pids(): what is closed is no longer watched.
LEMMA RemoveStep ==
  ASSUME Owned, NEW h \in Handle, os_mon_remove_pids(h)
  PROVE  Owned'
<1>1. PICK ps \in PidSets :
        LET g == grp[h]
            keep == g.pids \ ps
            stay == TidFind(os, {p \in keep : os_mon_tid_exists(p)})
        IN  \E x \in StopCircumstances(g.tids \ stay) :
              LET res == StopEvents(Ended([os EXCEPT !.lk = x.lk], x.dead), h,
                           [g EXCEPT !.pids = ps, !.tids = @ \ stay, !.name = None], x.back)
              IN  /\ os' = Done(res.w)
                  /\ grp' = IF res.ret # "OK" THEN grp
                            ELSE [grp EXCEPT ![h] = [g EXCEPT !.tids = @ \cap stay, !.pids = keep]]
  BY DEF os_mon_remove_pids
<1>2. /\ h \in Actives /\ grp[h].pids # {} /\ next' = next /\ orphan' = orphan
      /\ next \in Name /\ next \in Nat /\ orphan \subseteq Name /\ World(os)
      /\ grp \in [Handle -> GroupType] /\ GroupOK(grp[h])
  BY DEF os_mon_remove_pids, Owned, Actives, Name
<1>3. PICK g, keep, live : g = grp[h] /\ keep = g.pids \ ps /\ live = {p \in keep : os_mon_tid_exists(p)}
  OBVIOUS
<1>4. PICK stay : stay = TidFind(os, live)
  OBVIOUS
<1>5. PICK b : b = [g EXCEPT !.pids = ps, !.tids = g.tids \ stay, !.name = None]
  OBVIOUS
<1>6. PICK x \in StopCircumstances(g.tids \ stay) :
        LET res == StopEvents(Ended([os EXCEPT !.lk = x.lk], x.dead), h, b, x.back)
        IN  /\ os' = Done(res.w)
            /\ grp' = IF res.ret # "OK" THEN grp
                      ELSE [grp EXCEPT ![h] = [g EXCEPT !.tids = g.tids \cap stay, !.pids = keep]]
  BY <1>1, <1>3, <1>4, <1>5
<1>6a. PICK w0, w, r : w0 = [os EXCEPT !.lk = x.lk] /\ w = Ended(w0, x.dead) /\ r = StopEvents(w, h, b, x.back)
  OBVIOUS
<1>7. /\ os' = Done(r.w)
      /\ grp' = IF r.ret # "OK" THEN grp
                ELSE [grp EXCEPT ![h] = [g EXCEPT !.tids = g.tids \cap stay, !.pids = keep]]
  BY <1>6, <1>6a
<1>8. /\ ps \in SUBSET Tasks /\ ps # {} /\ g \in GroupType /\ g.cores = {}
      /\ keep \in SUBSET Tasks /\ live \in SUBSET keep
  BY <1>2, <1>3, PidsAre DEF GroupOK, GroupType
<1>9. stay \in SUBSET Tasks /\ (keep = {} => stay = {})
  BY <1>2, <1>4, <1>8, TidsAre
<1>10. /\ b \in GroupType /\ b.cores = {} /\ b.tids = g.tids \ stay /\ b.perf = g.perf
  BY <1>5, <1>8 DEF GroupType, None
<1>11. x.lk \in 0 .. 2 /\ x.dead \in SUBSET Tasks
  BY <1>8, StopCircumstancesAre DEF GroupType
<1>12. Ready(w)
  <2>1. Ready(w0)
    BY <1>2, <1>6a, <1>11, ReadyLk
  <2> QED
    BY <1>6a, <1>11, <2>1, ReadyEnded
<1>13. Stopped(r, w, h, b)
  BY <1>6a, <1>10, <1>12, StopEventsIs DEF Ready
<1>14. Undone(r.w, w)
  BY <1>13, ShrunkNames DEF Stopped, Undone, Shrunk
<1>15. PICK v : v = Done(r.w)
  OBVIOUS
<1>16. os' = v /\ World(v) /\ SameDirs(v, r.w) /\ v.fds = r.w.fds
  BY <1>7, <1>14, <1>15, DoneIs DEF Undone
<1>17. Undone(os', os)
  BY <1>12, <1>14, <1>16, UndoneReady
<1>18. CASE r.ret # "OK"
  BY <1>2, <1>7, <1>17, <1>18, TakeStep
<1>19. CASE r.ret = "OK"
  <2>1. PICK a : a = [g EXCEPT !.tids = g.tids \cap stay, !.pids = keep]
    OBVIOUS
  <2>2. grp' = [grp EXCEPT ![h] = a]
    BY <1>7, <1>19, <2>1
  <2>3. /\ a \in GroupType /\ a.on = g.on /\ a.cores = {} /\ a.pids = keep
        /\ a.tids = g.tids \cap stay /\ a.ev = g.ev /\ a.name = g.name /\ a.perf = g.perf
        /\ a.resctrl = g.resctrl
    BY <1>8, <2>1 DEF GroupType
  <2>4. a.on = TRUE
    BY <1>2, <1>3, <2>3 DEF Actives, GroupType
  <2>5. /\ grp' \in [Handle -> GroupType] /\ grp'[h] = a
        /\ Actives' = Actives /\ \A j \in Actives \ {h} : grp'[j] = grp[j]
    <3>1. /\ grp' \in [Handle -> GroupType] /\ grp'[h] = a
          /\ Actives' = Actives \cup {h} /\ \A j \in Actives \ {h} : grp'[j] = grp[j]
      BY <1>2, <2>2, <2>3, <2>4, Changed
    <3>2. Actives \cup {h} = Actives
      BY <1>2
    <3> QED
      BY <3>1, <3>2
  <2>6. \A j \in Actives' : GroupOK(grp[j])'
    <3>1. GroupOK(a)'
      BY <1>2, <1>3, <1>9, <2>3 DEF GroupOK
    <3>2. \A j \in Actives \ {h} : GroupOK(grp[j])'
      BY <1>2, <2>5 DEF Owned, GroupOK
    <3> QED
      BY <2>5, <3>1, <3>2
  <2>7. NamesUsed'
    <3>1. \A d \in os'.dirs : d[2] < next
      BY <1>17, NamesOf DEF Owned, NamesUsed, Undone
    <3> QED
      BY <1>2, <3>1 DEF NamesUsed
  <2>8. TagsOwned'
    <3>1. SUFFICES ASSUME NEW k \in Core, os'.mon[k] # None
                   PROVE  \/ os'.mon[k] \in orphan'
                          \/ \E j \in Actives' : grp'[j].name = os'.mon[k] /\ k \in grp'[j].cores
      BY DEF TagsOwned
    <3>2. os'.mon[k] = os.mon[k]
      BY <1>17, <3>1 DEF Undone
    <3>3. \A j \in Actives : k \in grp[j].cores => j # h /\ grp'[j] = grp[j]
      BY <1>3, <1>8, <2>5
    <3> QED
      BY <1>2, <2>5, <3>1, <3>2, <3>3 DEF Owned, TagsOwned
  <2>9. LeftOnlyOnError'
    <3>1. Names(os') \subseteq {grp[j].name : j \in Actives} \cup orphan
      BY <1>17 DEF Owned, LeftOnlyOnError, Undone
    <3>2. \A j \in Actives : grp'[j].name = grp[j].name
      BY <1>3, <2>3, <2>5
    <3> QED
      BY <1>2, <2>5, <3>1, <3>2 DEF LeftOnlyOnError
  <2>10. DescriptorsOwned'
    <3>1. SUFFICES ASSUME NEW d \in os'.fds
                   PROVE  /\ d[1] \in Actives' /\ d[2] \in Watched(grp'[d[1]])
                          /\ d[3] \in grp'[d[1]].perf
      BY DEF DescriptorsOwned, Watched
    <3>2. d \in os.fds /\ d \notin Fds(h, Watched(b), g.perf)
      BY <1>10, <1>12, <1>13, <1>16, <3>1 DEF Stopped, Ready
    <3>3. d[1] \in Actives /\ d[2] \in Watched(grp[d[1]]) /\ d[3] \in grp[d[1]].perf
      BY <3>2 DEF Owned, DescriptorsOwned
    <3>4. Watched(b) = g.tids \ stay /\ Watched(g) = g.tids /\ Watched(a) = g.tids \cap stay
      BY <1>8, <1>10, <2>3 DEF Watched
    <3>5. d = <<d[1], d[2], d[3]>>
      BY <3>2, <1>2 DEF World, OsType, Descriptor
    <3>6. d[1] = h => d[2] \notin g.tids \ stay
      <4>1. d[1] = h /\ d[2] \in g.tids \ stay /\ d[3] \in g.perf => d \in Fds(h, g.tids \ stay, g.perf)
        BY <3>5 DEF Fds
      <4> QED
        BY <1>3, <3>2, <3>3, <3>4, <4>1
    <3>7. CASE d[1] = h
      BY <1>3, <2>3, <2>5, <3>3, <3>4, <3>6, <3>7
    <3>8. CASE d[1] # h
      BY <2>5, <3>3, <3>8
    <3> QED
      BY <3>7, <3>8
  <2> QED
    BY <1>2, <1>16, <2>5, <2>6, <2>7, <2>8, <2>9, <2>10 DEF Owned
<1> QED
  BY <1>18, <1>19

-----------------------------------------------------------------------------
(* pqos_mon_stop() *)

\* What a stop leaves of a group of the invariant.
LEMMA StopResult ==
  ASSUME Owned, NEW h \in Actives, NEW x \in StopCircumstances(grp[h].tids), NEW r,
         r = os_mon_stop(Ended([os EXCEPT !.lk = x.lk], x.dead), h, grp[h], x.back)
  PROVE  /\ Undone(r.w, os)
         /\ \A d \in r.w.fds : d[1] # h
         /\ r.ret \in {"OK", "PARAM", "ERROR"}
         /\ grp[h].cores # {} => \A k \in Core \ grp[h].cores : r.w.mon[k] = os.mon[k]
         /\ r.ret = "OK" /\ grp[h].name # None =>
              /\ \A y \in grp[h].cores \cup grp[h].tids : r.w.mon[y] # grp[h].name
              /\ grp[h].name \in Names(r.w) =>
                   \E k \in Core \ grp[h].cores : os.mon[k] = grp[h].name /\ r.w.mon[k] = grp[h].name
<1>1. PICK g, w0, w : g = grp[h] /\ w0 = [os EXCEPT !.lk = x.lk] /\ w = Ended(w0, x.dead)
  OBVIOUS
<1>2. /\ g \in GroupType /\ GroupOK(g) /\ World(os) /\ h \in Handle
      /\ x.lk \in 0 .. 2 /\ x.dead \in SUBSET Tasks
  <2>1. g \in GroupType /\ GroupOK(g) /\ World(os) /\ h \in Handle
    BY <1>1 DEF Owned, Actives
  <2> QED
    BY <1>1, <2>1, StopCircumstancesAre DEF GroupType
<1>3. Ready(w) /\ World(w)
  <2>1. Ready(w0)
    BY <1>1, <1>2, ReadyLk
  <2>2. Ready(w)
    BY <1>1, <1>2, <2>1, ReadyEnded
  <2> QED
    BY <2>2 DEF Ready
<1>4. ASSUME NEW d \in os.fds, d[1] = h
      PROVE  d \in Fds(h, Watched(g), g.perf)
  <2>1. d[2] \in Watched(g) /\ d[3] \in g.perf
    BY <1>1, <1>4 DEF Owned, DescriptorsOwned
  <2>2. d = <<d[1], d[2], d[3]>>
    BY <1>2 DEF World, OsType, Descriptor
  <2> QED
    BY <1>4, <2>1, <2>2 DEF Fds
<1>5. CASE g.cores = {} /\ g.tids = {}
  <2>1. r.w = w /\ r.ret = "PARAM"
    BY <1>1, <1>5 DEF os_mon_stop, Ret
  <2>2. Undone(w, os)
    BY <1>3 DEF Ready, Undone, Names
  <2>3. \A d \in os.fds : d[1] # h
    BY <1>4, <1>5 DEF Fds, Watched
  <2> QED
    BY <1>1, <1>3, <1>5, <2>1, <2>2, <2>3 DEF Ready
<1>6. CASE ~(g.cores = {} /\ g.tids = {})
  <2>1. r = StopEvents(w, h, g, x.back)
    BY <1>1, <1>6 DEF os_mon_stop
  <2>2. Stopped(r, w, h, g)
    BY <1>2, <1>3, <2>1, StopEventsIs
  <2>3. Undone(r.w, os)
    <3>1. Names(r.w) \subseteq Names(w) /\ Names(w) = Names(os)
      BY <1>3, <2>2, ShrunkNames DEF Stopped, Ready, Names
    <3> QED
      BY <1>3, <2>2, <3>1 DEF Stopped, Shrunk, Ready, Undone
  <2>4. \A d \in r.w.fds : d[1] # h
    BY <1>3, <1>4, <2>2 DEF Stopped, Ready
  <2>5. g.cores # {} => \A k \in Core \ g.cores : r.w.mon[k] = os.mon[k]
    BY <1>2, <1>3, <2>2 DEF Stopped, GroupOK, Ready
  <2>6. ASSUME r.ret = "OK", g.name # None
        PROVE  /\ \A y \in g.cores : r.w.mon[y] # g.name
               /\ g.name \in Names(r.w) =>
                    g.pids = {} /\ \E k \in Core \ g.cores : w.mon[k] = g.name /\ r.w.mon[k] = g.name
    <3>1. g.resctrl # {}
      BY <1>2, <2>6 DEF GroupOK
    <3> QED
      BY <2>2, <2>6, <3>1 DEF Stopped
  <2>7. ASSUME r.ret = "OK", g.name # None, NEW y \in g.tids
        PROVE  r.w.mon[y] # g.name
    <3>1. SUFFICES ASSUME r.w.mon[y] = g.name
                   PROVE  FALSE
      OBVIOUS
    <3>2. y \in Target /\ r.w.mon[y] # None
      BY <1>2, <2>7, <3>1 DEF GroupType, Target
    <3>3. g.name \in Names(r.w)
      BY <2>2, <3>1, <3>2, TagNamed DEF Stopped
    <3> QED
      BY <1>2, <2>6, <2>7, <3>3 DEF GroupOK
  <2>8. r.ret \in {"OK", "ERROR"}
    BY <2>2 DEF Stopped
  <2> QED
    BY <1>1, <1>3, <2>3, <2>4, <2>5, <2>6, <2>7, <2>8 DEF Ready
<1> QED
  BY <1>5, <1>6

\* What the calls told: the last one to return left what it promised.
SmallIds == \A k \in Core : L3id[k] < 32

LastOK ==
  /\ last.op \in {"none", "start", "stop", "add", "remove", "poll", "reset", "assoc", "move"}
  /\ last.ret \in {"OK", "PARAM", "ERROR", "RESOURCE", "BUSY"}
  /\ StopCleans /\ PollRestores /\ (SmallIds => CachesApart)

\* A step is one of a call that leaves the cores of others alone, or of none.
Apart ==
  last'.op \in {"start", "poll", "stop"} /\ last'.g.cores # {} =>
    \A k \in Core \ last'.g.cores : os'.mon[k] = os.mon[k]

LEMMA StopStep ==
  ASSUME Owned, NEW h \in Handle, pqos_mon_stop(h)
  PROVE  Owned' /\ LastOK' /\ Apart
<1>1. /\ h \in Actives /\ next' = next /\ next \in Name /\ next \in Nat /\ orphan \subseteq Name
      /\ World(os) /\ grp \in [Handle -> GroupType]
  BY DEF pqos_mon_stop, Owned, Actives, Name
<1>2. PICK x \in StopCircumstances(grp[h].tids) :
        LET res == os_mon_stop(Ended([os EXCEPT !.lk = x.lk], x.dead), h, grp[h], x.back)
        IN  /\ Call("stop", grp[h], res.ret, x)
            /\ os' = Done(res.w)
            /\ grp' = [grp EXCEPT ![h] = Idle]
            /\ orphan' = orphan \cup (IF res.ret = "OK" THEN {} ELSE Left(res.w, grp[h]))
  BY DEF pqos_mon_stop
<1>3. PICK g, r : /\ g = grp[h]
                  /\ r = os_mon_stop(Ended([os EXCEPT !.lk = x.lk], x.dead), h, grp[h], x.back)
  OBVIOUS
<1>4. /\ Call("stop", g, r.ret, x) /\ os' = Done(r.w) /\ grp' = [grp EXCEPT ![h] = Idle]
      /\ orphan' = orphan \cup (IF r.ret = "OK" THEN {} ELSE Left(r.w, g))
  BY <1>2, <1>3
<1>5. /\ Undone(r.w, os)
      /\ \A d \in r.w.fds : d[1] # h
      /\ r.ret \in {"OK", "PARAM", "ERROR"}
      /\ g.cores # {} => \A k \in Core \ g.cores : r.w.mon[k] = os.mon[k]
      /\ r.ret = "OK" /\ g.name # None =>
           /\ \A y \in g.cores \cup g.tids : r.w.mon[y] # g.name
           /\ g.name \in Names(r.w) =>
                \E k \in Core \ g.cores : os.mon[k] = g.name /\ r.w.mon[k] = g.name
  BY <1>1, <1>3, StopResult
<1>6. PICK v : v = Done(r.w)
  OBVIOUS
<1>7. /\ os' = v /\ World(v) /\ v.mon = r.w.mon /\ v.dirs = r.w.dirs /\ v.fds = r.w.fds
      /\ Names(v) = Names(r.w)
  BY <1>4, <1>5, <1>6, DoneIs DEF Undone, SameDirs, Names
<1>8. /\ Idle \in GroupType /\ Idle.on = FALSE /\ g \in GroupType /\ GroupOK(g)
  BY <1>1, <1>3 DEF Idle, GroupType, None, Owned
<1>9. /\ grp' \in [Handle -> GroupType] /\ Actives' = Actives \ {h}
      /\ \A j \in Actives' : grp'[j] = grp[j]
  BY <1>1, <1>4, <1>8 DEF Actives
<1>10. orphan' \subseteq Name /\ orphan \subseteq orphan'
  BY <1>1, <1>4, <1>8 DEF Left, GroupType, Name
<1>11. \A j \in Actives' : GroupOK(grp[j])'
  BY <1>1, <1>9 DEF Owned, GroupOK
<1>12. NamesUsed'
  <2>1. \A d \in os'.dirs : d[2] < next
    BY <1>5, <1>7, NamesOf DEF Owned, NamesUsed, Undone
  <2> QED
    BY <1>1, <2>1 DEF NamesUsed
<1>13. ASSUME NEW k \in Core, os'.mon[k] # None
       PROVE  \/ os'.mon[k] \in orphan'
              \/ \E j \in Actives' : grp'[j].name = os'.mon[k] /\ k \in grp'[j].cores
  <2>1. os'.mon[k] = os.mon[k]
    BY <1>5, <1>7, <1>13 DEF Undone
  <2>2. ASSUME g.name = os.mon[k], k \in g.cores
        PROVE  os'.mon[k] \in orphan'
    <3>1. g.name # None /\ r.w.mon[k] = g.name
      BY <1>7, <1>13, <2>1, <2>2
    <3>2. r.ret # "OK"
      BY <1>5, <2>2, <3>1
    <3>3. g.name \in Names(r.w)
      BY <1>5, <3>1, TagNamed DEF Undone, Target
    <3> QED
      BY <1>4, <2>1, <2>2, <3>1, <3>2, <3>3 DEF Left
  <2>3. \/ os.mon[k] \in orphan
        \/ \E j \in Actives : grp[j].name = os.mon[k] /\ k \in grp[j].cores
    BY <1>13, <2>1 DEF Owned, TagsOwned
  <2> QED
    BY <1>3, <1>9, <1>10, <2>1, <2>2, <2>3
<1>14. TagsOwned'
  BY <1>13 DEF TagsOwned
<1>15. LeftOnlyOnError'
  <2>1. SUFFICES ASSUME NEW n \in Names(os')
                 PROVE  n \in {grp'[j].name : j \in Actives'} \cup orphan'
    BY DEF LeftOnlyOnError
  <2>2. n \in Names(os) /\ n \in Names(r.w)
    BY <1>5, <1>7, <2>1 DEF Undone
  <2>3. n \in Name
    BY <1>1, <2>2, NamesIs, DirIs DEF World
  <2>4. n \in {grp[j].name : j \in Actives} \cup orphan
    BY <2>2 DEF Owned, LeftOnlyOnError
  <2>5. CASE n # g.name
    BY <1>3, <1>9, <1>10, <2>4, <2>5
  <2>6. CASE n = g.name /\ r.ret # "OK"
    BY <1>4, <2>2, <2>3, <2>6 DEF Left, Name
  <2>7. CASE n = g.name /\ r.ret = "OK"
    <3>1. PICK k \in Core \ g.cores : os.mon[k] = g.name /\ r.w.mon[k] = g.name
      BY <1>5, <2>2, <2>3, <2>7 DEF Name
    <3>2. os'.mon[k] = n /\ n # None
      BY <1>7, <2>3, <2>7, <3>1 DEF Name
    <3> QED
      BY <1>13, <3>1, <3>2
  <2> QED
    BY <2>5, <2>6, <2>7
<1>16. DescriptorsOwned'
  <2>1. SUFFICES ASSUME NEW d \in os'.fds
                 PROVE  /\ d[1] \in Actives' /\ d[2] \in Watched(grp'[d[1]])
                        /\ d[3] \in grp'[d[1]].perf
    BY DEF DescriptorsOwned, Watched
  <2>2. d \in os.fds /\ d[1] # h
    BY <1>5, <1>7, <2>1 DEF Undone
  <2> QED
    BY <1>9, <2>2 DEF Owned, DescriptorsOwned
<1>17. Owned'
  BY <1>1, <1>7, <1>9, <1>10, <1>11, <1>12, <1>14, <1>15, <1>16 DEF Owned
<1>18. last' = [op |-> "stop", ret |-> r.ret, g |-> g]
  BY <1>4 DEF Call
<1>19. last'.op = "stop" /\ last'.ret = r.ret /\ last'.g = g
  BY <1>18
<1>20. StopCleans'
  <2>1. SUFFICES ASSUME r.ret = "OK", g.name # None
                 PROVE  /\ \A y \in g.cores \cup g.tids : os'.mon[y] # g.name
                        /\ g.name \in Names(os') => \E k \in Core : os'.mon[k] = g.name
    BY <1>19 DEF StopCleans
  <2> QED
    BY <1>5, <1>7, <2>1
<1>21. LastOK'
  BY <1>5, <1>19, <1>20 DEF LastOK, PollRestores, CachesApart
<1>22. Apart
  BY <1>5, <1>7, <1>19 DEF Apart
<1> QED
  BY <1>17, <1>21, <1>22

-----------------------------------------------------------------------------
(* The other calls *)

LEMMA PollStep ==
  ASSUME Owned, NEW h \in Handle, pqos_mon_poll(h)
  PROVE  Owned' /\ LastOK' /\ Apart
<1>1. /\ h \in Actives /\ next' = next /\ next \in Name /\ next \in Nat /\ orphan \subseteq Name
      /\ World(os) /\ grp \in [Handle -> GroupType] /\ grp' = grp /\ orphan' = orphan
      /\ GroupOK(grp[h])
  BY DEF pqos_mon_poll, Owned, Actives, Name
<1>2. PICK full, x :
        \E res \in IF grp[h].resctrl = {} THEN {Ret(os, "OK")}
                   ELSE IF x.lk > 0 THEN {Ret(os, "ERROR")} ELSE ResctrlPoll(os, grp[h], full) :
          os' = res.w /\ Call("poll", grp[h], res.ret, x)
  BY DEF pqos_mon_poll
<1>3. PICK g : g = grp[h]
  OBVIOUS
<1>4. PICK r \in IF g.resctrl = {} THEN {Ret(os, "OK")}
                 ELSE IF x.lk > 0 THEN {Ret(os, "ERROR")} ELSE ResctrlPoll(os, g, full) :
          os' = r.w /\ Call("poll", g, r.ret, x)
  BY <1>2, <1>3
<1>5. g \in GroupType /\ GroupOK(g)
  BY <1>1, <1>3
<1>6. Polled(r, os, g)
  <2>1. CASE g.resctrl = {} \/ x.lk > 0
    <3>1. r.w = os /\ r.ret \in {"OK", "ERROR"} /\ (g.resctrl # {} => r.ret = "ERROR")
      BY <1>4, <2>1 DEF Ret
    <3> QED
      BY <1>1, <3>1 DEF Polled
  <2>2. CASE g.resctrl # {} /\ ~(x.lk > 0)
    <3>1. r \in ResctrlPoll(os, g, full) /\ g.name # None
      BY <1>4, <1>5, <2>2 DEF GroupOK
    <3> QED
      BY <1>1, <1>5, <3>1, ResctrlPollIs
  <2> QED
    BY <2>1, <2>2
<1>7. Owned'
  <2>1. \A k \in Core : \/ os'.mon[k] \in {os.mon[k], None}
                        \/ \E j \in Actives : k \in grp[j].cores /\ os'.mon[k] = grp[j].name
    BY <1>1, <1>3, <1>4, <1>6 DEF Polled
  <2>2. World(os') /\ os'.fds \subseteq os.fds /\ Names(os') \subseteq Names(os)
    BY <1>4, <1>6 DEF Polled
  <2> QED
    BY <1>1, <2>1, <2>2, KeepStep
<1>8. last' = [op |-> "poll", ret |-> r.ret, g |-> g]
  BY <1>4 DEF Call
<1>9. last'.op = "poll" /\ last'.ret = r.ret /\ last'.g = g
  BY <1>8
<1>10. PollRestores'
  <2>1. SUFFICES ASSUME r.ret = "OK", g.resctrl # {}
                 PROVE  \A k \in g.cores : os'.mon[k] # None
    BY <1>9 DEF PollRestores
  <2> QED
    BY <1>4, <1>6, <2>1 DEF Polled
<1>11. r.ret \in {"OK", "RESOURCE", "ERROR"}
  BY <1>6 DEF Polled
<1>12. LastOK'
  BY <1>9, <1>10, <1>11 DEF LastOK, StopCleans, CachesApart
<1>13. Apart
  BY <1>4, <1>6, <1>9 DEF Apart, Polled
<1> QED
  BY <1>7, <1>12, <1>13

\* A call that promises nothing about cores.
LEMMA PlainCall ==
  ASSUME NEW op \in {"reset", "assoc", "add", "remove"}, NEW g, NEW x,
         NEW ret \in {"OK", "PARAM", "ERROR", "RESOURCE", "BUSY"}, Call(op, g, ret, x)
  PROVE  LastOK' /\ Apart
<1>1. last' = [op |-> op, ret |-> ret, g |-> g]
  BY DEF Call
<1>2. last'.op = op /\ last'.ret = ret
  BY <1>1
<1> QED
  BY <1>2 DEF LastOK, Apart, StopCleans, PollRestores, CachesApart

LEMMA ResetStep ==
  ASSUME Owned, resctrl_mon_reset
  PROVE  Owned' /\ LastOK' /\ Apart
<1>1. PICK v : v = Removed(os, os.dirs)
  OBVIOUS
<1>2. os' = v /\ UNCHANGED <<grp, next, orphan>> /\ World(os)
  BY <1>1 DEF resctrl_mon_reset, Owned
<1>3. World(v) /\ Shrunk(v, os)
  BY <1>1, <1>2, RemovedWorld
<1>4. v.fds = os.fds
  BY <1>1, <1>2, RemovedIs DEF World, SameRest
<1>5. Undone(os', os)
  BY <1>2, <1>3, <1>4, ShrunkNames DEF Undone, Shrunk
<1>6. Owned'
  BY <1>2, <1>5, TakeStep DEF Owned, Name
<1>7. PICK ret \in {"OK", "RESOURCE"} : Call("reset", Idle, ret, Calm)
  BY DEF resctrl_mon_reset
<1>8. LastOK' /\ Apart
  BY <1>7, PlainCall
<1> QED
  BY <1>6, <1>8

\* A core or task that changes its class, with or without its tag.
LEMMA MovedTag ==
  ASSUME World(os), NEW y \in Target, NEW c \in Class, NEW w, w = Reclass(os, {y}, c)
  PROVE  Undone(w, os) /\ World(w)
<1>1. os \in OsType
  BY DEF World
<1>2. /\ w \in OsType /\ SameRest(w, os) /\ w.dirs = os.dirs
      /\ \A z \in Target : w.mon[z] = IF z \in {y} /\ os.cls[z] # c THEN None ELSE os.mon[z]
  BY <1>1, ReclassIs
<1>3. World(w)
  BY ReclassWorld
<1>4. \A k \in Core : w.mon[k] \in {os.mon[k], None}
  BY <1>2 DEF Target
<1>5. Names(w) = Names(os)
  BY <1>2 DEF Names
<1> QED
  BY <1>2, <1>3, <1>4, <1>5 DEF Undone, SameRest

LEMMA FollowedTag ==
  ASSUME World(os), NEW y \in Target, NEW c \in Class, NEW w, w = Reclass(os, {y}, c),
         NEW n \in {None, os.mon[y]},
         NEW r \in IF n = None THEN {Ret(w, "OK")} ELSE AssocSet(w, {y}, n)
  PROVE  Undone(r.w, os)
<1>1. Undone(w, os) /\ World(w)
  BY MovedTag
<1>2. CASE n = None
  BY <1>1, <1>2 DEF Ret
<1>3. CASE n # None
  <2>1. n = os.mon[y]
    BY <1>3
  <2>2. n \in Name
    BY <1>3, <2>1 DEF World, OsType, Name
  <2>3. n \in Names(os)
    BY <1>3, <2>1, TagNamed
  <2>a. PICK S : S = {y}
    OBVIOUS
  <2>4. S \in SUBSET Target /\ r \in AssocSet(w, S, n)
    BY <1>3, <2>a
  <2>b. PICK P \in SUBSET S :
           /\ r.w = Tagged(w, P, n) /\ r.ret \in {"OK", "PARAM", "BUSY"}
           /\ r.ret = "OK" => P = S
    BY <1>1, <2>2, <2>4, AssocSetIs
  <2>5. P \in SUBSET {y} /\ r.w = Tagged(w, P, n)
    BY <2>a, <2>b
  <2>6. P \in SUBSET Target
    BY <2>4, <2>5
  <2>7. TaggedAs(r.w, w, P, n)
    BY <1>1, <2>2, <2>5, <2>6, TaggedIs
  <2>8. World(r.w) /\ r.w.fds = w.fds
    BY <2>7 DEF TaggedAs, SameRest
  <2>9. Names(r.w) \subseteq Names(os)
    BY <1>1, <2>3, <2>7 DEF TaggedAs, Undone
  <2>10. ASSUME NEW k \in Core
         PROVE  r.w.mon[k] \in {os.mon[k], None}
    <3>1. k \in Target
      BY DEF Target
    <3>2. CASE k \in P
      <4>1. k = y /\ r.w.mon[k] = n
        BY <2>5, <2>7, <3>2 DEF TaggedAs
      <4> QED
        BY <2>1, <4>1
    <3>3. CASE k \notin P
      BY <1>1, <2>7, <3>1, <3>3 DEF TaggedAs, Undone
    <3> QED
      BY <3>2, <3>3
  <2> QED
    BY <1>1, <2>8, <2>9, <2>10 DEF Undone
<1> QED
  BY <1>2, <1>3

LEMMA AssocStep ==
  ASSUME Owned, os_alloc_assoc_set \/ os_alloc_assoc_set_pid
  PROVE  Owned' /\ LastOK' /\ Apart
<1>1. World(os) /\ next \in Nat /\ next \in Name /\ orphan \subseteq Name
  BY DEF Owned, Name
<1>2. /\ Call("assoc", Idle, "OK", Calm) /\ UNCHANGED <<grp, next, orphan>>
      /\ \E y \in Target, c \in Class : \E n \in {None, os.mon[y]} :
         \E r \in IF n = None THEN {Ret(Reclass(os, {y}, c), "OK")}
                  ELSE AssocSet(Reclass(os, {y}, c), {y}, n) : os' = r.w
  <2>1. CASE os_alloc_assoc_set
    BY <2>1 DEF os_alloc_assoc_set, AssocGet, Target
  <2>2. CASE os_alloc_assoc_set_pid
    <3>1. os.alive \subseteq Target
      BY <1>1 DEF World, OsType, Target
    <3> QED
      BY <2>2, <3>1 DEF os_alloc_assoc_set_pid, AssocGetPid
  <2> QED
    BY <2>1, <2>2
<1>3. PICK y \in Target, c \in Class : \E n \in {None, os.mon[y]} :
         \E r \in IF n = None THEN {Ret(Reclass(os, {y}, c), "OK")}
                  ELSE AssocSet(Reclass(os, {y}, c), {y}, n) : os' = r.w
  BY <1>2
<1>4. PICK w : w = Reclass(os, {y}, c)
  OBVIOUS
<1>a. PICK n \in {None, os.mon[y]} :
         \E r \in IF n = None THEN {Ret(w, "OK")} ELSE AssocSet(w, {y}, n) : os' = r.w
  BY <1>3, <1>4
<1>5. PICK r \in IF n = None THEN {Ret(w, "OK")} ELSE AssocSet(w, {y}, n) : os' = r.w
  BY <1>a
<1>6. Undone(r.w, os)
  BY <1>1, <1>4, <1>5, FollowedTag
<1>7. Owned'
  BY <1>1, <1>2, <1>5, <1>6, TakeStep
<1>8. LastOK' /\ Apart
  BY <1>2, PlainCall
<1> QED
  BY <1>7, <1>8

LEMMA AddRemoveTold ==
  ASSUME Owned, NEW h \in Handle, os_mon_add_pids(h) \/ os_mon_remove_pids(h)
  PROVE  LastOK' /\ Apart
<1>0. /\ World(os) /\ grp \in [Handle -> GroupType] /\ next \in Name
      /\ h \in Actives /\ GroupOK(grp[h]) /\ grp[h].pids # {}
  BY DEF os_mon_add_pids, os_mon_remove_pids, Owned, Actives
<1>1. CASE os_mon_add_pids(h)
  <2>1. PICK ps \in PidSets :
        LET g == grp[h]
            tids == TidFind(os, ps) \ g.tids
            added == [Idle EXCEPT !.pids = ps, !.tids = tids, !.ev = g.ev, !.name = g.name]
        IN  \/ \E ret \in {"OK", "PARAM"} : Call("add", added, ret, Calm)
            \/ \E x \in Circumstances(tids) :
               \E res \in StartEvents(Ended([os EXCEPT !.lk = x.lk], x.dead), h, added, x, {}) :
                  Call("add", added, res.ret, x)
    BY <1>1 DEF os_mon_add_pids
  <2>2. PICK g, tids : g = grp[h] /\ tids = TidFind(os, ps) \ g.tids
    OBVIOUS
  <2>3. PICK added : added = [Idle EXCEPT !.pids = ps, !.tids = tids, !.ev = g.ev, !.name = g.name]
    OBVIOUS
  <2>4. /\ g \in GroupType /\ ps \in SUBSET Tasks /\ tids \in SUBSET Tasks
    BY <1>0, <2>2, PidsAre, TidsAre
  <2>5. added \in GroupType /\ added.cores = {}
    BY <2>3, <2>4 DEF Idle, GroupType
  <2>6. CASE \E ret \in {"OK", "PARAM"} : Call("add", added, ret, Calm)
    BY <2>6, PlainCall
  <2>7. CASE ~ \E ret \in {"OK", "PARAM"} : Call("add", added, ret, Calm)
    <3>1. PICK x \in Circumstances(tids) :
          \E res \in StartEvents(Ended([os EXCEPT !.lk = x.lk], x.dead), h, added, x, {}) :
             Call("add", added, res.ret, x)
      BY <2>1, <2>2, <2>3, <2>7
    <3>2. PICK w0, w : w0 = [os EXCEPT !.lk = x.lk] /\ w = Ended(w0, x.dead)
      OBVIOUS
    <3>3. PICK res \in StartEvents(w, h, added, x, {}) : Call("add", added, res.ret, x)
      BY <3>1, <3>2
    <3>4. x.opened \in SUBSET tids /\ x.dead \in SUBSET Tasks /\ x.lk \in 0 .. 2
      BY <2>4, CircumstancesAre
    <3>5. Ready(w)
      <4>1. Ready(w0)
        BY <1>0, <3>2, <3>4, ReadyLk
      <4> QED
        BY <3>2, <3>4, <4>1, ReadyEnded
    <3>6. World(w) /\ x.opened \subseteq Target
      BY <2>4, <3>4, <3>5 DEF Ready, Target
    <3>7. Begun(res, w, h, added)
      BY <1>0, <2>5, <3>3, <3>6, StartEventsIs
    <3>8. res.ret \in {"OK", "PARAM", "ERROR", "RESOURCE", "BUSY"}
      BY <3>7 DEF Begun
    <3> QED
      BY <3>3, <3>8, PlainCall
  <2> QED
    BY <2>6, <2>7
<1>2. CASE os_mon_remove_pids(h)
  <2>1. PICK ps \in PidSets :
        LET g == grp[h]
            keep == g.pids \ ps
            stay == TidFind(os, {p \in keep : os_mon_tid_exists(p)})
        IN  \E x \in StopCircumstances(g.tids \ stay) :
              LET res == StopEvents(Ended([os EXCEPT !.lk = x.lk], x.dead), h,
                           [g EXCEPT !.pids = ps, !.tids = @ \ stay, !.name = None], x.back)
              IN  Call("remove", g, res.ret, x)
    BY <1>2 DEF os_mon_remove_pids
  <2>2. PICK w, b, back, x, r : r = StopEvents(w, h, b, back) /\ Call("remove", grp[h], r.ret, x)
    BY <2>1
  <2>3. r.ret \in {"OK", "ERROR"}
    BY <2>2 DEF StopEvents, Ret
  <2> QED
    BY <2>2, <2>3, PlainCall
<1> QED
  BY <1>1, <1>2

\* What a start promises.
LEMMA StartTold ==
  ASSUME Owned, NEW h \in Handle, NEW g, Fresh(g), NEW w, Ready(w),
         NEW res, Begun(res, w, h, g), NEW x, Call("start", res.g, res.ret, x),
         os'.mon = res.w.mon
  PROVE  LastOK' /\ Apart
<1>1. last' = [op |-> "start", ret |-> res.ret, g |-> res.g]
  BY DEF Call
<1>2. last'.op = "start" /\ last'.ret = res.ret /\ last'.g = res.g
  BY <1>1
<1>3. /\ res.g.cores = g.cores /\ (g.cores # {} => g.pids = {} /\ g.tids = {})
      /\ g.cores \subseteq Core /\ Core \subseteq Target
  BY DEF Begun, SameGroup, Fresh, GroupType, Target
<1>4. Apart
  BY <1>2, <1>3 DEF Apart, Begun, OthersStay, Ready
<1>5. ASSUME SmallIds, res.ret = "OK", g.cores # {}, res.g.resctrl # {},
             NEW k \in Core \ g.cores, NEW m \in g.cores, os'.mon[k] = res.g.name
      PROVE  L3id[k] # L3id[m]
  <2>1. /\ Counted(res.w, w, h, g, res.g) /\ res.g.name = res.n /\ res.g.name # None
    BY <1>5 DEF Begun, Counted
  <2>2. Chosen(res.n, w, g)
    BY <2>1 DEF Begun
  <2>3. w.mon[k] = res.n
    BY <1>3, <1>5, <2>1 DEF Begun, OthersStay
  <2>4. res.n # next
    <3>1. res.n \in Names(w) /\ Names(w) = Names(os)
      BY <1>3, <2>1, <2>3, TagNamed DEF Ready, Names
    <3>2. \A i \in Names(os) : i < next
      BY NamesIs DEF Owned, NamesUsed
    <3>3. next \in Nat
      BY DEF Owned, Name
    <3> QED
      BY <3>1, <3>2, <3>3
  <2> QED
    BY <1>3, <1>5, <2>2, <2>3, <2>4 DEF Chosen, SmallIds, Fresh
<1>6. SmallIds => CachesApart'
  <2>1. SUFFICES ASSUME SmallIds, res.ret = "OK", res.g.cores # {}, res.g.resctrl # {},
                        NEW k \in Core \ res.g.cores, NEW m \in res.g.cores, os'.mon[k] = res.g.name
                 PROVE  L3id[k] # L3id[m]
    BY <1>2 DEF CachesApart
  <2> QED
    BY <1>3, <1>5, <2>1
<1>7. res.ret \in {"OK", "PARAM", "ERROR", "RESOURCE", "BUSY"}
  BY DEF Begun
<1> QED
  BY <1>2, <1>4, <1>6, <1>7 DEF LastOK, StopCleans, PollRestores, SmallIds

LEMMA RefusedStep ==
  ASSUME Owned, NEW ret \in {"PARAM", "RESOURCE"}, Refused(ret)
  PROVE  Owned' /\ LastOK' /\ Apart
<1>1. last' = [op |-> "start", ret |-> ret, g |-> Idle]
  BY DEF Refused, Call
<1>2. last'.op = "start" /\ last'.ret = ret /\ last'.g.cores = {}
  BY <1>1 DEF Idle
<1>3. Owned'
  BY SameStep DEF Refused
<1>4. LastOK' /\ Apart
  BY <1>2 DEF LastOK, Apart, StopCleans, PollRestores, CachesApart
<1> QED
  BY <1>3, <1>4

LEMMA BegunStep ==
  ASSUME Owned, NEW h \in Handle, ~grp[h].on, NEW g, Fresh(g), NEW w, Ready(w),
         NEW res, Begun(res, w, h, g), NEW x, Started(h, res, x) \/ Aborted(h, res, x)
  PROVE  Owned' /\ LastOK' /\ Apart
<1>1. World(res.w) /\ res.w \in OsType
  BY DEF Begun, Counted, Undone, World
<1>2. CASE Started(h, res, x)
  <2>1. Owned'
    BY <1>2, StartedStep
  <2>2. os'.mon = res.w.mon
    <3>1. PICK v : v = Done(res.w)
      OBVIOUS
    <3>2. os' = v /\ SameDirs(v, res.w)
      BY <1>1, <1>2, <3>1, DoneIs DEF Started
    <3> QED
      BY <3>2 DEF SameDirs
  <2>3. Call("start", res.g, res.ret, x)
    BY <1>2 DEF Started
  <2> QED
    BY <2>1, <2>2, <2>3, StartTold
<1>3. CASE Aborted(h, res, x)
  <2>1. Owned'
    BY <1>3, AbortedStep
  <2>2. os'.mon = res.w.mon
    <3>1. PICK v : v = Dead(res.w, Owner[h])
      OBVIOUS
    <3>2. os' = v /\ v.mon = res.w.mon
      BY <1>1, <1>3, <3>1, DeadIs DEF Aborted, Dies
    <3> QED
      BY <3>2
  <2>3. Call("start", res.g, res.ret, x)
    BY <1>3 DEF Aborted
  <2> QED
    BY <2>1, <2>2, <2>3, StartTold
<1> QED
  BY <1>2, <1>3

LEMMA StartCoresStep ==
  ASSUME Owned, NEW h \in Handle, ~grp[h].on, NEW ks \in CoreSets, NEW ev \in EventSets, NEW g,
         g = [Idle EXCEPT !.cores = ks, !.ev = ev], os_mon_start_cores(h, g)
  PROVE  Owned' /\ LastOK' /\ Apart
<1>1. g \in GroupType /\ g.cores = ks /\ g.pids = {} /\ g.tids = {} /\ g.name = None /\ Fresh(g)
  BY InputAssumption DEF Idle, GroupType, None, Fresh
<1>2. CASE Refused("PARAM") \/ Refused("RESOURCE")
  BY <1>2, RefusedStep
<1>3. CASE ~(Refused("PARAM") \/ Refused("RESOURCE"))
  <2>1. \E x \in Circumstances(g.cores), quiet \in SUBSET Names(os) :
        \E res \in StartEvents([os EXCEPT !.lk = x.lk], h, g, x, quiet) :
          Started(h, res, x) \/ Aborted(h, res, x)
    <3>1. \E quiet \in SUBSET Names(os), x \in {x \in Circumstances(g.cores) : x.dead = {}} :
          \E res \in StartEvents([os EXCEPT !.lk = x.lk], h, g, x, quiet) :
            Started(h, res, x) \/ Aborted(h, res, x)
      BY <1>3 DEF os_mon_start_cores
    <3> QED
      BY <3>1
  <2>2. PICK x \in Circumstances(g.cores), quiet \in SUBSET Names(os) :
        \E res \in StartEvents([os EXCEPT !.lk = x.lk], h, g, x, quiet) :
          Started(h, res, x) \/ Aborted(h, res, x)
    BY <2>1
  <2>3. PICK w : w = [os EXCEPT !.lk = x.lk]
    OBVIOUS
  <2>4. PICK res \in StartEvents(w, h, g, x, quiet) : Started(h, res, x) \/ Aborted(h, res, x)
    BY <2>2, <2>3
  <2>5. x.opened \in SUBSET g.cores /\ x.lk \in 0 .. 2 /\ x.opened \subseteq Target
    BY <1>1, CircumstancesAre DEF GroupType, Target
  <2>6. Ready(w) /\ World(w) /\ next \in Name
    BY <2>3, <2>5, ReadyLk DEF Owned, Ready
  <2>7. Begun(res, w, h, g)
    BY <1>1, <2>4, <2>5, <2>6, StartEventsIs
  <2> QED
    BY <1>1, <2>4, <2>6, <2>7, BegunStep
<1> QED
  BY <1>2, <1>3

LEMMA StartPidsStep ==
  ASSUME Owned, NEW h \in Handle, ~grp[h].on, NEW ps \in PidSets, NEW ev \in EventSets,
         os_mon_start_pids(h, ps, ev)
  PROVE  Owned' /\ LastOK' /\ Apart
<1>1. PICK tids : tids = TidFind(os, ps)
  OBVIOUS
<1>2. PICK g : g = [Idle EXCEPT !.pids = ps, !.tids = tids, !.ev = ev]
  OBVIOUS
<1>3. ps \in SUBSET Tasks /\ ps # {} /\ tids \in SUBSET Tasks
  BY <1>1, PidsAre, TidsAre DEF Owned
<1>4. g \in GroupType /\ g.cores = {} /\ g.pids = ps /\ g.tids = tids /\ g.name = None /\ Fresh(g)
  BY <1>2, <1>3, InputAssumption DEF Idle, GroupType, None, Fresh
<1>5. CASE Refused("PARAM")
  BY <1>5, RefusedStep
<1>6. CASE ~Refused("PARAM")
  <2>1. PICK x \in Circumstances(tids) :
        \E res \in StartEvents(Ended([os EXCEPT !.lk = x.lk], x.dead), h, g, x, {}) :
          Started(h, res, x)
    BY <1>1, <1>2, <1>6 DEF os_mon_start_pids
  <2>2. PICK w0, w : w0 = [os EXCEPT !.lk = x.lk] /\ w = Ended(w0, x.dead)
    OBVIOUS
  <2>3. PICK res \in StartEvents(w, h, g, x, {}) : Started(h, res, x)
    BY <2>1, <2>2
  <2>4. x.opened \in SUBSET tids /\ x.dead \in SUBSET Tasks /\ x.lk \in 0 .. 2
    BY <1>3, CircumstancesAre
  <2>5. Ready(w)
    <3>1. Ready(w0)
      BY <2>2, <2>4, ReadyLk DEF Owned
    <3> QED
      BY <2>2, <2>4, <3>1, ReadyEnded
  <2>6. World(w) /\ x.opened \subseteq Target /\ next \in Name
    BY <1>3, <2>4, <2>5 DEF Ready, Target, Owned
  <2>7. Begun(res, w, h, g)
    BY <1>4, <2>3, <2>6, StartEventsIs
  <2> QED
    BY <1>4, <2>3, <2>5, <2>7, BegunStep
<1> QED
  BY <1>5, <1>6

-----------------------------------------------------------------------------
(* The surroundings *)

LEMMA MoveTold ==
  ASSUME NEW act, Move(act)
  PROVE  LastOK' /\ Apart
<1>1. last' = [NoCall EXCEPT !.op = "move"]
  BY DEF Move
<1>2. last'.op = "move" /\ last'.ret = "OK"
  BY <1>1 DEF NoCall
<1> QED
  BY <1>2 DEF LastOK, Apart, StopCleans, PollRestores, CachesApart

LEMMA ThreadEndsStep ==
  ASSUME Owned, ThreadEnds
  PROVE  Owned' /\ LastOK' /\ Apart
<1>1. World(os) /\ next \in Nat /\ next \in Name /\ orphan \subseteq Name
  BY DEF Owned, Name
<1>2. PICK t \in os.alive : Move(os' = Ended(os, {t}))
  BY DEF ThreadEnds
<1>3. PICK w, dead : dead = {t} /\ w = Ended(os, dead)
  OBVIOUS
<1>4. os' = w /\ UNCHANGED <<grp, next, orphan>>
  BY <1>2, <1>3 DEF Move, ThreadEnds
<1>5. dead \in SUBSET Tasks /\ Ready(os)
  BY <1>1, <1>3 DEF World, OsType, Ready
<1>6. Ready(w)
  BY <1>3, <1>5, ReadyEnded
<1>7. Undone(os', os)
  BY <1>4, <1>6 DEF Ready, Undone, Names
<1>8. Owned'
  BY <1>1, <1>4, <1>7, TakeStep
<1> QED
  BY <1>2, <1>8, MoveTold

LEMMA OtherMovesStep ==
  ASSUME Owned, OtherMoves
  PROVE  Owned' /\ LastOK' /\ Apart
<1>1. World(os) /\ next \in Nat /\ next \in Name /\ orphan \subseteq Name
  BY DEF Owned, Name
<1>2. PICK y \in Core \cup os.alive, c \in Class : Move(os' = Reclass(os, {y}, c))
  BY DEF OtherMoves
<1>3. PICK w : w = Reclass(os, {y}, c)
  OBVIOUS
<1>4. os' = w /\ UNCHANGED <<grp, next, orphan>>
  BY <1>2, <1>3 DEF Move, OtherMoves
<1>5. y \in Target
  BY <1>1 DEF World, OsType, Target
<1>6. Undone(os', os)
  BY <1>1, <1>3, <1>4, <1>5, MovedTag
<1>7. Owned'
  BY <1>1, <1>4, <1>6, TakeStep
<1> QED
  BY <1>2, <1>7, MoveTold

LEMMA CrashStep ==
  ASSUME Owned, Crash
  PROVE  Owned' /\ LastOK' /\ Apart
<1>1. next \in Nat /\ next \in Name
  BY DEF Owned, Name
<1>2. PICK h \in Handle : Move(Dies(Owner[h], os))
  BY DEF Crash
<1>3. Dies(Owner[h], os) /\ next' = next
  BY <1>2 DEF Move
<1>4. Undone(os, os)
  BY DEF Undone, Owned
<1>5. Owned'
  BY <1>1, <1>3, <1>4, DiesStep
<1> QED
  BY <1>2, <1>5, MoveTold

-----------------------------------------------------------------------------
(* Every step *)

LEMMA StartsStep ==
  ASSUME Owned, NEW h \in Handle, NEW ks \in CoreSets, NEW ev \in EventSets,
         pqos_mon_start(h, ks, ev) \/ pqos_mon_start_cores_ext(h, ks, ev)
  PROVE  Owned' /\ LastOK' /\ Apart
<1>1. PICK g : g = [Idle EXCEPT !.cores = ks, !.ev = ev]
  OBVIOUS
<1>2. ~grp[h].on /\ (os_mon_start_cores(h, g) \/ Refused("PARAM"))
  BY <1>1 DEF pqos_mon_start, pqos_mon_start_cores_ext
<1>3. CASE os_mon_start_cores(h, g)
  BY <1>1, <1>2, <1>3, StartCoresStep
<1>4. CASE Refused("PARAM")
  BY <1>4, RefusedStep
<1> QED
  BY <1>2, <1>3, <1>4

LEMMA StartsPidsStep ==
  ASSUME Owned, NEW h \in Handle, NEW ps \in PidSets, NEW ev \in EventSets,
         pqos_mon_start_pids(h, ps, ev) \/ pqos_mon_start_pids2(h, ps, ev)
  PROVE  Owned' /\ LastOK' /\ Apart
<1>1. ~grp[h].on /\ (os_mon_start_pids(h, ps, ev) \/ Refused("PARAM"))
  BY DEF pqos_mon_start_pids, pqos_mon_start_pids2
<1>2. CASE os_mon_start_pids(h, ps, ev)
  BY <1>1, <1>2, StartPidsStep
<1>3. CASE Refused("PARAM")
  BY <1>3, RefusedStep
<1> QED
  BY <1>1, <1>2, <1>3

LEMMA NextStep ==
  ASSUME Owned, Next
  PROVE  Owned' /\ LastOK' /\ Apart
<1>1. CASE \E h \in Handle, ks \in CoreSets, ev \in EventSets :
             pqos_mon_start(h, ks, ev) \/ pqos_mon_start_cores_ext(h, ks, ev)
  BY <1>1, StartsStep
<1>2. CASE \E h \in Handle, ps \in PidSets, ev \in EventSets :
             pqos_mon_start_pids(h, ps, ev) \/ pqos_mon_start_pids2(h, ps, ev)
  BY <1>2, StartsPidsStep
<1>3. CASE \E h \in Handle : os_mon_add_pids(h)
  BY <1>3, AddStep, AddRemoveTold
<1>4. CASE \E h \in Handle : os_mon_remove_pids(h)
  BY <1>4, RemoveStep, AddRemoveTold
<1>5. CASE \E h \in Handle : pqos_mon_stop(h)
  BY <1>5, StopStep
<1>6. CASE \E h \in Handle : pqos_mon_poll(h)
  BY <1>6, PollStep
<1>7. CASE resctrl_mon_reset
  BY <1>7, ResetStep
<1>8. CASE os_alloc_assoc_set \/ os_alloc_assoc_set_pid
  BY <1>8, AssocStep
<1>9. CASE ThreadEnds
  BY <1>9, ThreadEndsStep
<1>10. CASE OtherMoves
  BY <1>10, OtherMovesStep
<1>11. CASE Crash
  BY <1>11, CrashStep
<1> QED
  BY <1>1, <1>2, <1>3, <1>4, <1>5, <1>6, <1>7, <1>8, <1>9, <1>10, <1>11 DEF Next

-----------------------------------------------------------------------------
(* The bounds of a run *)

Counts == calls \in 0 .. MaxCalls /\ moves \in 0 .. MaxMoves

LEMMA CallCounts ==
  ASSUME Counts, NEW op, NEW g, NEW ret, NEW x, Call(op, g, ret, x), x = Calm \/ moves < MaxMoves
  PROVE  Counts'
<1>1. MaxCalls \in Nat /\ MaxMoves \in Nat
  BY InputAssumption
<1>2. calls < MaxCalls /\ calls' = calls + 1
  BY DEF Call
<1>3. moves' = moves \/ (moves' = moves + 1 /\ moves < MaxMoves)
  BY DEF Call
<1> QED
  BY <1>1, <1>2, <1>3 DEF Counts

LEMMA MoveCounts ==
  ASSUME Counts, NEW act, Move(act)
  PROVE  Counts'
  BY InputAssumption DEF Counts, Move

\* Every call returns, and is counted.
LEMMA CallsCount ==
  ASSUME Counts,
         NEW ts, NEW op, NEW x \in Circumstances(ts), \E g, ret : Call(op, g, ret, x)
  PROVE  Counts'
<1>1. PICK g, ret : Call(op, g, ret, x)
  OBVIOUS
<1> QED
  BY <1>1, CallCounts, CircumstancesAre

LEMMA StopsCount ==
  ASSUME Counts,
         NEW ts, NEW op, NEW x \in StopCircumstances(ts), \E g, ret : Call(op, g, ret, x)
  PROVE  Counts'
<1>1. PICK g, ret : Call(op, g, ret, x)
  OBVIOUS
<1> QED
  BY <1>1, CallCounts, StopCircumstancesAre

LEMMA CalmCounts ==
  ASSUME Counts, NEW op, NEW g, NEW ret, Call(op, g, ret, Calm)
  PROVE  Counts'
  BY CallCounts

LEMMA StartCounts ==
  ASSUME Counts, NEW h, NEW res, NEW ts, NEW x \in Circumstances(ts),
         Started(h, res, x) \/ Aborted(h, res, x)
  PROVE  Counts'
<1>1. Call("start", res.g, res.ret, x)
  BY DEF Started, Aborted
<1> QED
  BY <1>1, CallsCount

LEMMA CoresCount ==
  ASSUME Counts, NEW h, NEW g, os_mon_start_cores(h, g) \/ Refused("PARAM")
  PROVE  Counts'
<1>1. CASE Refused("PARAM") \/ Refused("RESOURCE")
  BY <1>1, CalmCounts DEF Refused
<1>2. CASE ~(Refused("PARAM") \/ Refused("RESOURCE"))
  <2>1. \E x \in Circumstances(g.cores) : \E res : Started(h, res, x) \/ Aborted(h, res, x)
    BY <1>2 DEF os_mon_start_cores
  <2> QED
    BY <2>1, StartCounts
<1> QED
  BY <1>1, <1>2

LEMMA PidsCount ==
  ASSUME Counts, NEW h, NEW ps, NEW ev, os_mon_start_pids(h, ps, ev) \/ Refused("PARAM")
  PROVE  Counts'
<1>1. CASE Refused("PARAM")
  BY <1>1, CalmCounts DEF Refused
<1>2. CASE ~Refused("PARAM")
  <2>1. \E x \in Circumstances(TidFind(os, ps)) : \E res : Started(h, res, x)
    BY <1>2 DEF os_mon_start_pids
  <2> QED
    BY <2>1, StartCounts
<1> QED
  BY <1>1, <1>2

LEMMA AddCounts ==
  ASSUME Counts, NEW h, os_mon_add_pids(h)
  PROVE  Counts'
<1>1. PICK ps \in PidSets :
        \/ \E g, ret : Call("add", g, ret, Calm)
        \/ \E x \in Circumstances(TidFind(os, ps) \ grp[h].tids) : \E g, ret : Call("add", g, ret, x)
  BY DEF os_mon_add_pids
<1>2. CASE \E g, ret : Call("add", g, ret, Calm)
  BY <1>2, CalmCounts
<1>3. CASE \E x \in Circumstances(TidFind(os, ps) \ grp[h].tids) : \E g, ret : Call("add", g, ret, x)
  BY <1>3, CallsCount
<1> QED
  BY <1>1, <1>2, <1>3

LEMMA OthersCount ==
  ASSUME Counts, NEW h, os_mon_remove_pids(h) \/ pqos_mon_stop(h) \/ pqos_mon_poll(h)
  PROVE  Counts'
<1>1. CASE os_mon_remove_pids(h)
  <2>1. PICK ts : \E x \in StopCircumstances(ts) : \E g, ret : Call("remove", g, ret, x)
    BY <1>1 DEF os_mon_remove_pids
  <2> QED
    BY <2>1, StopsCount
<1>2. CASE pqos_mon_stop(h)
  <2>1. \E x \in StopCircumstances(grp[h].tids) : \E g, ret : Call("stop", g, ret, x)
    BY <1>2 DEF pqos_mon_stop
  <2> QED
    BY <2>1, StopsCount
<1>3. CASE pqos_mon_poll(h)
  <2>1. \E x \in Circumstances({}) : \E g, ret : Call("poll", g, ret, x)
    BY <1>3 DEF pqos_mon_poll
  <2> QED
    BY <2>1, CallsCount
<1> QED
  BY <1>1, <1>2, <1>3

LEMMA CountsStep ==
  ASSUME Counts, Next
  PROVE  Counts'
<1>1. CASE \E h \in Handle, ks \in CoreSets, ev \in EventSets :
             pqos_mon_start(h, ks, ev) \/ pqos_mon_start_cores_ext(h, ks, ev)
  <2>1. \E h, g : os_mon_start_cores(h, g) \/ Refused("PARAM")
    BY <1>1 DEF pqos_mon_start, pqos_mon_start_cores_ext
  <2> QED
    BY <2>1, CoresCount
<1>2. CASE \E h \in Handle, ps \in PidSets, ev \in EventSets :
             pqos_mon_start_pids(h, ps, ev) \/ pqos_mon_start_pids2(h, ps, ev)
  <2>1. \E h, ps, ev : os_mon_start_pids(h, ps, ev) \/ Refused("PARAM")
    BY <1>2 DEF pqos_mon_start_pids, pqos_mon_start_pids2
  <2> QED
    BY <2>1, PidsCount
<1>3. CASE \E h \in Handle : os_mon_add_pids(h)
  BY <1>3, AddCounts
<1>4. CASE \E h \in Handle : os_mon_remove_pids(h) \/ pqos_mon_stop(h) \/ pqos_mon_poll(h)
  BY <1>4, OthersCount
<1>5. CASE resctrl_mon_reset \/ os_alloc_assoc_set \/ os_alloc_assoc_set_pid
  <2>1. \E op, g, ret : Call(op, g, ret, Calm)
    BY <1>5 DEF resctrl_mon_reset, os_alloc_assoc_set, os_alloc_assoc_set_pid
  <2> QED
    BY <2>1, CalmCounts
<1>6. CASE ThreadEnds
  BY <1>6, MoveCounts DEF ThreadEnds
<1>7. CASE OtherMoves
  BY <1>7, MoveCounts DEF OtherMoves
<1>8. CASE Crash
  BY <1>8, MoveCounts DEF Crash
<1> QED
  BY <1>1, <1>2, <1>3, <1>4, <1>5, <1>6, <1>7, <1>8 DEF Next

-----------------------------------------------------------------------------
(* The theorems *)

Inv == Owned /\ LastOK /\ Counts

LEMMA InitInv ==
  ASSUME Init
  PROVE  Inv
<1>1. /\ os = [alive |-> Tasks, cls |-> [x \in Target |-> 0], mon |-> [x \in Target |-> None],
               dirs |-> {}, fds |-> {}, leak |-> {}, lk |-> 0]
      /\ grp = [h \in Handle |-> Idle] /\ next = 1 /\ orphan = {} /\ last = NoCall
      /\ calls = 0 /\ moves = 0
  BY DEF Init
<1>2. os \in OsType
  BY <1>1, ZeroClass DEF OsType, None
<1>3. os.dirs = {} /\ os.fds = {} /\ \A x \in Target : os.mon[x] = None
  BY <1>1
<1>4. World(os) /\ Names(os) = {}
  BY <1>2, <1>3 DEF World, TagsIn, Names
<1>5. Idle \in GroupType /\ Idle.on = FALSE
  BY DEF Idle, GroupType, None
<1>6. grp \in [Handle -> GroupType] /\ Actives = {}
  BY <1>1, <1>5 DEF Actives
<1>7. Owned
  <2>1. next \in Name /\ orphan \subseteq Name
    BY <1>1 DEF Name, None
  <2>2. NamesUsed /\ LeftOnlyOnError /\ DescriptorsOwned
    BY <1>3, <1>4 DEF NamesUsed, LeftOnlyOnError, DescriptorsOwned
  <2>3. TagsOwned
    BY <1>3 DEF TagsOwned, Target
  <2> QED
    BY <1>4, <1>6, <2>1, <2>2, <2>3 DEF Owned
<1>8. LastOK
  <2>1. last.op = "none" /\ last.ret = "OK"
    BY <1>1 DEF NoCall
  <2> QED
    BY <2>1 DEF LastOK, StopCleans, PollRestores, CachesApart
<1>9. Counts
  BY <1>1, InputAssumption DEF Counts
<1> QED
  BY <1>7, <1>8, <1>9 DEF Inv

LEMMA StepInv ==
  ASSUME Inv, [Next]_vars
  PROVE  Inv'
<1>1. CASE Next
  BY <1>1, NextStep, CountsStep DEF Inv
<1>2. CASE UNCHANGED vars
  <2>1. Owned'
    BY <1>2, SameStep DEF Inv, vars
  <2>2. LastOK' /\ Counts'
    BY <1>2 DEF Inv, vars, LastOK, Counts, StopCleans, PollRestores, CachesApart
  <2> QED
    BY <2>1, <2>2 DEF Inv
<1> QED
  BY <1>1, <1>2

\* What a group took from the kernel is given back or the error was reported:
\* pqos_mon_stop() leaves no tag and no directory of its group, and every
\* directory and descriptor is one of a group that is monitored, or was left by
\* a crash or a call that failed (resctrl_mon_stop(), perf_mon_stop()).
THEOREM AllIsGivenBack ==
  Spec => []NothingLeft
<1>1. Init => Inv
  BY InitInv
<1>2. Inv /\ [Next]_vars => Inv'
  BY StepInv
<1>3. Inv => NothingLeft
  BY DEF Inv, Owned, LastOK, NothingLeft
<1> QED
  BY <1>1, <1>2, <1>3, PTL DEF Spec

\* Where L3 ids fit the word resctrl_mon_assign() keeps them in, a group of cores
\* is counted apart from all others: a name it takes over is that of cores on
\* other caches, and after a poll that succeeds each of its cores has a tag again.
THEOREM GroupsCountedApart ==
  ASSUME SmallIds
  PROVE  Spec => []CountedApart
<1>1. Init => Inv
  BY InitInv
<1>2. Inv /\ [Next]_vars => Inv'
  BY StepInv
<1>3. Inv => CountedApart
  <2>1. SUFFICES ASSUME Inv
                 PROVE  CountedApart
    OBVIOUS
  <2>2. TypeOK
    BY <2>1 DEF Inv, Owned, World, TagsIn, LastOK, Counts, TypeOK
  <2> QED
    BY <2>1, <2>2 DEF Inv, LastOK, CountedApart
<1> QED
  BY <1>1, <1>2, <1>3, PTL DEF Spec

\* Starting, polling and stopping a group of cores, also when it fails half way,
\* leaves the tags of all other cores alone (os_mon_start_events(),
\* resctrl_mon_poll(), resctrl_mon_stop(), resctrl_mon_shared()).
THEOREM OthersAreUntouched ==
  Spec => OthersUntouched
<1>1. Init => Inv
  BY InitInv
<1>2. Inv /\ [Next]_vars => Inv'
  BY StepInv
<1>3. Inv /\ [Next]_vars =>
        [calls' # calls /\ last'.op \in {"start", "poll", "stop"} /\ last'.g.cores # {} =>
           \A k \in Core \ last'.g.cores : os'.mon[k] = os.mon[k]]_vars
  BY NextStep DEF Inv, Apart
<1> QED
  BY <1>1, <1>2, <1>3, PTL DEF Spec, OthersUntouched

=============================================================================
