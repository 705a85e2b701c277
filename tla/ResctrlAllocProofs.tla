------------------------- MODULE ResctrlAllocProofs -------------------------
(***************************************************************************)
(* Proofs about ResctrlAlloc for every platform: any cores, threads,       *)
(* technologies, classes and resources, any requests and any peer.         *)
(***************************************************************************)
EXTENDS ResctrlAlloc, TLAPS, WellFoundedInduction

-----------------------------------------------------------------------------
(* The number of classes *)

\* A set of natural numbers that is not empty has a least element.
LEMMA LeastExists ==
  ASSUME NEW S \in SUBSET Nat, S # {}
  PROVE  MinOf(S) \in S /\ \A n \in S : MinOf(S) <= n
<1>1. PICK m \in S : \A n \in S : ~(<<n, m>> \in OpToRel(<, Nat))
  BY NatLessThanWellFounded, WFMin
<1>2. ASSUME NEW n \in S
      PROVE  m <= n
  <2>1. ~(n < m)
    BY <1>1 DEF OpToRel
  <2> QED
    BY <2>1
<1> QED
  BY <1>2 DEF MinOf

\* A set of numbers up to some bound has a greatest element.
LEMMA GreatestExists ==
  ASSUME NEW n \in Nat, NEW S \in SUBSET (1 .. n), S # {}
  PROVE  MaxOf(S) \in S
<1> DEFINE R == {n - c : c \in S}
<1>1. R \in SUBSET Nat /\ R # {}
  <2>1. \A c \in S : n - c \in Nat
    OBVIOUS
  <2> QED BY <2>1
<1>2. PICK r \in R : \A q \in R : r <= q
  <2> HIDE DEF R
  <2> QED BY <1>1, LeastExists
<1>3. PICK m \in S : r = n - m
  BY <1>2
<1>4. \A c \in S : n - c \in R
  OBVIOUS
<1>5. \A c \in S : c <= m
  <2> SUFFICES ASSUME NEW c \in S PROVE c <= m
    OBVIOUS
  <2>1. n - m <= n - c
    BY <1>2, <1>3, <1>4
  <2>2. n \in Int /\ m \in Int /\ c \in Int
    OBVIOUS
  <2> HIDE DEF R
  <2> QED BY <2>1, <2>2
<1> QED
  BY <1>3, <1>5 DEF MaxOf

\* The classes a call may use are within those the platform has.
LEMMA ClassesFit ==
  ASSUME NEW on, amd \in BOOLEAN
  PROVE  /\ Grps(on) \in Nat
         /\ 0 \in Class
         /\ 0 .. Grps(on) - 1 \subseteq Class
         /\ 1 .. Grps(on) - 1 \subseteq Class \ {0}
<1> DEFINE all == {NumClos[t] : t \in Tech \ {"SMBA"}}
           now == {Classes(t, on) : t \in Techs}
<1>1. all \in SUBSET (Nat \ {0}) /\ all # {}
  BY PlatformAssumption
<1>2. Techs \subseteq Tech /\ Tech \ {"SMBA"} \subseteq Techs /\ Techs # {}
  BY PlatformAssumption DEF Techs
<1>3. \A t \in Techs : Classes(t, on) \in Nat /\ Classes(t, on) <= NumClos[t]
  BY <1>2, PlatformAssumption DEF Classes
<1>4. now \in SUBSET Nat /\ now # {}
  BY <1>2, <1>3
<1>5. MinOf(all) \in all /\ MinOf(all) \in Nat \ {0}
  <2> HIDE DEF all
  <2>1. all \in SUBSET Nat
    BY <1>1
  <2> QED BY <1>1, <2>1, LeastExists
<1>6. Grps(on) \in now /\ \A n \in now : Grps(on) <= n
  <2>1. Grps(on) = MinOf(now)
    BY DEF Grps
  <2> HIDE DEF now
  <2> QED BY <1>4, <2>1, LeastExists
<1>7. PICK t \in Tech \ {"SMBA"} : MinOf(all) = NumClos[t]
  BY <1>5
<1>8. Grps(on) <= MinOf(all)
  <2>1. Classes(t, on) \in now /\ Classes(t, on) <= NumClos[t] /\ Classes(t, on) \in Nat
    BY <1>2, <1>3
  <2>2. Grps(on) <= Classes(t, on)
    BY <1>6, <2>1
  <2>3. Grps(on) \in Nat /\ MinOf(all) \in Nat
    BY <1>4, <1>5, <1>6
  <2> HIDE DEF all, now
  <2> QED BY <1>7, <2>1, <2>2, <2>3
<1>9. Grps(on) \in Nat
  BY <1>4, <1>6
<1>10. Class = 0 .. MinOf(all) - 1
  BY DEF Class
<1> HIDE DEF all, now
<1> QED
  BY <1>5, <1>8, <1>9, <1>10

-----------------------------------------------------------------------------
(* Calls *)

LEMMA ElemsOf ==
  ASSUME NEW X, NEW s \in Seq(X), s # <<>>
  PROVE  /\ Head(s) \in X /\ Head(s) \in Elems(s) /\ s[1] = Head(s)
         /\ Elems(s) \subseteq X
         /\ Tail(s) \in Seq(X) /\ Elems(Tail(s)) \subseteq Elems(s)
         /\ Elems(s) \subseteq {Head(s)} \cup Elems(Tail(s))
         /\ Len(s) = 1 <=> Tail(s) = <<>>
<1>1. Len(s) \in Nat /\ Len(s) >= 1 /\ s \in [1 .. Len(s) -> X]
  OBVIOUS
<1>2. /\ Head(s) = s[1] /\ Tail(s) \in Seq(X) /\ Len(Tail(s)) = Len(s) - 1
      /\ \A n \in 1 .. Len(s) - 1 : Tail(s)[n] = s[n + 1]
  OBVIOUS
<1>3. Elems(s) \subseteq {Head(s)} \cup Elems(Tail(s))
  <2> SUFFICES ASSUME NEW n \in 1 .. Len(s), n # 1
               PROVE  s[n] \in Elems(Tail(s))
    BY <1>2 DEF Elems
  <2>1. n - 1 \in 1 .. Len(s) - 1 /\ (n - 1) + 1 = n
    BY <1>1
  <2> QED
    BY <1>2, <2>1 DEF Elems
<1>4. Elems(Tail(s)) \subseteq Elems(s)
  <2> SUFFICES ASSUME NEW n \in 1 .. Len(s) - 1
               PROVE  s[n + 1] \in Elems(s)
    BY <1>2 DEF Elems
  <2>1. n + 1 \in 1 .. Len(s)
    BY <1>1
  <2> QED
    BY <2>1 DEF Elems
<1>5. Head(s) \in Elems(s) /\ Elems(s) \subseteq X
  BY <1>1, <1>2 DEF Elems
<1>6. Len(s) = 1 <=> Tail(s) = <<>>
  BY <1>1, <1>2
<1> QED
  BY <1>1, <1>2, <1>3, <1>4, <1>5, <1>6

LEMMA ElemsOfOne ==
  ASSUME NEW X, NEW k \in X
  PROVE  <<k>> \in Seq(X) /\ <<k>> # <<>> /\ Elems(<<k>>) = {k}
  BY DEF Elems

Fields == {"op", "at", "cls", "arg", "todo", "buf", "tech", "id", "out", "ret", "cfg"}

Shape(c) == c = [f \in Fields |-> c[f]]

CoreCall(c) ==
  /\ c.op \in CoreOps /\ c.at \in {"lock", "write"}
  /\ c.cls \in Class /\ (c.op = "assign" => c.cls # 0)
  /\ c.arg \in Seq(Core) /\ c.todo \in Seq(Core) \ {<<>>}
  /\ Elems(c.todo) \subseteq Elems(c.arg)

TaskCall(c) ==
  /\ c.op \in TaskOps /\ c.at \in {"lock", "tasks"}
  /\ c.cls \in Class
  /\ c.arg \in Seq(Task) /\ c.todo \in Seq(Task) \ {<<>>}
  /\ Elems(c.todo) \subseteq Elems(c.arg)

SchemataCall(c) ==
  /\ c.op = "set" /\ c.at \in {"lock", "read", "write"}
  /\ c.tech \in Tech /\ c.id \in Ids[c.tech]
  /\ c.arg \in Seq(Entry(c.tech)) /\ c.todo \in Seq(Entry(c.tech)) \ {<<>>}
  /\ Elems(c.todo) \subseteq Elems(c.arg)

ResetCall(c) ==
  /\ c.op = "reset"
  /\ c.at \in {"probe", "cores", "umount", "mount", "schematas", "scan", "proc"}
  /\ c.cfg[1] \in Config

\* What a call under way looks like.
CallOK(c) ==
  /\ Shape(c) /\ c.ret \in Rets
  /\ CoreCall(c) \/ TaskCall(c) \/ SchemataCall(c) \/ ResetCall(c) \/ c = NoCall

LEMMA NoCallIs == CallOK(NoCall) /\ NoCall.at = "idle" /\ NoCall.op = "none"
  BY DEF CallOK, Shape, Fields, NoCall, Rets

LEMMA ResultIs ==
  ASSUME NEW c, NEW r
  PROVE  /\ Result(c, r).op = c.op /\ Result(c, r).ret = r /\ Result(c, r).cls = c.cls
         /\ Result(c, r).items = c.arg /\ Result(c, r).tech = c.tech
         /\ Result(c, r).id = c.id
  BY DEF Result, NoResult

-----------------------------------------------------------------------------
(* The library and the file system between the calls, and during them *)

SchShape ==
  /\ sch = [c \in Class |-> sch[c]]
  /\ \A c \in Class : sch[c] = [t \in Tech |-> sch[c][t]]

\* The lock is held while a file is read, changed and written.
Holding == flock = "lib" <=> call.at \in {"read", "write", "tasks"}

\* A call belongs to an initialised library, and its result is to come.
UnderWay == call # NoCall => up /\ last = NoResult

\* What is mounted is what the capabilities say, and a reset that has not
\* failed so far has found a directory for every class.
Agreed ==
  /\ CapMatchesMount
  /\ call.at = "mount" => mnt = NoMount
  /\ GroupsReady
  /\ (call.at \in {"scan", "proc"} /\ call.ret = "OK") => Mounted /\ 1 .. grps - 1 \subseteq dirs

Base == TypeOK /\ SchShape /\ CallOK(call) /\ Holding /\ UnderWay /\ Agreed

\* A file that is about to be written is still what was read from it.
Reading ==
  call.at = "write" =>
    /\ call.op \in CoreOps => call.buf = CpuMask(call.cls)
    /\ call.op = "set" =>
         /\ Head(call.todo).class \in Class
         /\ call.buf = sch[Head(call.todo).class][call.tech]

\* The class of an assignment is the caller's alone.
Assigning ==
  /\ (call.op = "assign" /\ ~moved) =>
       /\ \A k \in Core : cpu[k] = call.cls => k \in Elems(call.arg)
       /\ \A p \in Task : task[p] = call.cls => p \in fresh
       /\ \A k \in Elems(call.arg) : cpu[k] = call.cls \/ k \in Elems(call.todo)
  /\ (call.op = "assign_pid" /\ call.at = "tasks") =>
       /\ \A k \in Core : cpu[k] # call.cls
       /\ \A p \in Task : task[p] = call.cls => p \in Elems(call.arg) \cup fresh

\* The number of entries of a table that are written.
Written(c) == Len(c.arg) - Len(c.todo)

\* What is left of the table is its end.
TableLeft(c) ==
  Written(c) \in Nat /\ \A i \in 1 .. Len(c.todo) : c.todo[i] = c.arg[Written(c) + i]

\* The first n entries are in the file, unless a later one has replaced them.
InFile(s, t, i, table, n) ==
  \A k \in 1 .. n :
    (\A m \in k + 1 .. n : table[m].class # table[k].class)
      => /\ table[k].class \in Class
         /\ s[table[k].class][t][i] = Effective(t, table[k])

Setting ==
  call.op = "set" =>
    /\ TableLeft(call) /\ (call.at = "lock" => Written(call) = 0)
    /\ InFile(sch, call.tech, call.id, call.arg, Written(call))

\* How far a light reset that nobody disturbed has come.
Resetting ==
  (call.op = "reset" /\ call.ret = "OK" /\ ~moved) =>
    /\ call.at \in {"schematas", "scan", "proc"} => \A k \in Core : cpu[k] = 0
    /\ call.at \in {"scan", "proc"} =>
         \A c \in 0 .. grps - 1 : \A t \in Techs : sch[c][t] = Fresh(mnt)[t]
    /\ call.at = "proc" => \A p \in Leader \ fresh : task[p] \in {0, Dead} \/ p \in call.buf

-----------------------------------------------------------------------------
(* Base is an invariant *)

\* The part of TypeOK that is about the file system.
Files ==
  /\ mnt \in Mount \cup {NoMount}
  /\ dirs \subseteq Class \ {0}
  /\ cpu \in [Core -> Class \cup {Other}]
  /\ task \in [Task -> Class \cup {Other, Dead}]
  /\ \A c \in Class, t \in Tech : sch[c][t] \in [Ids[t] -> Value(t)]
  /\ SchShape

LEMMA FilesKept ==
  ASSUME Files, UNCHANGED fs
  PROVE  Files'
  BY DEF Files, fs, SchShape

LEMMA BaseFiles ==
  ASSUME Base
  PROVE  Files
  BY DEF Base, TypeOK, Files

\* A call goes on.
LEMMA GoesOn ==
  ASSUME Base, Files', UNCHANGED <<amd, up, cap, fresh, moved, calls, mnt, dirs, last>>,
         call # NoCall, NEW d, call' = d, CallOK(d), d # NoCall, d.at # "mount",
         flock' \in {"free", "lib", "peer"}, Holding',
         (d.at \in {"scan", "proc"} /\ d.ret = "OK") => Mounted /\ 1 .. grps - 1 \subseteq dirs
  PROVE  Base'
<1>1. TypeOK'
  <2>1. d.at \in Steps /\ d.ret \in Rets
    BY NoCallIs DEF CallOK, CoreCall, TaskCall, SchemataCall, ResetCall, Steps
  <2> QED
    BY <2>1 DEF Base, TypeOK, Files
<1>2. UnderWay'
  BY DEF Base, UnderWay
<1>3. grps' = grps
  BY DEF grps, Grps, Techs
<1>4. Agreed'
  BY <1>3 DEF Base, Agreed, CapMatchesMount, GroupsReady, Mounted
<1> QED
  BY <1>1, <1>2, <1>4 DEF Base, Files

\* A call returns.
LEMMA Returns ==
  ASSUME Base, Files', UNCHANGED <<amd, up, cap, fresh, moved, calls, mnt, dirs>>,
         call # NoCall, call' = NoCall, NEW r \in Rets, last' = Result(call, r),
         flock' \in {"free", "peer"},
         (call.op = "reset" /\ r = "OK") => Mounted /\ 1 .. grps - 1 \subseteq dirs
  PROVE  Base'
<1>1. last'.op = call.op /\ last'.ret = r
  BY ResultIs
<1>2. call.op # "init"
  BY DEF Base, CallOK, CoreCall, TaskCall, SchemataCall, ResetCall, CoreOps, TaskOps
<1>3. TypeOK'
  BY <1>1, NoCallIs DEF Base, TypeOK, Files, CallOK, Steps
<1>4. UnderWay' /\ Holding' /\ CallOK(call)'
  BY NoCallIs DEF UnderWay, Holding
<1>5. grps' = grps
  BY DEF grps, Grps, Techs
<1>6. Agreed'
  BY <1>1, <1>2, <1>5, NoCallIs DEF Base, Agreed, CapMatchesMount, GroupsReady, Mounted
<1> QED
  BY <1>3, <1>4, <1>6 DEF Base, Files

\* Other users of resctrl, and processes, move.
LEMMA OthersMove ==
  ASSUME Base, Files', UNCHANGED <<amd, up, cap, call, calls, mnt, dirs>>,
         NEW f \in SUBSET Task, NEW m \in BOOLEAN, Meanwhile(f, m),
         flock' \in {"free", "lib", "peer"}, flock' = "lib" <=> flock = "lib"
  PROVE  Base'
<1>1. /\ last'.ret \in Rets /\ fresh' \in SUBSET Task /\ moved' \in BOOLEAN
      /\ last' = last \/ last' = NoResult
  <2>1. fresh \in SUBSET Task /\ moved \in BOOLEAN /\ last.ret \in Rets
    BY DEF Base, TypeOK
  <2>2. NoResult.ret \in Rets
    BY DEF NoResult, Rets
  <2>3. (moved \/ m) \in BOOLEAN
    OBVIOUS
  <2>4. CASE call = NoCall
    BY <2>2, <2>4 DEF Meanwhile
  <2>5. CASE call # NoCall
    BY <2>1, <2>3, <2>5 DEF Meanwhile
  <2> QED
    BY <2>4, <2>5
<1>2. TypeOK'
  BY <1>1 DEF Base, TypeOK, Files
<1>3. UnderWay' /\ Holding' /\ CallOK(call)'
  BY <1>1 DEF Base, UnderWay, Holding, CallOK
<1>4. grps' = grps
  BY DEF grps, Grps, Techs
<1>5. NoResult.op = "none"
  BY DEF NoResult
<1>6. Agreed'
  BY <1>1, <1>4, <1>5 DEF Base, Agreed, CapMatchesMount, GroupsReady, Mounted
<1> QED
  BY <1>2, <1>3, <1>6 DEF Base, Files

\* A call begins.
LEMMA Begun ==
  ASSUME Base, NEW d, Begin(d), CallOK(d), d.at \in {"lock", "probe"}
  PROVE  Base'
<1>1. d # NoCall
  BY NoCallIs
<1>2. flock # "lib"
  BY NoCallIs DEF Base, Holding, Begin
<1>3. Files'
  BY BaseFiles, FilesKept DEF Begin
<1>4. TypeOK'
  <2>1. calls' \in 0 .. MaxCalls
    BY InputAssumption DEF Base, TypeOK, Begin, Counted
  <2> QED
    BY <1>3, <2>1 DEF Base, TypeOK, Files, Begin, CallOK, NoResult, Rets, Steps
<1>5. UnderWay' /\ Holding' /\ CallOK(call)'
  BY <1>1, <1>2 DEF Base, UnderWay, Holding, Begin
<1>6. grps' = grps
  BY DEF grps, Grps, Techs, Begin
<1>7. Agreed'
  BY <1>6 DEF Base, Agreed, CapMatchesMount, GroupsReady, Mounted, NoResult, Begin, fs
<1> QED
  BY <1>3, <1>4, <1>5, <1>7 DEF Base, Files

\* A call returns at once.
LEMMA Refused ==
  ASSUME Base, NEW d, NEW r \in Rets, Refuse(d, r), d.op \in {"init", "reset"} => r # "OK"
  PROVE  Base'
<1>1. last'.op = d.op /\ last'.ret = r
  BY ResultIs DEF Refuse
<1>2. flock # "lib"
  BY NoCallIs DEF Base, Holding, Refuse
<1>3. Files'
  BY BaseFiles, FilesKept DEF Refuse
<1>4. TypeOK'
  <2>1. calls' \in 0 .. MaxCalls
    BY InputAssumption DEF Base, TypeOK, Refuse, Counted
  <2> QED
    BY <1>1, <1>3, <2>1, NoCallIs DEF Base, TypeOK, Files, Refuse, CallOK, Rets, Steps
<1>5. UnderWay' /\ Holding' /\ CallOK(call)'
  BY <1>2, NoCallIs DEF Base, UnderWay, Holding, Refuse
<1>6. grps' = grps
  BY DEF grps, Grps, Techs, Refuse
<1>7. Agreed'
  BY <1>1, <1>6, NoCallIs DEF Base, Agreed, CapMatchesMount, GroupsReady, Mounted, Refuse, fs
<1> QED
  BY <1>3, <1>4, <1>5, <1>7 DEF Base, Files

LEMMA BegunOrRefused ==
  ASSUME Base, NEW d, NEW r \in Rets, Begins(d, r),
         r = "OK" => CallOK(d) /\ d.at \in {"lock", "probe"}
  PROVE  Base'
  BY Begun, Refused DEF Begins

\* The class an assignment finds.
LEMMA UnusedIs ==
  ASSUME TypeOK, Unused # {}
  PROVE  MaxOf(Unused) \in Unused /\ MaxOf(Unused) \in Class \ {0}
<1>1. grps \in Nat /\ 1 .. grps - 1 \subseteq Class \ {0}
  BY ClassesFit DEF TypeOK, grps
<1>2. Unused \in SUBSET (1 .. grps) /\ Unused \subseteq 1 .. grps - 1
  BY <1>1 DEF Unused
<1>3. MaxOf(Unused) \in Unused
  <2>1. PICK n \in Nat : n = grps
    BY <1>1
  <2>2. PICK S : S = Unused
    OBVIOUS
  <2>3. S \in SUBSET (1 .. n) /\ S # {}
    BY <1>2, <2>1, <2>2
  <2>4. MaxOf(S) \in S
    BY <2>3, GreatestExists
  <2> QED
    BY <2>2, <2>4
<1> QED
  BY <1>1, <1>2, <1>3

\* A call as it begins.
LEMMA NewCoreCall ==
  ASSUME NEW o \in CoreOps, NEW c \in Class, o = "assign" => c # 0,
         NEW s \in Seq(Core) \ {<<>>}, NEW d, Shape(d), d.ret = "OK",
         d.op = o, d.at = "lock", d.cls = c, d.todo = s, d.arg = s
  PROVE  CallOK(d)
  BY DEF CallOK, CoreCall, Rets

LEMMA NewTaskCall ==
  ASSUME NEW o \in TaskOps, NEW c \in Class, NEW s \in Seq(Task) \ {<<>>},
         NEW d, Shape(d), d.ret = "OK",
         d.op = o, d.at = "lock", d.cls = c, d.todo = s, d.arg = s
  PROVE  CallOK(d)
  BY DEF CallOK, TaskCall, Rets

LEMMA AssocSetStarts ==
  ASSUME Base, os_alloc_assoc_set
  PROVE  Base'
<1>1. PICK k \in Core, c \in AskClass :
        Begins([NoCall EXCEPT !.op = "assoc_set", !.at = "lock", !.cls = c, !.todo = <<k>>,
                  !.arg = <<k>>],
               IF c < grps THEN "OK" ELSE "PARAM")
  BY DEF os_alloc_assoc_set
<1>2. PICK d : d = [NoCall EXCEPT !.op = "assoc_set", !.at = "lock", !.cls = c,
                      !.todo = <<k>>, !.arg = <<k>>]
  OBVIOUS
<1>3. PICK r : r = IF c < grps THEN "OK" ELSE "PARAM"
  OBVIOUS
<1>4. /\ Shape(d) /\ d.ret = "OK" /\ d.op = "assoc_set" /\ d.at = "lock" /\ d.cls = c
      /\ d.todo = <<k>> /\ d.arg = <<k>>
  BY <1>2 DEF Shape, Fields, NoCall
<1>5. r = "OK" => c \in Class
  <2>1. c \in Nat /\ grps \in Nat /\ 0 .. grps - 1 \subseteq Class
    BY ClassesFit, InputAssumption DEF Base, TypeOK, grps
  <2> QED
    BY <1>3, <2>1
<1>6. <<k>> \in Seq(Core) \ {<<>>}
  BY ElemsOfOne
<1>7. r = "OK" => CallOK(d)
  BY <1>4, <1>5, <1>6, NewCoreCall DEF CoreOps
<1>8. r \in Rets
  BY <1>3 DEF Rets
<1> QED
  BY <1>1, <1>2, <1>3, <1>4, <1>7, <1>8, BegunOrRefused

LEMMA AssignStarts ==
  ASSUME Base, os_alloc_assign
  PROVE  Base'
<1> DEFINE cc == IF Unused # {} THEN MaxOf(Unused) ELSE 0
           rr == IF \E g \in 1 .. grps - 1 : ~Opens(g) THEN "ERROR"
                 ELSE IF Unused # {} THEN "OK" ELSE "RESOURCE"
<1>1. PICK s \in CoreLists :
        Begins([NoCall EXCEPT !.op = "assign", !.at = "lock", !.cls = cc, !.todo = s,
                  !.arg = s], rr)
  BY DEF os_alloc_assign
<1>2. PICK c : c = cc
  OBVIOUS
<1>3. PICK r : r = rr
  OBVIOUS
<1>4. PICK d : d = [NoCall EXCEPT !.op = "assign", !.at = "lock", !.cls = c, !.todo = s,
                      !.arg = s]
  OBVIOUS
<1>5. /\ Shape(d) /\ d.ret = "OK" /\ d.op = "assign" /\ d.at = "lock" /\ d.cls = c
      /\ d.todo = s /\ d.arg = s
  BY <1>4 DEF Shape, Fields, NoCall
<1>6. r = "OK" => c \in Class /\ c # 0
  BY <1>2, <1>3, UnusedIs DEF Base
<1>7. s \in Seq(Core) \ {<<>>}
  BY InputAssumption
<1>8. r = "OK" => CallOK(d)
  BY <1>5, <1>6, <1>7, NewCoreCall DEF CoreOps
<1>9. r \in Rets
  BY <1>3 DEF Rets
<1>10. Begins(d, r)
  BY <1>1, <1>2, <1>3, <1>4
<1> HIDE DEF cc, rr
<1> QED
  BY <1>5, <1>8, <1>9, <1>10, BegunOrRefused

LEMMA ReleaseStarts ==
  ASSUME Base, os_alloc_release
  PROVE  Base'
<1>1. PICK s \in CoreLists :
        Begin([NoCall EXCEPT !.op = "release", !.at = "lock", !.todo = s, !.arg = s])
  BY DEF os_alloc_release
<1>2. PICK d : d = [NoCall EXCEPT !.op = "release", !.at = "lock", !.todo = s, !.arg = s]
  OBVIOUS
<1>3. /\ Shape(d) /\ d.ret = "OK" /\ d.op = "release" /\ d.at = "lock" /\ d.cls = 0
      /\ d.todo = s /\ d.arg = s
  BY <1>2 DEF Shape, Fields, NoCall
<1>4. s \in Seq(Core) \ {<<>>} /\ 0 \in Class
  BY InputAssumption, ClassesFit DEF Base, TypeOK
<1>5. CallOK(d)
  BY <1>3, <1>4, NewCoreCall DEF CoreOps
<1> QED
  BY <1>1, <1>2, <1>3, <1>5, Begun

LEMMA AssocSetPidStarts ==
  ASSUME Base, os_alloc_assoc_set_pid
  PROVE  Base'
<1>1. PICK p \in Task, c \in AskClass :
        Begins([NoCall EXCEPT !.op = "assoc_set_pid", !.at = "lock", !.cls = c,
                  !.todo = <<p>>, !.arg = <<p>>],
               IF c < grps THEN "OK" ELSE "PARAM")
  BY DEF os_alloc_assoc_set_pid
<1>2. PICK d : d = [NoCall EXCEPT !.op = "assoc_set_pid", !.at = "lock", !.cls = c,
                      !.todo = <<p>>, !.arg = <<p>>]
  OBVIOUS
<1>3. PICK r : r = IF c < grps THEN "OK" ELSE "PARAM"
  OBVIOUS
<1>4. /\ Shape(d) /\ d.ret = "OK" /\ d.op = "assoc_set_pid" /\ d.at = "lock" /\ d.cls = c
      /\ d.todo = <<p>> /\ d.arg = <<p>>
  BY <1>2 DEF Shape, Fields, NoCall
<1>5. r = "OK" => c \in Class
  <2>1. c \in Nat /\ grps \in Nat /\ 0 .. grps - 1 \subseteq Class
    BY ClassesFit, InputAssumption DEF Base, TypeOK, grps
  <2> QED
    BY <1>3, <2>1
<1>6. <<p>> \in Seq(Task) \ {<<>>}
  BY ElemsOfOne
<1>7. r = "OK" => CallOK(d)
  BY <1>4, <1>5, <1>6, NewTaskCall DEF TaskOps
<1>8. r \in Rets
  BY <1>3 DEF Rets
<1> QED
  BY <1>1, <1>2, <1>3, <1>4, <1>7, <1>8, BegunOrRefused

LEMMA TaskListStarts ==
  ASSUME Base, os_alloc_assign_pid \/ os_alloc_release_pid
  PROVE  Base'
<1>1. PICK o \in {"assign_pid", "release_pid"}, s \in TaskLists :
        Begin([NoCall EXCEPT !.op = o, !.at = "lock", !.todo = s, !.arg = s])
  BY DEF os_alloc_assign_pid, os_alloc_release_pid
<1>2. PICK d : d = [NoCall EXCEPT !.op = o, !.at = "lock", !.todo = s, !.arg = s]
  OBVIOUS
<1>3. /\ Shape(d) /\ d.ret = "OK" /\ d.op = o /\ d.at = "lock" /\ d.cls = 0
      /\ d.todo = s /\ d.arg = s
  BY <1>2 DEF Shape, Fields, NoCall
<1>4. s \in Seq(Task) \ {<<>>} /\ 0 \in Class /\ o \in TaskOps
  BY InputAssumption, ClassesFit DEF Base, TypeOK, TaskOps
<1>5. CallOK(d)
  BY <1>3, <1>4, NewTaskCall
<1> QED
  BY <1>1, <1>2, <1>3, <1>5, Begun

Getters ==
  \/ os_alloc_assoc_get \/ os_alloc_assoc_get_pid \/ os_pid_get_pid_assoc
  \/ os_l3ca_get \/ os_l2ca_get \/ os_mba_get \/ os_mba_get_amd \/ os_smba_get_amd

LEMMA GettersAre ==
  ASSUME Getters
  PROVE  \E d, r : Refuse(d, r) /\ r \in Rets /\ d.op \in {"assoc_get", "assoc_get_pid", "pid_assoc", "get"}
<1>1. CASE os_alloc_assoc_get
  <2>1. PICK c, k, r : Refuse([NoCall EXCEPT !.op = "assoc_get", !.cls = c, !.arg = <<k>>], r)
                       /\ r \in Rets
    BY <1>1 DEF os_alloc_assoc_get, Rets
  <2>2. [NoCall EXCEPT !.op = "assoc_get", !.cls = c, !.arg = <<k>>].op = "assoc_get"
    BY DEF NoCall
  <2> QED
    BY <2>1, <2>2
<1>2. CASE os_alloc_assoc_get_pid
  <2>1. PICK c, p, r : Refuse([NoCall EXCEPT !.op = "assoc_get_pid", !.cls = c, !.arg = <<p>>], r)
                       /\ r \in Rets
    BY <1>2 DEF os_alloc_assoc_get_pid, Rets
  <2>2. [NoCall EXCEPT !.op = "assoc_get_pid", !.cls = c, !.arg = <<p>>].op = "assoc_get_pid"
    BY DEF NoCall
  <2> QED
    BY <2>1, <2>2
<1>3. CASE os_pid_get_pid_assoc
  <2>1. PICK c, x, r : Refuse([NoCall EXCEPT !.op = "pid_assoc", !.cls = c, !.out = x], r)
                       /\ r \in Rets
    BY <1>3 DEF os_pid_get_pid_assoc, Rets
  <2>2. [NoCall EXCEPT !.op = "pid_assoc", !.cls = c, !.out = x].op = "pid_assoc"
    BY DEF NoCall
  <2> QED
    BY <2>1, <2>2
<1>4. CASE \/ os_l3ca_get \/ os_l2ca_get \/ os_mba_get \/ os_mba_get_amd \/ os_smba_get_amd
  <2>1. PICK t : Gets(t)
    BY <1>4 DEF os_l3ca_get, os_l2ca_get, os_mba_get, os_mba_get_amd, os_smba_get_amd
  <2>2. PICK i, x, r : Refuse([NoCall EXCEPT !.op = "get", !.tech = t, !.id = i, !.out = x], r)
                       /\ r \in Rets
    BY <2>1 DEF Gets, Rets
  <2>3. [NoCall EXCEPT !.op = "get", !.tech = t, !.id = i, !.out = x].op = "get"
    BY DEF NoCall
  <2> QED
    BY <2>2, <2>3
<1> QED
  BY <1>1, <1>2, <1>3, <1>4 DEF Getters

LEMMA GettersReturn ==
  ASSUME Base, Getters
  PROVE  Base'
<1>1. PICK d, r : Refuse(d, r) /\ r \in Rets
                  /\ d.op \in {"assoc_get", "assoc_get_pid", "pid_assoc", "get"}
  BY GettersAre
<1> QED
  BY <1>1, Refused

LEMMA SetStarts ==
  ASSUME Base, os_l3ca_set \/ os_l2ca_set \/ os_mba_set \/ os_mba_set_amd \/ os_smba_set_amd
  PROVE  Base'
<1>1. \E t \in AllTech : \E q \in Requests[t], r \in Rets :
        Begins(SetCall(t, q), r) /\ (r = "OK" => t \in Techs /\ q.id \in Ids[t])
  <2>1. CASE os_l3ca_set
    BY <2>1 DEF os_l3ca_set, AllTech, Rets
  <2>2. CASE os_l2ca_set
    BY <2>2 DEF os_l2ca_set, AllTech, Rets
  <2>3. CASE os_mba_set \/ os_mba_set_amd
    BY <2>3 DEF os_mba_set, os_mba_set_amd, MbRefusal, AllTech, Rets
  <2>4. CASE os_smba_set_amd
    BY <2>4 DEF os_smba_set_amd, MbRefusal, AllTech, Rets
  <2> QED
    BY <2>1, <2>2, <2>3, <2>4
<1>2. PICK t \in AllTech :
        \E q \in Requests[t], r \in Rets :
          Begins(SetCall(t, q), r) /\ (r = "OK" => t \in Techs /\ q.id \in Ids[t])
  BY <1>1
<1>3. PICK q \in Requests[t], r \in Rets :
        Begins(SetCall(t, q), r) /\ (r = "OK" => t \in Techs /\ q.id \in Ids[t])
  BY <1>2
<1>4. PICK d : d = SetCall(t, q)
  OBVIOUS
<1>5. /\ Shape(d) /\ d.ret = "OK" /\ d.op = "set" /\ d.at = "lock" /\ d.tech = t
      /\ d.id = q.id /\ d.todo = q.table /\ d.arg = q.table
  BY <1>4 DEF SetCall, Shape, Fields, NoCall
<1>6. q.table \in Seq(Entry(t)) \ {<<>>}
  BY InputAssumption
<1>7. Techs \subseteq Tech
  BY DEF Techs
<1>8. r = "OK" => CallOK(d)
  BY <1>3, <1>5, <1>6, <1>7 DEF CallOK, SchemataCall, Rets
<1> QED
  BY <1>3, <1>4, <1>5, <1>8, BegunOrRefused

LEMMA ResetStarts ==
  ASSUME Base, os_alloc_reset
  PROVE  Base'
<1>1. PICK cfg \in Configs :
        Begins([NoCall EXCEPT !.op = "reset", !.at = "probe", !.cfg = <<cfg>>],
               ResetRefusal(cfg))
  BY DEF os_alloc_reset
<1>2. PICK d : d = [NoCall EXCEPT !.op = "reset", !.at = "probe", !.cfg = <<cfg>>]
  OBVIOUS
<1>3. PICK r : r = ResetRefusal(cfg)
  OBVIOUS
<1>4. Shape(d) /\ d.ret = "OK" /\ d.op = "reset" /\ d.at = "probe" /\ d.cfg = <<cfg>>
  BY <1>2 DEF Shape, Fields, NoCall
<1>5. CallOK(d)
  BY <1>4, InputAssumption DEF CallOK, ResetCall, Rets
<1>6. r \in Rets
  BY <1>3 DEF ResetRefusal, Rets
<1> QED
  BY <1>1, <1>2, <1>3, <1>4, <1>5, <1>6, BegunOrRefused

\* The values of a new group are of their type.
LEMMA FreshTyped ==
  ASSUME amd \in BOOLEAN, NEW m
  PROVE  /\ Fresh(m) = [t \in Tech |-> Fresh(m)[t]]
         /\ \A t \in Tech : Fresh(m)[t] \in [Ids[t] -> Value(t)]
<1>1. \A t \in Tech : KernelDefault(t, m) \in Value(t)
  BY LimitAssumption DEF KernelDefault, Value, Masks
<1>2. \A t \in Tech : Fresh(m)[t] = [i \in Ids[t] |-> KernelDefault(t, m)]
  BY DEF Fresh
<1> QED
  BY <1>1, <1>2 DEF Fresh

\* A file system of which every group is new.
LEMMA NewFiles ==
  ASSUME amd \in BOOLEAN, Files, NEW m, sch' = [c \in Class |-> Fresh(m)],
         cpu' = [k \in Core |-> 0],
         task' = [p \in Task |-> IF task[p] = Dead THEN Dead ELSE 0],
         mnt' \in Mount \cup {NoMount}, dirs' \subseteq Class \ {0}
  PROVE  Files'
<1>1. 0 \in Class
  BY ClassesFit
<1>2. PICK f : f = Fresh(m)
  OBVIOUS
<1>3. f = [t \in Tech |-> f[t]] /\ \A t \in Tech : f[t] \in [Ids[t] -> Value(t)]
  BY <1>2, FreshTyped
<1>4. \A c \in Class : sch'[c] = f
  BY <1>2
<1>5. SchShape'
  BY <1>2, <1>3, <1>4 DEF SchShape
<1> QED
  BY <1>1, <1>3, <1>4, <1>5 DEF Files

\* os_alloc_prep() makes directories of classes only.
LEMMA PrepTyped ==
  ASSUME Files, amd \in BOOLEAN, amd' = amd, PrepFull \/ PrepStops
  PROVE  dirs' \subseteq Class \ {0}
<1>1. PICK g : g = Grps(cap'.cdp)
  OBVIOUS
<1>2. g \in Nat /\ 1 .. g - 1 \subseteq Class \ {0}
  BY <1>1, ClassesFit
<1>3. dirs' \subseteq dirs \cup (1 .. g - 1)
  BY <1>1, <1>2 DEF PrepFull, PrepStops
<1> QED
  BY <1>2, <1>3 DEF Files

LEMMA InitReturns ==
  ASSUME Base, os_alloc_init
  PROVE  Base'
<1>1. amd \in BOOLEAN /\ amd' = amd /\ Files /\ call = NoCall /\ call' = NoCall
      /\ flock # "lib"
  BY BaseFiles, NoCallIs DEF Base, TypeOK, os_alloc_init, Holding
<1>2. Plain \in Mount /\ \A m \in Mount : m # NoMount
  BY DEF Plain, Mount, NoMount
<1>3. dirs' \subseteq Class \ {0}
  BY <1>1, PrepTyped DEF os_alloc_init
<1>4. Files' /\ mnt' \in Mount
  <2>1. CASE Mounted
    <3>1. UNCHANGED <<mnt, cpu, task, sch>>
      BY <2>1 DEF os_alloc_init, CheckMount
    <3> QED
      BY <1>1, <1>3, <2>1, <3>1 DEF Files, SchShape, Mounted
  <2>2. CASE ~Mounted
    <3>1. MountAs(Plain)
      BY <2>2 DEF os_alloc_init, CheckMount
    <3> QED
      BY <1>1, <1>2, <1>3, <3>1, NewFiles DEF MountAs
  <2> QED
    BY <2>1, <2>2
<1>5. cap' = [cdp |-> mnt'.cdp, ctrl |-> IF mnt'.mbps THEN {"MBA"} ELSE {}]
  BY DEF os_alloc_init, CapOf
<1>6. /\ cap'.cdp = mnt'.cdp /\ ("MBA" \in cap'.ctrl <=> mnt'.mbps)
      /\ cap'.cdp \subseteq Cat /\ cap'.ctrl \subseteq {"MBA", "SMBA"}
  <2>1. mnt'.cdp \subseteq Cat /\ mnt'.mbps \in BOOLEAN
    BY <1>4 DEF Mount
  <2> QED
    BY <1>5, <2>1
<1>7. TypeOK'
  BY <1>1, <1>4, <1>6, NoCallIs
     DEF Base, TypeOK, os_alloc_init, Files, NoResult, Rets, CallOK, Steps
<1>8. last'.ret = "OK" => PrepFull
  BY DEF os_alloc_init, NoResult
<1>9. PrepFull => 1 .. grps' - 1 \subseteq dirs'
  BY <1>1 DEF PrepFull, grps, Grps, Techs
<1>10. Agreed'
  BY <1>1, <1>2, <1>4, <1>6, <1>8, <1>9, NoCallIs
     DEF Agreed, CapMatchesMount, GroupsReady, Mounted
<1> QED
  BY <1>1, <1>4, <1>7, <1>10, NoCallIs DEF Base, Files, Holding, UnderWay, os_alloc_init

LEMMA FiniReturns ==
  ASSUME Base, os_alloc_fini
  PROVE  Base'
<1>1. grps' = grps
  BY DEF grps, Grps, Techs, os_alloc_fini
<1>2. Files'
  BY BaseFiles, FilesKept DEF os_alloc_fini
<1>3. TypeOK'
  BY <1>2 DEF Base, TypeOK, Files, os_alloc_fini
<1>4. Agreed'
  BY <1>1 DEF Base, Agreed, CapMatchesMount, GroupsReady, Mounted, os_alloc_fini, fs
<1> QED
  BY <1>2, <1>3, <1>4, NoCallIs DEF Base, Files, Holding, UnderWay, os_alloc_fini

\* Where a call stands tells what it is.
LEMMA WhereItStands ==
  ASSUME Base
  PROVE  /\ call.at = "idle" <=> call = NoCall
         /\ call.op \in CoreOps => CoreCall(call)
         /\ call.op \in TaskOps => TaskCall(call)
         /\ call.op = "set" => SchemataCall(call)
         /\ call.op = "reset" => ResetCall(call)
         /\ call.at = "tasks" => call.op \in TaskOps
         /\ call.at = "read" => call.op = "set"
         /\ call.at = "write" => call.op \in CoreOps \/ call.op = "set"
         /\ call.at \in {"probe", "cores", "umount", "mount", "schematas", "scan", "proc"}
              => call.op = "reset"
         /\ Shape(call) /\ call.ret \in Rets
<1>1. CASE CoreCall(call)
  BY <1>1, NoCallIs DEF Base, CallOK, CoreCall, CoreOps, TaskOps
<1>2. CASE TaskCall(call)
  BY <1>2, NoCallIs DEF Base, CallOK, TaskCall, CoreOps, TaskOps
<1>3. CASE SchemataCall(call)
  BY <1>3, NoCallIs DEF Base, CallOK, SchemataCall, CoreOps, TaskOps
<1>4. CASE ResetCall(call)
  BY <1>4, NoCallIs DEF Base, CallOK, ResetCall, CoreOps, TaskOps
<1>5. CASE call = NoCall
  BY <1>5, NoCallIs DEF Base, CallOK, CoreOps, TaskOps
<1> QED
  BY <1>1, <1>2, <1>3, <1>4, <1>5 DEF Base, CallOK

\* A call that fails leaves the files alone.
LEMMA Fails ==
  ASSUME Base, call # NoCall, NEW r \in Rets \ {"OK"}, Return(r), flock' \in {"free", "peer"},
         Quiet, UNCHANGED fs
  PROVE  Base'
<1>1. Files'
  BY BaseFiles, FilesKept
<1> QED
  BY <1>1, Returns DEF Return, Quiet, fs

LEMMA LockFailsBase ==
  ASSUME Base, resctrl_lock_fails \/ ResetProbeFails
  PROVE  Base'
<1>1. call.at \in {"lock", "probe"} /\ flock' = flock
  BY DEF resctrl_lock_fails, ResetProbeFails, TimesOut
<1>2. call # NoCall
  BY <1>1, NoCallIs
<1>3. flock' \in {"free", "peer"}
  BY <1>1 DEF Base, TypeOK, Holding
<1> QED
  BY <1>2, <1>3, Fails DEF resctrl_lock_fails, ResetProbeFails, Rets

LEMMA ReadMaskBase ==
  ASSUME Base, ReadMask
  PROVE  Base'
<1>1. CoreCall(call) /\ Shape(call) /\ call.ret \in Rets /\ call # NoCall
  BY WhereItStands, NoCallIs DEF ReadMask, CoreOps
<1>2. CASE /\ Locked("lock") /\ UNCHANGED last
           /\ call' = [call EXCEPT !.at = "write", !.buf = CpuMask(call.cls)]
  <2>1. PICK d : d = call'
    OBVIOUS
  <2>2. /\ Shape(d) /\ d.at = "write" /\ d.ret = call.ret /\ d.op = call.op
        /\ d.cls = call.cls /\ d.arg = call.arg /\ d.todo = call.todo
    BY <1>1, <1>2, <2>1 DEF Shape, Fields
  <2>3. CallOK(d)
    BY <1>1, <2>2 DEF CallOK, CoreCall
  <2>4. d # NoCall
    BY <2>2, NoCallIs
  <2>5. Files'
    BY BaseFiles, FilesKept DEF ReadMask
  <2> QED
    BY <1>1, <1>2, <2>1, <2>2, <2>3, <2>4, <2>5, GoesOn
       DEF ReadMask, Quiet, fs, Locked, Holding
<1>3. CASE Leave("ERROR")
  BY <1>1, <1>3, Fails DEF ReadMask, Leave, Rets
<1> QED
  BY <1>2, <1>3 DEF ReadMask

LEMMA WriteMaskBase ==
  ASSUME Base, WriteMask
  PROVE  Base'
<1> DEFINE mask == call.buf \cup Moving
           rest == IF call.op = "assign" THEN Tail(call.todo) ELSE <<>>
<1>1. CoreCall(call) /\ Shape(call) /\ call.ret \in Rets /\ call # NoCall
  BY WhereItStands, NoCallIs DEF WriteMask, CoreOps
<1>2. CASE /\ cpu' = CpusAfter(call.cls, mask)
           /\ IF rest = <<>> THEN Leave("OK")
              ELSE /\ call' = [call EXCEPT !.at = "lock", !.todo = rest, !.buf = {}]
                   /\ flock' = "free" /\ UNCHANGED last
  <2>1. Files'
    <3>1. 0 \in Class /\ call.cls \in Class
      BY <1>1, ClassesFit DEF Base, TypeOK, CoreCall
    <3>2. cpu' \in [Core -> Class \cup {Other}]
      BY <1>2, <3>1 DEF Base, TypeOK, CpusAfter
    <3> QED
      BY <3>2, BaseFiles DEF Files, SchShape, WriteMask
  <2>2. CASE rest = <<>> /\ Leave("OK")
    BY <1>1, <2>1, <2>2, Returns DEF WriteMask, Leave, Return, Quiet, Rets, CoreCall, CoreOps
  <2>3. CASE /\ rest # <<>> /\ flock' = "free" /\ UNCHANGED last
             /\ call' = [call EXCEPT !.at = "lock", !.todo = rest, !.buf = {}]
    <3>1. PICK d : d = call'
      OBVIOUS
    <3>2. /\ Shape(d) /\ d.at = "lock" /\ d.ret = call.ret /\ d.op = call.op
          /\ d.cls = call.cls /\ d.arg = call.arg /\ d.todo = Tail(call.todo)
      BY <1>1, <2>3, <3>1 DEF Shape, Fields
    <3>3. Tail(call.todo) \in Seq(Core) \ {<<>>} /\ Elems(Tail(call.todo)) \subseteq Elems(call.todo)
      BY <1>1, <2>3, ElemsOf DEF CoreCall
    <3>4. CallOK(d)
      BY <1>1, <3>2, <3>3 DEF CallOK, CoreCall
    <3>5. d # NoCall
      BY <3>2, NoCallIs
    <3> QED
      BY <1>1, <2>1, <2>3, <3>1, <3>2, <3>4, <3>5, GoesOn DEF WriteMask, Quiet, Holding
  <2> QED
    BY <1>2, <2>2, <2>3
<1>3. CASE Leave("ERROR") /\ UNCHANGED cpu
  BY <1>1, <1>3, Fails DEF WriteMask, Leave, Rets, fs
<1> QED
  BY <1>2, <1>3 DEF WriteMask

LEMMA LockTasksBase ==
  ASSUME Base, LockTasks
  PROVE  Base'
<1>1. TaskCall(call) /\ Shape(call) /\ call.ret \in Rets /\ call # NoCall
  BY WhereItStands, NoCallIs DEF LockTasks, TaskOps
<1>2. CASE /\ call.op # "assign_pid" \/ Unused # {}
           /\ Locked("lock") /\ UNCHANGED last
           /\ call' = [call EXCEPT !.at = "tasks",
                         !.cls = IF call.op = "assign_pid" THEN MaxOf(Unused) ELSE call.cls]
  <2>1. PICK d : d = call'
    OBVIOUS
  <2>2. /\ Shape(d) /\ d.at = "tasks" /\ d.ret = call.ret /\ d.op = call.op
        /\ d.cls = (IF call.op = "assign_pid" THEN MaxOf(Unused) ELSE call.cls)
        /\ d.arg = call.arg /\ d.todo = call.todo
    BY <1>1, <1>2, <2>1 DEF Shape, Fields
  <2>3. d.cls \in Class
    BY <1>1, <1>2, <2>2, UnusedIs DEF Base, TaskCall
  <2>4. CallOK(d)
    BY <1>1, <2>2, <2>3 DEF CallOK, TaskCall
  <2>5. d # NoCall
    BY <2>2, NoCallIs
  <2>6. Files'
    BY BaseFiles, FilesKept DEF LockTasks
  <2> QED
    BY <1>1, <1>2, <2>1, <2>2, <2>4, <2>5, <2>6, GoesOn
       DEF LockTasks, Quiet, fs, Locked, Holding
<1>3. CASE Leave("RESOURCE")
  BY <1>1, <1>3, Fails DEF LockTasks, Leave, Rets
<1> QED
  BY <1>2, <1>3 DEF LockTasks

LEMMA WriteTaskBase ==
  ASSUME Base, WriteTask
  PROVE  Base'
<1> DEFINE p == Head(call.todo)
<1>1. TaskCall(call) /\ Shape(call) /\ call.ret \in Rets /\ call # NoCall
  BY WhereItStands, NoCallIs DEF WriteTask, TaskOps
<1>2. /\ Tail(call.todo) \in Seq(Task) /\ Elems(Tail(call.todo)) \subseteq Elems(call.todo)
      /\ (Len(call.todo) = 1 <=> Tail(call.todo) = <<>>)
  BY <1>1, ElemsOf DEF TaskCall
<1>3. CASE /\ task' = [task EXCEPT ![p] = call.cls]
           /\ IF Len(call.todo) = 1 THEN Leave("OK")
              ELSE call' = [call EXCEPT !.todo = Tail(call.todo)] /\ UNCHANGED <<flock, last>>
  <2>1. Files'
    <3>1. task' \in [Task -> Class \cup {Other, Dead}]
      BY <1>1, <1>3 DEF Base, TypeOK, TaskCall
    <3> QED
      BY <3>1, BaseFiles DEF Files, SchShape, WriteTask
  <2>2. CASE Leave("OK")
    BY <1>1, <2>1, <2>2, Returns DEF WriteTask, Leave, Return, Quiet, Rets, TaskCall, TaskOps
  <2>3. CASE /\ Len(call.todo) # 1 /\ UNCHANGED <<flock, last>>
             /\ call' = [call EXCEPT !.todo = Tail(call.todo)]
    <3>1. PICK d : d = call'
      OBVIOUS
    <3>2. /\ Shape(d) /\ d.at = call.at /\ d.ret = call.ret /\ d.op = call.op
          /\ d.cls = call.cls /\ d.arg = call.arg /\ d.todo = Tail(call.todo)
      BY <1>1, <2>3, <3>1 DEF Shape, Fields
    <3>3. CallOK(d)
      BY <1>1, <1>2, <2>3, <3>2 DEF CallOK, TaskCall
    <3>4. d # NoCall
      BY <1>1, <3>2, NoCallIs DEF TaskCall
    <3>5. Holding' /\ flock' \in {"free", "lib", "peer"}
      BY <2>3, <3>1, <3>2 DEF Base, Holding, TypeOK
    <3> QED
      BY <1>1, <2>1, <2>3, <3>1, <3>2, <3>3, <3>4, <3>5, GoesOn DEF WriteTask, Quiet, TaskCall
  <2> QED
    BY <1>3, <2>2, <2>3
<1>4. CASE (Leave("PARAM") \/ Leave("ERROR")) /\ UNCHANGED task
  BY <1>1, <1>4, Fails DEF WriteTask, Leave, Rets, fs
<1> QED
  BY <1>3, <1>4 DEF WriteTask

LEMMA LockSchemataBase ==
  ASSUME Base, LockSchemata
  PROVE  Base'
<1>1. SchemataCall(call) /\ Shape(call) /\ call.ret \in Rets /\ call # NoCall
  BY WhereItStands, NoCallIs DEF LockSchemata
<1>2. PICK d : d = call'
  OBVIOUS
<1>3. /\ Shape(d) /\ d.at = "read" /\ d.ret = call.ret /\ d.op = call.op
      /\ d.tech = call.tech /\ d.id = call.id /\ d.arg = call.arg /\ d.todo = call.todo
  BY <1>1, <1>2 DEF LockSchemata, Shape, Fields
<1>4. CallOK(d)
  BY <1>1, <1>3 DEF CallOK, SchemataCall
<1>5. d # NoCall
  BY <1>3, NoCallIs
<1>6. Files'
  BY BaseFiles, FilesKept DEF LockSchemata
<1> QED
  BY <1>1, <1>2, <1>3, <1>4, <1>5, <1>6, GoesOn DEF LockSchemata, Quiet, fs, Locked, Holding

LEMMA ReadLineBase ==
  ASSUME Base, ReadLine
  PROVE  Base'
<1>1. SchemataCall(call) /\ Shape(call) /\ call.ret \in Rets /\ call # NoCall
  BY WhereItStands, NoCallIs DEF ReadLine
<1>2. CASE /\ UNCHANGED <<flock, last>>
           /\ call' = [call EXCEPT !.at = "write", !.buf = Line(Head(call.todo).class, call.tech)]
  <2>1. PICK d : d = call'
    OBVIOUS
  <2>2. /\ Shape(d) /\ d.at = "write" /\ d.ret = call.ret /\ d.op = call.op
        /\ d.tech = call.tech /\ d.id = call.id /\ d.arg = call.arg /\ d.todo = call.todo
    BY <1>1, <1>2, <2>1 DEF Shape, Fields
  <2>3. CallOK(d)
    BY <1>1, <2>2 DEF CallOK, SchemataCall
  <2>4. d # NoCall
    BY <2>2, NoCallIs
  <2>5. Files'
    BY BaseFiles, FilesKept DEF ReadLine
  <2>6. Holding' /\ flock' \in {"free", "lib", "peer"}
    BY <1>2, <2>1, <2>2 DEF Base, TypeOK, Holding, ReadLine
  <2> QED
    BY <1>1, <1>2, <2>1, <2>2, <2>3, <2>4, <2>5, <2>6, GoesOn DEF ReadLine, Quiet, fs
<1>3. CASE Leave("ERROR") \/ Leave("PARAM")
  BY <1>1, <1>3, Fails DEF ReadLine, Leave, Rets
<1> QED
  BY <1>2, <1>3 DEF ReadLine

\* What is written for an entry is a value of its technology.
LEMMA EffectiveTyped ==
  ASSUME NEW t \in Tech, NEW e \in Entry(t)
  PROVE  Effective(t, e) \in Value(t)
<1>1. CASE t \in Cat
  BY <1>1 DEF Effective, Value, Entry, Masks
<1>2. CASE t \notin Cat
  <2>1. e.max \in Nat /\ Step \in Nat /\ Step > 0
    BY <1>2, LimitAssumption, PlatformAssumption DEF Entry
  <2>2. ((e.max + Step \div 2) \div Step) \in Nat
    BY <2>1
  <2>3. ((e.max + Step \div 2) \div Step) * Step \in Nat
    BY <2>1, <2>2
  <2> QED
    BY <1>2, <2>1, <2>3 DEF Effective, Value
<1> QED
  BY <1>1, <1>2

LEMMA WriteLineBase ==
  ASSUME Base, Reading, WriteLine
  PROVE  Base'
<1> DEFINE e == Head(call.todo)
           t == call.tech
           line == [call.buf EXCEPT ![call.id] = Effective(t, e)]
           c == [call EXCEPT !.out = Append(call.out, <<e, line[call.id]>>)]
<1>1. SchemataCall(call) /\ Shape(call) /\ call.ret \in Rets /\ call # NoCall
  BY WhereItStands, NoCallIs DEF WriteLine
<1>2. /\ Tail(call.todo) \in Seq(Entry(t)) /\ Elems(Tail(call.todo)) \subseteq Elems(call.todo)
      /\ (Len(call.todo) = 1 <=> Tail(call.todo) = <<>>) /\ e \in Entry(t)
  BY ZenonT(30), <1>1, ElemsOf DEF SchemataCall
<1>3. e.class \in Class /\ call.buf = sch[e.class][t] /\ t \in Tech
  BY <1>1 DEF Reading, WriteLine, SchemataCall
<1>4. CASE /\ sch' = [sch EXCEPT ![e.class][t] = line]
           /\ IF Len(call.todo) = 1
              THEN call' = NoCall /\ last' = Result(c, "OK") /\ flock' = "free"
              ELSE /\ call' = [c EXCEPT !.at = "read", !.todo = Tail(call.todo)]
                   /\ UNCHANGED <<flock, last>>
  <2>1. Files'
    <3>1. line \in [Ids[t] -> Value(t)]
      BY <1>2, <1>3, EffectiveTyped DEF Base, TypeOK
    <3>2. PICK l \in [Ids[t] -> Value(t)] : l = line
      BY <3>1
    <3>3. SchShape'
      BY <1>3, <1>4 DEF Base, SchShape
    <3>4. \A g \in Class, u \in Tech : sch'[g][u] \in [Ids[u] -> Value(u)]
      BY <1>3, <1>4, <3>2 DEF Base, SchShape, TypeOK
    <3> QED
      BY <3>3, <3>4, BaseFiles DEF Files, WriteLine
  <2>2. CASE Len(call.todo) = 1
    <3>1. PICK b : b = c
      OBVIOUS
    <3>2. PICK r : last' = r /\ r = Result(b, "OK")
      BY <1>4, <2>2, <3>1
    <3>3. r.op = "set" /\ r.ret = "OK"
      <4>1. b.op = "set"
        BY <1>1, <3>1 DEF Shape, Fields, SchemataCall
      <4> HIDE DEF c
      <4> QED
        BY <3>2, <4>1, ResultIs
    <3>4. grps' = grps
      BY DEF grps, Grps, Techs, WriteLine, Quiet
    <3>5. TypeOK'
      BY <1>4, <2>1, <2>2, <3>2, <3>3, NoCallIs
         DEF Base, TypeOK, Files, WriteLine, Quiet, CallOK, Steps, Rets
    <3>6. Agreed'
      BY <1>4, <2>2, <3>2, <3>3, <3>4, NoCallIs
         DEF Base, Agreed, CapMatchesMount, GroupsReady, Mounted, WriteLine, Quiet
    <3> QED
      BY <1>4, <2>1, <2>2, <3>5, <3>6, NoCallIs DEF Base, Files, Holding, UnderWay
  <2>3. CASE Len(call.todo) # 1
    <3>1. PICK d : d = call'
      OBVIOUS
    <3>2. /\ Shape(d) /\ d.at = "read" /\ d.ret = call.ret /\ d.op = call.op
          /\ d.tech = call.tech /\ d.id = call.id /\ d.arg = call.arg
          /\ d.todo = Tail(call.todo)
      BY <1>1, <1>4, <2>3, <3>1 DEF Shape, Fields
    <3>3. CallOK(d)
      BY <1>1, <1>2, <2>3, <3>2 DEF CallOK, SchemataCall
    <3>4. d # NoCall
      BY <3>2, NoCallIs
    <3>5. Holding' /\ flock' \in {"free", "lib", "peer"}
      BY <1>4, <2>3, <3>1, <3>2 DEF Base, TypeOK, Holding, WriteLine
    <3> QED
      BY <1>1, <1>4, <2>1, <2>3, <3>1, <3>2, <3>3, <3>4, <3>5, GoesOn DEF WriteLine, Quiet
  <2> QED
    BY <2>2, <2>3
<1>5. CASE Leave("ERROR") /\ UNCHANGED sch
  BY <1>1, <1>5, Fails DEF WriteLine, Leave, Rets, fs
<1> QED
  BY <1>4, <1>5 DEF WriteLine

\* Steps of a reset.
LEMMA ResetGoesOn ==
  ASSUME Base, call.op = "reset", NEW d, call' = d, Shape(d), d.op = "reset", d.ret \in Rets,
         d.at \in {"cores", "umount", "schematas", "scan", "proc"}, d.cfg = call.cfg,
         Files', UNCHANGED <<amd, up, cap, fresh, moved, calls, mnt, dirs, last, flock>>,
         (d.at \in {"scan", "proc"} /\ d.ret = "OK") => Mounted /\ 1 .. grps - 1 \subseteq dirs
  PROVE  Base'
<1>1. ResetCall(call) /\ call # NoCall
  BY WhereItStands, NoCallIs
<1>2. CallOK(d) /\ d # NoCall
  BY <1>1, NoCallIs DEF CallOK, ResetCall
<1>3. Holding' /\ flock' \in {"free", "lib", "peer"}
  BY <1>1 DEF Base, TypeOK, Holding, ResetCall
<1> QED
  BY <1>1, <1>2, <1>3, GoesOn

LEMMA ResetFails ==
  ASSUME Base, call.op = "reset", NEW r \in Rets \ {"OK"}, Return(r), Quiet, UNCHANGED fs,
         UNCHANGED flock
  PROVE  Base'
<1>1. ResetCall(call) /\ call # NoCall
  BY WhereItStands, NoCallIs
<1>2. flock' \in {"free", "peer"}
  BY <1>1 DEF Base, TypeOK, Holding, ResetCall
<1> QED
  BY <1>1, <1>2, Fails

LEMMA ResetProbeBase ==
  ASSUME Base, ResetProbe
  PROVE  Base'
<1>1. call.op = "reset" /\ Shape(call) /\ call.ret \in Rets
  BY WhereItStands DEF ResetProbe
<1>2. CASE call' = [call EXCEPT !.at = "cores"] /\ UNCHANGED last
  <2>1. PICK d : d = call'
    OBVIOUS
  <2>2. Shape(d) /\ d.at = "cores" /\ d.op = "reset" /\ d.ret = call.ret /\ d.cfg = call.cfg
    BY <1>1, <1>2, <2>1 DEF Shape, Fields
  <2>3. Files'
    BY BaseFiles, FilesKept DEF ResetProbe
  <2> QED
    BY <1>1, <1>2, <2>1, <2>2, <2>3, ResetGoesOn DEF ResetProbe, Quiet, fs
<1>3. CASE Return("ERROR")
  BY <1>1, <1>3, ResetFails DEF ResetProbe, Rets
<1> QED
  BY <1>2, <1>3 DEF ResetProbe

LEMMA ResetCoresBase ==
  ASSUME Base, os_alloc_reset_cores
  PROVE  Base'
<1>1. call.op = "reset" /\ Shape(call) /\ call.ret \in Rets
  BY WhereItStands DEF os_alloc_reset_cores
<1>2. Files'
  <2>1. 0 \in Class
    BY ClassesFit DEF Base, TypeOK
  <2>2. cpu' \in [Core -> Class \cup {Other}]
    BY <2>1 DEF Base, TypeOK, os_alloc_reset_cores
  <2> QED
    BY <2>2, BaseFiles DEF Files, SchShape, os_alloc_reset_cores
<1>3. CASE UNCHANGED last
  <2>1. PICK d : d = call'
    OBVIOUS
  <2>2. CASE Shape(d) /\ d.at \in {"umount", "schematas"} /\ d.op = "reset" /\ d.ret \in Rets
             /\ d.cfg = call.cfg
    BY <1>1, <1>2, <1>3, <2>1, <2>2, ResetGoesOn DEF os_alloc_reset_cores, Quiet
  <2>3. CASE Return("ERROR") /\ UNCHANGED cpu
    BY <1>1, <2>3, ResetFails DEF os_alloc_reset_cores, Rets, fs
  <2>4. PICK a : a = IF Changes(call.cfg[1]) THEN "umount" ELSE "schematas"
    OBVIOUS
  <2>5. \/ call' = [call EXCEPT !.at = a]
        \/ call' = [[call EXCEPT !.at = a] EXCEPT !.ret = "ERROR"]
        \/ Return("ERROR") /\ UNCHANGED cpu
    BY <2>4 DEF os_alloc_reset_cores
  <2>6. CASE call' = [call EXCEPT !.at = a]
    BY <1>1, <2>1, <2>2, <2>4, <2>6 DEF Shape, Fields
  <2>7. CASE call' = [[call EXCEPT !.at = a] EXCEPT !.ret = "ERROR"]
    BY <1>1, <2>1, <2>2, <2>4, <2>7 DEF Shape, Fields, Rets
  <2> QED
    BY <2>3, <2>5, <2>6, <2>7
<1>4. CASE Return("ERROR") /\ UNCHANGED cpu
  BY <1>1, <1>4, ResetFails DEF os_alloc_reset_cores, Rets, fs
<1> QED
  BY <1>3, <1>4 DEF os_alloc_reset_cores

LEMMA ResetUmountBase ==
  ASSUME Base, ResetUmount
  PROVE  Base'
<1>1. call.op = "reset" /\ Shape(call) /\ call.ret \in Rets /\ ResetCall(call) /\ call # NoCall
  BY WhereItStands, NoCallIs DEF ResetUmount
<1>2. CASE /\ flock # "peer"
           /\ mnt' = NoMount /\ dirs' = {}
           /\ cpu' = [k \in Core |-> 0]
           /\ task' = [p \in Task |-> IF task[p] = Dead THEN Dead ELSE 0]
           /\ sch' = [c \in Class |-> Fresh(Plain)]
           /\ call' = [call EXCEPT !.at = "mount"] /\ UNCHANGED last
  <2>1. PICK d : d = call'
    OBVIOUS
  <2>2. Shape(d) /\ d.at = "mount" /\ d.op = "reset" /\ d.ret = call.ret /\ d.cfg = call.cfg
    BY <1>1, <1>2, <2>1 DEF Shape, Fields
  <2>3. CallOK(d) /\ d # NoCall
    BY <1>1, <2>2, NoCallIs DEF CallOK, ResetCall
  <2>4. Files'
    <3>1. amd \in BOOLEAN /\ Files
      BY BaseFiles DEF Base, TypeOK
    <3> QED
      BY <1>2, <3>1, NewFiles
  <2>5. TypeOK'
    BY <1>1, <1>2, <2>1, <2>2, <2>4 DEF Base, TypeOK, Files, ResetUmount, Quiet, Steps
  <2>6. NoResult.op = "none"
    BY DEF NoResult
  <2>7. Holding' /\ UnderWay'
    BY <1>1, <1>2, <2>1, <2>2 DEF Base, Holding, ResetCall, UnderWay, ResetUmount, Quiet
  <2>8. Agreed'
    BY <1>1, <1>2, <2>1, <2>2, <2>6
       DEF Base, UnderWay, Agreed, CapMatchesMount, GroupsReady, Mounted
  <2> QED
    BY <2>1, <2>3, <2>4, <2>5, <2>7, <2>8 DEF Base, Files
<1>3. CASE Return("ERROR") /\ UNCHANGED fs
  BY <1>1, <1>3, ResetFails DEF ResetUmount, Rets
<1> QED
  BY <1>2, <1>3 DEF ResetUmount

LEMMA ResetMountBase ==
  ASSUME Base, ResetMount
  PROVE  Base'
<1> DEFINE mm == MountOptions(call.cfg[1])
<1>1. call.op = "reset" /\ ResetCall(call) /\ call # NoCall
  BY WhereItStands, NoCallIs DEF ResetMount
<1>2. CASE /\ MountAs(mm) /\ cap' = CapAfter(call.cfg[1])
           /\ \/ PrepFull /\ Return("OK")
              \/ PrepStops /\ Return("BUSY")
  <2>1. PICK w : w = WantCdp(call.cfg[1])
    OBVIOUS
  <2>2. PICK v : v = WantCtrl(call.cfg[1])
    OBVIOUS
  <2>3. w \subseteq Cat /\ v \subseteq {"MBA", "SMBA"}
    BY <2>1, <2>2 DEF WantCdp, WantCtrl
  <2>4. /\ mnt' = [cdp |-> w, mbps |-> "MBA" \in v]
        /\ cap' = [cdp |-> w, ctrl |-> v]
    BY <1>2, <2>1, <2>2 DEF MountAs, MountOptions, CapAfter
  <2>5. mnt' \in Mount /\ mnt' # NoMount
    BY <2>3, <2>4 DEF Mount, NoMount
  <2>6. amd \in BOOLEAN /\ amd' = amd /\ Files
    BY BaseFiles DEF Base, TypeOK, ResetMount
  <2>7. dirs' \subseteq Class \ {0}
    BY <1>2, <2>6, PrepTyped
  <2>8. Files'
    BY <1>2, <2>5, <2>6, <2>7, NewFiles DEF MountAs
  <2>9. call' = NoCall /\ flock' = flock /\ flock \in {"free", "peer"}
    BY <1>1, <1>2 DEF Return, ResetMount, Base, TypeOK, Holding, ResetCall
  <2>10. PICK r \in {"OK", "BUSY"} : last' = Result(call, r) /\ (r = "OK" => PrepFull)
    BY <1>2 DEF Return
  <2>11. last'.ret = r /\ last'.op = "reset"
    BY <1>1, <2>10, ResultIs
  <2>12. PrepFull => 1 .. grps' - 1 \subseteq dirs'
    BY <2>6 DEF PrepFull, grps, Grps, Techs
  <2>13. TypeOK'
    BY <2>3, <2>4, <2>8, <2>9, <2>11, NoCallIs
       DEF Base, TypeOK, Files, ResetMount, CallOK, Rets, Steps
  <2>14. Agreed'
    BY <2>4, <2>5, <2>9, <2>10, <2>11, <2>12, NoCallIs
       DEF Agreed, CapMatchesMount, GroupsReady, Mounted
  <2> QED
    BY <2>8, <2>9, <2>13, <2>14, NoCallIs DEF Base, Files, Holding, UnderWay
<1>3. CASE UNCHANGED fs /\ UNCHANGED cap /\ Return("ERROR")
  BY <1>1, <1>3, ResetFails DEF ResetMount, Quiet, Rets
<1> QED
  BY <1>2, <1>3 DEF ResetMount

LEMMA ResetSchematasBase ==
  ASSUME Base, os_alloc_reset_schematas
  PROVE  Base'
<1> DEFINE bad == {c \in 0 .. grps - 1 :
                     ~Opens(c) \/ \E t \in Techs : ~LineAccepted(t, DefaultLine(t))}
<1>1. call.op = "reset" /\ Shape(call) /\ call.ret \in Rets
  BY WhereItStands DEF os_alloc_reset_schematas
<1>2. PICK r \in Rets : /\ call' = [call EXCEPT !.at = "scan", !.ret = r]
                        /\ r = "OK" => bad = {} /\ Mounted
  <2>1. "ERROR" \in Rets /\ "ERROR" # "OK"
    BY DEF Rets
  <2> QED
    BY <1>1, <2>1 DEF os_alloc_reset_schematas
<1>3. PICK d : d = call'
  OBVIOUS
<1>4. Shape(d) /\ d.at = "scan" /\ d.op = "reset" /\ d.ret = r /\ d.cfg = call.cfg
  BY <1>1, <1>2, <1>3 DEF Shape, Fields
<1>5. bad = {} => 1 .. grps - 1 \subseteq dirs
  <2>1. grps \in Nat
    BY ClassesFit DEF Base, TypeOK, grps
  <2> QED
    BY <2>1 DEF Opens
<1>6. Files'
  <2>1. PICK f : f = [t \in Tech |-> DefaultLine(t)]
    OBVIOUS
  <2>2. \A t \in Tech : f[t] \in [Ids[t] -> Value(t)]
    <3>1. \A t \in Tech : f[t] = DefaultLine(t)
      BY <2>1
    <3>2. amd \in BOOLEAN
      BY DEF Base, TypeOK
    <3>3. \A t \in Tech : DefaultLine(t) \in [Ids[t] -> Value(t)]
      BY <3>2, LimitAssumption DEF DefaultLine, Value, Masks
    <3> QED
      BY <3>1, <3>3
  <2>3. f = [t \in Tech |-> f[t]]
    BY <2>1
  <2>4. CASE UNCHANGED sch
    BY <2>4, BaseFiles DEF Files, SchShape, os_alloc_reset_schematas
  <2>5. CASE \E S \in SUBSET Class : sch' = [c \in Class |-> IF c \in S THEN f ELSE sch[c]]
    <3>1. PICK S \in SUBSET Class : sch' = [c \in Class |-> IF c \in S THEN f ELSE sch[c]]
      BY <2>5
    <3>2. \A c \in Class : sch'[c] = (IF c \in S THEN f ELSE sch[c])
      BY <3>1
    <3>3. SchShape'
      BY <2>3, <3>1, <3>2 DEF SchShape, Base
    <3>4. \A c \in Class, t \in Tech : sch'[c][t] \in [Ids[t] -> Value(t)]
      BY <2>2, <3>2 DEF Base, TypeOK
    <3> QED
      BY <3>3, <3>4, BaseFiles DEF Files, os_alloc_reset_schematas
  <2>6. \/ UNCHANGED sch
        \/ sch' = [c \in Class |-> IF c < grps /\ \A b \in bad : c < b THEN f ELSE sch[c]]
    BY <2>1 DEF os_alloc_reset_schematas
  <2>7. ASSUME sch' = [c \in Class |-> IF c < grps /\ \A b \in bad : c < b THEN f ELSE sch[c]]
        PROVE  \E S \in SUBSET Class : sch' = [c \in Class |-> IF c \in S THEN f ELSE sch[c]]
    <3> DEFINE S == {c \in Class : c < grps /\ \A b \in bad : c < b}
    <3>1. S \in SUBSET Class /\ \A c \in Class : c \in S <=> c < grps /\ \A b \in bad : c < b
      OBVIOUS
    <3>2. sch' = [c \in Class |-> IF c \in S THEN f ELSE sch[c]]
      BY <2>7
    <3> QED
      BY <3>1, <3>2
  <2> QED
    BY <2>4, <2>5, <2>6, <2>7
<1> QED
  BY <1>1, <1>2, <1>3, <1>4, <1>5, <1>6, ResetGoesOn DEF os_alloc_reset_schematas, Quiet

LEMMA ScanProcBase ==
  ASSUME Base, ScanProc
  PROVE  Base'
<1>1. call.op = "reset" /\ Shape(call) /\ call.ret \in Rets
  BY WhereItStands DEF ScanProc
<1>2. PICK d : d = call'
  OBVIOUS
<1>3. Shape(d) /\ d.at = "proc" /\ d.op = "reset" /\ d.ret = call.ret /\ d.cfg = call.cfg
  BY <1>1, <1>2 DEF Shape, Fields, ScanProc
<1>4. Files'
  BY BaseFiles, FilesKept DEF ScanProc
<1>5. call.ret = "OK" => Mounted /\ 1 .. grps - 1 \subseteq dirs
  BY DEF Base, Agreed, ScanProc
<1> QED
  BY <1>1, <1>2, <1>3, <1>4, <1>5, ResetGoesOn DEF ScanProc, Quiet, fs

LEMMA ResetTasksBase ==
  ASSUME Base, os_alloc_reset_tasks
  PROVE  Base'
<1>1. call.op = "reset" /\ Shape(call) /\ call.ret \in Rets /\ ResetCall(call) /\ call # NoCall
  BY WhereItStands, NoCallIs DEF os_alloc_reset_tasks
<1>2. call.ret = "OK" => Mounted /\ 1 .. grps - 1 \subseteq dirs
  BY DEF Base, Agreed, os_alloc_reset_tasks
<1>3. CASE Return(call.ret) /\ UNCHANGED task
  <2>1. PICK r \in Rets : r = call.ret
    BY <1>1
  <2>2. Files'
    BY <1>3, BaseFiles DEF Files, SchShape, os_alloc_reset_tasks
  <2>3. flock' \in {"free", "peer"}
    BY <1>1 DEF Base, TypeOK, Holding, ResetCall, os_alloc_reset_tasks
  <2> QED
    BY <1>1, <1>2, <1>3, <2>1, <2>2, <2>3, Returns DEF os_alloc_reset_tasks, Return, Quiet
<1>4. CASE \E p \in call.buf :
             /\ task' = [task EXCEPT ![p] = IF task[p] = Dead THEN Dead ELSE 0]
             /\ call' = [call EXCEPT !.buf = call.buf \ {p}] /\ UNCHANGED last
  <2>1. PICK p \in call.buf :
             /\ task' = [task EXCEPT ![p] = IF task[p] = Dead THEN Dead ELSE 0]
             /\ call' = [call EXCEPT !.buf = call.buf \ {p}] /\ UNCHANGED last
    BY <1>4
  <2>2. PICK d : d = call'
    OBVIOUS
  <2>3. Shape(d) /\ d.at = "proc" /\ d.op = "reset" /\ d.ret = call.ret /\ d.cfg = call.cfg
    BY <1>1, <2>1, <2>2 DEF Shape, Fields, os_alloc_reset_tasks
  <2>4. Files'
    <3>1. 0 \in Class
      BY ClassesFit DEF Base, TypeOK
    <3>2. task' \in [Task -> Class \cup {Other, Dead}]
      BY <2>1, <3>1 DEF Base, TypeOK
    <3> QED
      BY <3>2, BaseFiles DEF Files, SchShape, os_alloc_reset_tasks
  <2> QED
    BY <1>1, <1>2, <2>1, <2>2, <2>3, <2>4, ResetGoesOn DEF os_alloc_reset_tasks, Quiet
<1>5. CASE Return("ERROR") /\ UNCHANGED task
  BY <1>1, <1>5, ResetFails DEF os_alloc_reset_tasks, Rets, fs
<1> QED
  BY <1>3, <1>4, <1>5 DEF os_alloc_reset_tasks

LEMMA PeerLockBase ==
  ASSUME Base, PeerLock \/ PeerUnlock
  PROVE  Base'
<1>1. Files'
  BY BaseFiles, FilesKept DEF PeerLock, PeerUnlock
<1>2. Meanwhile({}, FALSE) /\ {} \in SUBSET Task
  BY DEF PeerLock, PeerUnlock
<1> QED
  BY <1>1, <1>2, OthersMove DEF PeerLock, PeerUnlock, fs

LEMMA PeerWriteBase ==
  ASSUME Base, PeerWrite
  PROVE  Base'
<1>1. Files'
  <2>1. CASE \E k \in PeerCore, c \in dirs \cup {0, Other} :
               cpu' = [cpu EXCEPT ![k] = c] /\ UNCHANGED sch
    <3>1. 0 \in Class /\ dirs \subseteq Class
      BY ClassesFit DEF Base, TypeOK
    <3>2. PICK k \in PeerCore, c \in dirs \cup {0, Other} :
            cpu' = [cpu EXCEPT ![k] = c] /\ UNCHANGED sch
      BY <2>1
    <3>3. cpu' \in [Core -> Class \cup {Other}]
      <4>1. c \in Class \cup {Other} /\ cpu \in [Core -> Class \cup {Other}]
        BY <3>1, <3>2 DEF Base, TypeOK
      <4> QED
        BY <3>2, <4>1
    <3> QED
      BY <3>2, <3>3, BaseFiles DEF Files, SchShape, PeerWrite
  <2>2. CASE \E e \in PeerEntry :
               /\ Opens(e[1]) /\ e[2] \in Techs
               /\ sch' = [sch EXCEPT ![e[1]][e[2]][e[3]] = e[4]] /\ UNCHANGED cpu
    <3>1. PICK e \in PeerEntry :
               /\ Opens(e[1]) /\ e[2] \in Techs
               /\ sch' = [sch EXCEPT ![e[1]][e[2]][e[3]] = e[4]] /\ UNCHANGED cpu
      BY <2>2
    <3>2. PICK g, t, i, v : g = e[1] /\ t = e[2] /\ i = e[3] /\ v = e[4]
      OBVIOUS
    <3>3. g \in Class /\ t \in Tech
      BY <3>1, <3>2, ClassesFit DEF Base, TypeOK, Opens, Techs
    <3>4. v \in Value(t)
      BY <3>2, <3>3, PeerAssumption
    <3>5. sch' = [sch EXCEPT ![g] = [sch[g] EXCEPT ![t] = [sch[g][t] EXCEPT ![i] = v]]]
      BY <3>1, <3>2
    <3>6. PICK l : l = [sch[g][t] EXCEPT ![i] = v]
      OBVIOUS
    <3>7. l \in [Ids[t] -> Value(t)]
      BY <3>3, <3>4, <3>6 DEF Base, TypeOK
    <3>8. SchShape'
      BY <3>3, <3>5 DEF Base, SchShape
    <3>9. \A c \in Class, u \in Tech : sch'[c][u] \in [Ids[u] -> Value(u)]
      BY <3>3, <3>5, <3>6, <3>7 DEF Base, SchShape, TypeOK
    <3> QED
      BY <3>1, <3>8, <3>9, BaseFiles DEF Files, PeerWrite
  <2> QED
    BY <2>1, <2>2 DEF PeerWrite
<1>2. Meanwhile({}, TRUE) /\ {} \in SUBSET Task
  BY DEF PeerWrite
<1>3. flock' = flock /\ flock \in {"free", "lib", "peer"}
  BY DEF PeerWrite, Base, TypeOK
<1> QED
  BY <1>1, <1>2, <1>3, OthersMove DEF PeerWrite

LEMMA TasksMoveBase ==
  ASSUME Base, TaskExits \/ TaskStarts
  PROVE  Base'
<1>1. PICK f \in SUBSET Task : Meanwhile(f, FALSE)
  BY DEF TaskExits, TaskStarts
<1>2. task' \in [Task -> Class \cup {Other, Dead}]
  BY DEF Base, TypeOK, TaskExits, TaskStarts
<1>3. Files'
  <2>1. UNCHANGED <<mnt, dirs, cpu, sch>>
    BY DEF TaskExits, TaskStarts
  <2> QED
    BY <1>2, <2>1, BaseFiles DEF Files, SchShape
<1>4. flock' = flock /\ flock \in {"free", "lib", "peer"}
  BY DEF TaskExits, TaskStarts, Base, TypeOK
<1> QED
  BY <1>1, <1>3, <1>4, OthersMove DEF TaskExits, TaskStarts

LEMMA BaseInit ==
  ASSUME Init
  PROVE  Base
<1>1. 0 \in Class /\ amd \in BOOLEAN
  BY ClassesFit DEF Init
<1>2. PICK f : f = Fresh(Plain)
  OBVIOUS
<1>3. f = [t \in Tech |-> f[t]] /\ \A t \in Tech : f[t] \in [Ids[t] -> Value(t)]
  BY <1>1, <1>2, FreshTyped
<1>4. sch = [c \in Class |-> f]
  BY <1>2 DEF Init
<1>5. SchShape
  BY <1>3, <1>4 DEF SchShape
<1>6. \A c \in Class, t \in Tech : sch[c][t] \in [Ids[t] -> Value(t)]
  BY <1>3, <1>4
<1>7. TypeOK
  <2>1. cpu \in [Core -> Class \cup {Other}] /\ task \in [Task -> Class \cup {Other, Dead}]
    BY <1>1 DEF Init
  <2>2. cap.cdp \subseteq Cat /\ cap.ctrl \subseteq {"MBA", "SMBA"} /\ calls \in 0 .. MaxCalls
    BY InputAssumption DEF Init
  <2>3. call.at \in Steps /\ call.ret \in Rets /\ last.ret \in Rets
    BY DEF Init, NoCall, NoResult, Rets, Steps
  <2> QED
    BY <1>6, <2>1, <2>2, <2>3 DEF Init, TypeOK
<1>8. Agreed
  BY NoCallIs DEF Init, Agreed, CapMatchesMount, GroupsReady, NoResult
<1> QED
  BY <1>5, <1>7, <1>8, NoCallIs DEF Base, Init, Holding, UnderWay

LEMMA BaseStep ==
  ASSUME Base, Reading, [Next]_vars
  PROVE  Base'
<1>1. CASE Calls
  BY <1>1, AssocSetStarts, AssignStarts, ReleaseStarts, AssocSetPidStarts,
     TaskListStarts, GettersReturn, SetStarts, ResetStarts, InitReturns, FiniReturns
     DEF Calls, Getters
<1>2. CASE Library
  BY <1>2, LockFailsBase, ReadMaskBase, WriteMaskBase, LockTasksBase, WriteTaskBase,
     LockSchemataBase, ReadLineBase, WriteLineBase, ResetProbeBase, ResetCoresBase,
     ResetUmountBase, ResetMountBase, ResetSchematasBase, ScanProcBase, ResetTasksBase
     DEF Library
<1>3. CASE Environment
  BY <1>3, PeerLockBase, PeerWriteBase, TasksMoveBase DEF Environment
<1>4. CASE UNCHANGED vars
  <2>1. Files'
    BY <1>4, BaseFiles, FilesKept DEF vars, fs
  <2>2. TypeOK'
    BY <1>4, <2>1 DEF Base, TypeOK, Files, vars
  <2>3. grps' = grps
    BY <1>4 DEF grps, Grps, Techs, vars
  <2>4. Agreed'
    BY <1>4, <2>3 DEF Base, Agreed, CapMatchesMount, GroupsReady, Mounted, vars
  <2> QED
    BY <1>4, <2>1, <2>2, <2>4 DEF Base, Files, Holding, UnderWay, vars
<1> QED
  BY <1>1, <1>2, <1>3, <1>4 DEF Next

-----------------------------------------------------------------------------
(* Reading is an invariant *)

LEMMA CallsStart ==
  ASSUME Calls
  PROVE  call = NoCall /\ UNCHANGED flock
<1>1. CASE os_alloc_init \/ os_alloc_fini
  BY <1>1 DEF os_alloc_init, os_alloc_fini
<1>2. \A d, r : Begins(d, r) => call = NoCall /\ UNCHANGED flock
  BY DEF Begins, Begin, Refuse
<1>3. CASE \/ os_alloc_assoc_set \/ os_alloc_assign \/ os_alloc_assoc_set_pid
           \/ os_l3ca_set \/ os_l2ca_set \/ os_mba_set \/ os_mba_set_amd \/ os_smba_set_amd
           \/ os_alloc_reset
  BY <1>2, <1>3 DEF os_alloc_assoc_set, os_alloc_assign, os_alloc_assoc_set_pid, os_l3ca_set,
     os_l2ca_set, os_mba_set, os_mba_set_amd, os_smba_set_amd, os_alloc_reset
<1>4. CASE os_alloc_release \/ os_alloc_assign_pid \/ os_alloc_release_pid
  BY <1>4 DEF os_alloc_release, os_alloc_assign_pid, os_alloc_release_pid, Begin
<1>5. CASE Getters
  BY <1>5, GettersAre DEF Refuse
<1> QED
  BY <1>1, <1>3, <1>4, <1>5 DEF Calls, Getters

\* What the peer and the processes can do while the library has the lock.
LEMMA OthersUnderLock ==
  ASSUME Environment
  PROVE  /\ UNCHANGED <<call, amd, mnt, dirs, cap, up, calls>>
         /\ flock = "lib" => UNCHANGED <<cpu, sch, flock>>
  BY DEF Environment, PeerLock, PeerUnlock, PeerWrite, TaskExits, TaskStarts, fs

\* The steps of a reset do not take the lock for longer than a step.
ResetStep ==
  \/ ResetProbe \/ ResetProbeFails \/ os_alloc_reset_cores \/ ResetUmount \/ ResetMount
  \/ os_alloc_reset_schematas \/ ScanProc \/ os_alloc_reset_tasks

LEMMA ResetStepIs ==
  ASSUME Base, ResetStep
  PROVE  call.op = "reset" /\ ResetCall(call) /\ UNCHANGED flock /\ flock # "lib"
<1>1. /\ call.at \in {"probe", "cores", "umount", "mount", "schematas", "scan", "proc"}
      /\ UNCHANGED flock
  BY DEF ResetStep, ResetProbe, ResetProbeFails, os_alloc_reset_cores, ResetUmount, ResetMount,
     os_alloc_reset_schematas, ScanProc, os_alloc_reset_tasks, TimesOut
<1> QED
  BY <1>1, WhereItStands DEF Base, Holding

LEMMA ReadingStep ==
  ASSUME Base, Reading, [Next]_vars
  PROVE  Reading'
<1>1. Base'
  BY BaseStep
<1>2. CASE flock' # "lib"
  BY <1>1, <1>2 DEF Base, Holding, Reading
<1>3. CASE Calls
  BY <1>2, <1>3, CallsStart, NoCallIs DEF Base, Holding
<1>4. CASE ReadMask
  <2>1. CASE call' = [call EXCEPT !.at = "write", !.buf = CpuMask(call.cls)]
    <3>1. call.op \in CoreOps /\ Shape(call) /\ UNCHANGED <<cpu, sch>>
      BY <1>4, WhereItStands DEF ReadMask, fs
    <3>2. /\ call'.op = call.op /\ call'.cls = call.cls /\ call'.buf = CpuMask(call.cls)
      BY <2>1, <3>1 DEF Shape, Fields
    <3> QED
      BY <3>1, <3>2 DEF Reading, CpuMask, CoreOps
  <2>2. CASE Leave("ERROR")
    BY <2>2, <1>2 DEF Leave
  <2> QED
    BY <1>4, <2>1, <2>2 DEF ReadMask
<1>5. CASE ReadLine
  <2>1. CASE /\ Opens(Head(call.todo).class)
             /\ call' = [call EXCEPT !.at = "write",
                                     !.buf = Line(Head(call.todo).class, call.tech)]
    <3>1. call.op = "set" /\ Shape(call) /\ UNCHANGED <<cpu, sch>>
      BY <1>5, WhereItStands DEF ReadLine, fs
    <3>2. /\ call'.op = call.op /\ call'.todo = call.todo /\ call'.tech = call.tech
          /\ call'.buf = sch[Head(call.todo).class][call.tech]
      BY <2>1, <3>1 DEF Shape, Fields, Line
    <3>3. Head(call.todo).class \in Class
      BY <2>1, ClassesFit DEF Opens, Base, TypeOK
    <3> QED
      BY <3>1, <3>2, <3>3 DEF Reading, CoreOps
  <2>2. CASE \E r : Leave(r)
    BY <2>2, <1>2 DEF Leave
  <2> QED
    BY <1>5, <2>1, <2>2 DEF ReadLine
<1>6. CASE WriteMask \/ resctrl_lock_fails
  <2>1. flock' # "lib"
    BY <1>6 DEF WriteMask, Leave, resctrl_lock_fails, TimesOut, Base, Holding
  <2> QED
    BY <2>1, <1>2
<1>7. CASE LockTasks \/ WriteTask \/ LockSchemata \/ WriteLine
  <2>1. Shape(call)
    BY WhereItStands
  <2>2. CASE LockTasks \/ WriteTask
    <3>1. call'.at = "tasks" \/ flock' # "lib"
      BY <2>1, <2>2 DEF LockTasks, WriteTask, Leave, Shape, Fields
    <3> QED
      BY <3>1, <1>2 DEF Reading
  <2>3. CASE LockSchemata \/ WriteLine
    <3>1. call'.at = "read" \/ flock' # "lib"
      BY <2>1, <2>3 DEF LockSchemata, WriteLine, Leave, Shape, Fields
    <3> QED
      BY <3>1, <1>2 DEF Reading
  <2> QED
    BY <1>7, <2>2, <2>3
<1>8. CASE ResetStep
  BY <1>8, <1>2, ResetStepIs
<1>9. CASE Environment \/ UNCHANGED vars
  <2>1. CASE flock = "lib"
    BY <1>9, <2>1, OthersUnderLock DEF Reading, CpuMask, vars
  <2>2. CASE flock # "lib"
    BY <1>9, <2>2, OthersUnderLock DEF Base, Holding, Reading, vars
  <2> QED
    BY <2>1, <2>2
<1> QED
  BY <1>3, <1>4, <1>5, <1>6, <1>7, <1>8, <1>9 DEF Next, Library, ResetStep

\* Between the calls the library and the file system agree: the lock is
\* released on every path out of a call, the cached capabilities say how resctrl
\* is mounted, also after a mount that failed, and there is a directory for
\* every class they announce.
THEOREM LibraryAndFilesAgree == Spec => []Consistent
<1>1. Init => Base /\ Reading
  BY BaseInit, NoCallIs DEF Init, Reading
<1>2. Base /\ Reading /\ [Next]_vars => (Base /\ Reading)'
  BY BaseStep, ReadingStep
<1>3. Base => Consistent
  BY NoCallIs DEF Base, Consistent, LockReleased, Holding, Agreed
<1> QED
  BY <1>1, <1>2, <1>3, PTL DEF Spec

-----------------------------------------------------------------------------
(* What a step of a call changes *)

\* The conclusion of OnlyAsked.
CoresAsked == \A k \in Core : cpu'[k] # cpu[k] => k \in Elems(call.arg)

TasksAsked == \A p \in Task : task'[p] # task[p] => p \in Elems(call.arg)

LinesAsked ==
  \A c \in Class, t \in Tech :
    \A i \in Ids[t] :
      sch'[c][t][i] # sch[c][t][i]
        => t = call.tech /\ i = call.id /\ \E e \in Elems(call.arg) : e.class = c

\* The cores of one write of the cpus file are among those of the call.
LEMMA MovingIs ==
  ASSUME CoreCall(call)
  PROVE  /\ Moving \subseteq Elems(call.arg) /\ Moving \subseteq Elems(call.todo)
         /\ call.op # "release" => Moving = {Head(call.todo)}
         /\ call.op = "release" => Moving = Elems(call.todo)
<1>1. /\ Head(call.todo) \in Elems(call.todo) /\ call.todo[1] = Head(call.todo)
      /\ Elems(call.todo) \subseteq Elems(call.arg)
  BY ElemsOf DEF CoreCall
<1>2. call.op = "release" => Moving = Elems(call.todo)
  BY DEF Moving, Elems
<1>3. call.op # "release" => Moving = {Head(call.todo)}
  BY <1>1 DEF Moving
<1> QED
  BY <1>1, <1>2, <1>3

LEMMA WriteMaskAsked ==
  ASSUME Base, Reading, WriteMask
  PROVE  CoresAsked
<1>1. CoreCall(call) /\ call.buf = CpuMask(call.cls)
  BY WhereItStands DEF WriteMask, Reading
<1>2. Moving \subseteq Elems(call.arg)
  BY <1>1, MovingIs
<1>3. CASE UNCHANGED cpu
  BY <1>3 DEF CoresAsked
<1>4. CASE cpu' = CpusAfter(call.cls, call.buf \cup Moving)
  BY <1>1, <1>2, <1>4 DEF CoresAsked, CpusAfter, CpuMask
<1> QED
  BY <1>3, <1>4 DEF WriteMask

LEMMA WriteTaskAsked ==
  ASSUME Base, WriteTask
  PROVE  TasksAsked
<1>1. TaskCall(call)
  BY WhereItStands DEF WriteTask
<1>2. Head(call.todo) \in Elems(call.arg)
  BY <1>1, ElemsOf DEF TaskCall
<1>3. UNCHANGED task \/ task' = [task EXCEPT ![Head(call.todo)] = call.cls]
  BY DEF WriteTask
<1> QED
  BY <1>2, <1>3 DEF TasksAsked, Base, TypeOK

LEMMA WriteLineAsked ==
  ASSUME Base, Reading, WriteLine
  PROVE  LinesAsked
<1> DEFINE line == [call.buf EXCEPT ![call.id] = Effective(call.tech, Head(call.todo))]
<1>1. SchemataCall(call)
  BY WhereItStands DEF WriteLine
<1>2. Head(call.todo) \in Elems(call.arg)
  BY <1>1, ElemsOf DEF SchemataCall
<1>3. PICK e : e = Head(call.todo)
  OBVIOUS
<1>4. e.class \in Class /\ call.buf = sch[e.class][call.tech] /\ call.tech \in Tech
  BY <1>1, <1>3 DEF Reading, WriteLine, SchemataCall
<1>5. CASE UNCHANGED sch
  BY <1>5 DEF LinesAsked
<1>6. CASE sch' = [sch EXCEPT ![e.class][call.tech] = line]
  <2>1. PICK l : l = line
    OBVIOUS
  <2>2. \A i \in Ids[call.tech] : i # call.id => l[i] = sch[e.class][call.tech][i]
    BY <1>4, <2>1 DEF Base, TypeOK
  <2>3. \A c \in Class, t \in Tech :
          sch'[c][t] = IF c = e.class /\ t = call.tech THEN l ELSE sch[c][t]
    BY <1>4, <1>6, <2>1 DEF Base, SchShape
  <2> HIDE DEF line
  <2> QED
    BY <1>2, <1>3, <2>2, <2>3 DEF LinesAsked
<1> QED
  BY <1>3, <1>5, <1>6 DEF WriteLine

LEMMA OnlyAskedStep ==
  ASSUME Base, Reading, [Next]_vars, call # NoCall, call' # call, call.op # "reset"
  PROVE  CoresAsked /\ TasksAsked /\ LinesAsked
<1>1. CASE resctrl_lock_fails \/ ReadMask \/ LockTasks \/ LockSchemata \/ ReadLine
  BY <1>1 DEF resctrl_lock_fails, ReadMask, LockTasks, LockSchemata, ReadLine, fs,
     CoresAsked, TasksAsked, LinesAsked
<1>2. CASE WriteMask
  <2>1. TasksAsked /\ LinesAsked
    BY <1>2 DEF WriteMask, TasksAsked, LinesAsked
  <2> QED
    BY <1>2, <2>1, WriteMaskAsked
<1>3. CASE WriteTask
  <2>1. CoresAsked /\ LinesAsked
    BY <1>3 DEF WriteTask, CoresAsked, LinesAsked
  <2> QED
    BY <1>3, <2>1, WriteTaskAsked
<1>4. CASE WriteLine
  <2>1. CoresAsked /\ TasksAsked
    BY <1>4 DEF WriteLine, CoresAsked, TasksAsked
  <2> QED
    BY <1>4, <2>1, WriteLineAsked
<1>5. ~ResetStep
  BY ResetStepIs
<1>6. ~Calls /\ ~Environment /\ ~UNCHANGED vars
  BY CallsStart, OthersUnderLock DEF vars
<1> QED
  BY <1>1, <1>2, <1>3, <1>4, <1>5, <1>6 DEF Next, Library, ResetStep

\* A step of a call changes only the cores, the tasks and the values the call
\* names: the read, change and write of a whole file under the lock loses
\* nothing that another user of resctrl wrote to it.
THEOREM OthersKeepTheirs == Spec => OnlyAsked
<1>1. Init => Base /\ Reading
  BY BaseInit, NoCallIs DEF Init, Reading
<1>2. Base /\ Reading /\ [Next]_vars => (Base /\ Reading)'
  BY BaseStep, ReadingStep
<1>3. Base /\ Reading /\ [Next]_vars
        => [(call # NoCall /\ call' # call /\ call.op # "reset")
             => /\ \A k \in Core : cpu'[k] # cpu[k] => k \in Elems(call.arg)
                /\ \A p \in Task : task'[p] # task[p] => p \in Elems(call.arg)
                /\ \A c \in Class, t \in Tech :
                     \A i \in Ids[t] :
                       sch'[c][t][i] # sch[c][t][i]
                         => t = call.tech /\ i = call.id
                            /\ \E e \in Elems(call.arg) : e.class = c]_vars
  BY OnlyAskedStep DEF CoresAsked, TasksAsked, LinesAsked
<1> QED
  BY <1>1, <1>2, <1>3, PTL DEF Spec, OnlyAsked

-----------------------------------------------------------------------------
(* A call that returns OK has done what it says *)

\* A result of which OkMeansDone says nothing.
Silent(l) == l.ret # "OK" \/ l.op \notin {"assign", "assign_pid", "set", "reset"}

LEMMA SilentIs ==
  ASSUME NEW d, NEW r
  PROVE  /\ Silent(NoResult)
         /\ r # "OK" => Silent(Result(d, r))
         /\ d.op \notin {"assign", "assign_pid", "set", "reset"} => Silent(Result(d, r))
  BY ResultIs DEF Silent, NoResult

\* What a call is when it begins.
Opening(d) ==
  /\ d.at \in {"lock", "probe"}
  /\ d.op = "assign" => Unused # {} /\ d.cls = MaxOf(Unused)
  /\ d.todo = d.arg

LEMMA BeginsIs ==
  ASSUME NEW d, NEW r, Begins(d, r), r = "OK" => Opening(d)
  PROVE  \/ call' = NoCall /\ Silent(last')
         \/ \E b : Begin(b) /\ Opening(b)
  BY SilentIs DEF Begins, Refuse

LEMMA CallsAre ==
  ASSUME Calls
  PROVE  \/ os_alloc_fini
         \/ call' = NoCall /\ Silent(last')
         \/ \E d : Begin(d) /\ Opening(d)
<1>1. CASE os_alloc_init
  BY <1>1 DEF os_alloc_init, Silent, NoResult
<1>2. CASE os_alloc_assoc_set
  <2>1. PICK k, c, r : Begins([NoCall EXCEPT !.op = "assoc_set", !.at = "lock", !.cls = c,
                                 !.todo = <<k>>, !.arg = <<k>>], r)
    BY <1>2 DEF os_alloc_assoc_set
  <2>2. PICK d : d = [NoCall EXCEPT !.op = "assoc_set", !.at = "lock", !.cls = c,
                        !.todo = <<k>>, !.arg = <<k>>]
    OBVIOUS
  <2>3. Opening(d)
    BY <2>2 DEF Opening, NoCall
  <2> QED
    BY <2>1, <2>2, <2>3, BeginsIs
<1>3. CASE os_alloc_assign
  <2> DEFINE cc == IF Unused # {} THEN MaxOf(Unused) ELSE 0
             rr == IF \E g \in 1 .. grps - 1 : ~Opens(g) THEN "ERROR"
                   ELSE IF Unused # {} THEN "OK" ELSE "RESOURCE"
  <2>1. PICK s \in CoreLists :
          Begins([NoCall EXCEPT !.op = "assign", !.at = "lock", !.cls = cc, !.todo = s,
                    !.arg = s], rr)
    BY <1>3 DEF os_alloc_assign
  <2>2. PICK c : c = cc
    OBVIOUS
  <2>3. PICK r : r = rr
    OBVIOUS
  <2>4. PICK d : d = [NoCall EXCEPT !.op = "assign", !.at = "lock", !.cls = c,
                        !.todo = s, !.arg = s]
    OBVIOUS
  <2>5. d.op = "assign" /\ d.at = "lock" /\ d.cls = c /\ d.todo = d.arg
    BY <2>4 DEF NoCall
  <2>6. r = "OK" => Opening(d)
    BY <2>2, <2>3, <2>5 DEF Opening
  <2>7. Begins(d, r)
    BY <2>1, <2>2, <2>3, <2>4
  <2> HIDE DEF cc, rr
  <2> QED
    BY <2>6, <2>7, BeginsIs
<1>4. CASE os_alloc_assoc_set_pid
  <2>1. PICK k, c, r : Begins([NoCall EXCEPT !.op = "assoc_set_pid", !.at = "lock", !.cls = c,
                                 !.todo = <<k>>, !.arg = <<k>>], r)
    BY <1>4 DEF os_alloc_assoc_set_pid
  <2>2. PICK d : d = [NoCall EXCEPT !.op = "assoc_set_pid", !.at = "lock", !.cls = c,
                        !.todo = <<k>>, !.arg = <<k>>]
    OBVIOUS
  <2>3. Opening(d)
    BY <2>2 DEF Opening, NoCall
  <2> QED
    BY <2>1, <2>2, <2>3, BeginsIs
<1>5. CASE os_alloc_release \/ os_alloc_assign_pid \/ os_alloc_release_pid
  <2>1. PICK o \in {"release", "assign_pid", "release_pid"} :
          \E s : Begin([NoCall EXCEPT !.op = o, !.at = "lock", !.todo = s, !.arg = s])
    BY <1>5 DEF os_alloc_release, os_alloc_assign_pid, os_alloc_release_pid
  <2> PICK s : Begin([NoCall EXCEPT !.op = o, !.at = "lock", !.todo = s, !.arg = s])
    BY <2>1
  <2>2. PICK d : d = [NoCall EXCEPT !.op = o, !.at = "lock", !.todo = s, !.arg = s]
    OBVIOUS
  <2>3. Opening(d)
    BY <2>2 DEF Opening, NoCall
  <2> QED
    BY <2>1, <2>2, <2>3
<1>6. CASE os_l3ca_set \/ os_l2ca_set \/ os_mba_set \/ os_mba_set_amd \/ os_smba_set_amd
  <2>1. PICK t, q, r : Begins(SetCall(t, q), r)
    BY <1>6 DEF os_l3ca_set, os_l2ca_set, os_mba_set, os_mba_set_amd, os_smba_set_amd
  <2>2. PICK d : d = SetCall(t, q)
    OBVIOUS
  <2>3. Opening(d)
    BY <2>2 DEF Opening, SetCall, NoCall
  <2> QED
    BY <2>1, <2>2, <2>3, BeginsIs
<1>7. CASE os_alloc_reset
  <2>1. PICK cfg, r : Begins([NoCall EXCEPT !.op = "reset", !.at = "probe", !.cfg = <<cfg>>], r)
    BY <1>7 DEF os_alloc_reset
  <2>2. PICK d : d = [NoCall EXCEPT !.op = "reset", !.at = "probe", !.cfg = <<cfg>>]
    OBVIOUS
  <2>3. Opening(d)
    BY <2>2 DEF Opening, NoCall
  <2> QED
    BY <2>1, <2>2, <2>3, BeginsIs
<1>8. CASE Getters
  BY <1>8, GettersAre, SilentIs DEF Refuse
<1> QED
  BY <1>1, <1>2, <1>3, <1>4, <1>5, <1>6, <1>7, <1>8 DEF Calls, Getters

\* The rest of the invariant holds after a step that ends a call ...
LEMMA Ended ==
  ASSUME call' = NoCall
  PROVE  Assigning' /\ Setting' /\ Resetting'
  BY NoCallIs DEF Assigning, Setting, Resetting

\* ... and after one that begins a call.
LEMMA Opened ==
  ASSUME Base, NEW d, Begin(d), Opening(d), CallOK(d)
  PROVE  Assigning' /\ Setting' /\ Resetting'
<1>1. call' = d /\ fresh' = {} /\ UNCHANGED <<cpu, task, sch, mnt>> /\ flock' = flock
  BY DEF Begin, fs
<1>2. Resetting'
  BY <1>1 DEF Resetting, Opening
<1>3. d.op = "assign" =>
        /\ \A k \in Core : cpu[k] # d.cls
        /\ \A p \in Task : task[p] # d.cls
  BY UnusedIs DEF Base, Opening, Unused, CpuMask, Tasks
<1>4. Setting'
  <2> SUFFICES ASSUME d.op = "set" PROVE Setting'
    BY <1>1 DEF Setting
  <2>1. d.arg \in Seq(Entry(d.tech))
    BY <1>1 DEF CallOK, SchemataCall, CoreCall, TaskCall, ResetCall, CoreOps, TaskOps, NoCall
  <2>2. Len(d.arg) \in Nat /\ d.todo = d.arg
    BY <2>1 DEF Opening
  <2>3. Written(d) = 0
    BY <2>2 DEF Written
  <2>4. TableLeft(d)
    BY <2>2, <2>3 DEF TableLeft
  <2>5. InFile(sch, d.tech, d.id, d.arg, Written(d))'
    BY <2>3 DEF InFile
  <2> QED
    BY <1>1, <2>3, <2>4, <2>5 DEF Setting
<1> QED
  BY <1>1, <1>2, <1>3, <1>4 DEF Assigning, Opening

LEMMA CallsOpen ==
  ASSUME Base, Base', Calls
  PROVE  Assigning' /\ Setting' /\ Resetting'
<1>1. os_alloc_fini => call' = NoCall
  BY DEF os_alloc_fini
<1>2. \A d : Begin(d) => CallOK(d)
  BY DEF Begin, Base
<1> QED
  BY <1>1, <1>2, CallsAre, Ended, Opened

LEMMA MaskWritten ==
  ASSUME Base, Reading, Assigning, WriteMask, call.op = "assign", ~moved,
         cpu' = CpusAfter(call.cls, call.buf \cup Moving)
  PROVE  /\ \A k \in Core : cpu'[k] = call.cls => k \in Elems(call.arg)
         /\ \A p \in Task : task'[p] = call.cls => p \in fresh'
         /\ \A k \in Elems(call.arg) : cpu'[k] = call.cls \/ k \in Elems(Tail(call.todo))
<1>1. CoreCall(call) /\ call.buf = CpuMask(call.cls)
  BY WhereItStands DEF WriteMask, Reading
<1>2. /\ Moving = {Head(call.todo)} /\ Moving \subseteq Elems(call.arg)
      /\ Elems(call.todo) \subseteq {Head(call.todo)} \cup Elems(Tail(call.todo))
      /\ Elems(call.arg) \subseteq Core
  <2>1. Elems(call.arg) \subseteq Core
    BY <1>1 DEF CoreCall, Elems
  <2> QED
    BY <1>1, <2>1, MovingIs, ElemsOf DEF CoreCall
<1>3. \A k \in Core : cpu'[k] = IF k \in call.buf \cup Moving THEN call.cls
                                 ELSE IF cpu[k] = call.cls THEN 0 ELSE cpu[k]
  BY DEF CpusAfter
<1>4. call.cls # 0
  BY <1>1 DEF CoreCall
<1>5. \A k \in Core : cpu'[k] = call.cls <=> cpu[k] = call.cls \/ k = Head(call.todo)
  BY <1>1, <1>2, <1>3, <1>4 DEF CpuMask
<1>6. UNCHANGED <<task, fresh>>
  BY DEF WriteMask, Quiet
<1> QED
  BY <1>2, <1>5, <1>6 DEF Assigning

LEMMA AssigningStep ==
  ASSUME Base, Reading, Assigning, [Next]_vars
  PROVE  Assigning'
<1>1. Shape(call) /\ (call.op = "set" => call.op \notin {"assign", "assign_pid"})
  BY WhereItStands
<1>2. CASE Calls
  BY <1>2, BaseStep, CallsOpen
<1>3. CASE ReadMask
  <2>1. CASE call' = [call EXCEPT !.at = "write", !.buf = CpuMask(call.cls)]
    <3>1. /\ call'.op = call.op /\ call'.cls = call.cls /\ call'.arg = call.arg
          /\ call'.todo = call.todo /\ call'.at = "write"
      BY <1>1, <2>1 DEF Shape, Fields
    <3> QED
      BY <1>3, <3>1 DEF Assigning, ReadMask, Quiet, fs
  <2>2. CASE call' = NoCall
    BY <2>2, Ended
  <2> QED
    BY <1>3, <2>1, <2>2 DEF ReadMask, Leave, Return
<1>4. CASE WriteMask
  <2> DEFINE rest == IF call.op = "assign" THEN Tail(call.todo) ELSE <<>>
  <2>1. CASE /\ cpu' = CpusAfter(call.cls, call.buf \cup Moving)
             /\ rest # <<>>
             /\ call' = [call EXCEPT !.at = "lock", !.todo = rest, !.buf = {}]
    <3>1. /\ call.op = "assign" /\ call'.op = call.op /\ call'.cls = call.cls
          /\ call'.arg = call.arg /\ call'.todo = Tail(call.todo) /\ call'.at = "lock"
      BY <1>1, <2>1 DEF Shape, Fields
    <3>2. moved' = moved
      BY <1>4 DEF WriteMask, Quiet
    <3> QED
      BY <1>4, <2>1, <3>1, <3>2, MaskWritten DEF Assigning
  <2>2. CASE call' = NoCall
    BY <2>2, Ended
  <2> QED
    BY <1>4, <2>1, <2>2 DEF WriteMask, Leave, Return
<1>5. CASE LockTasks
  <2>1. CASE /\ call.op # "assign_pid" \/ Unused # {}
             /\ call' = [call EXCEPT !.at = "tasks",
                           !.cls = IF call.op = "assign_pid" THEN MaxOf(Unused) ELSE call.cls]
    <3>1. /\ call'.op = call.op /\ call'.at = "tasks"
          /\ call'.cls = (IF call.op = "assign_pid" THEN MaxOf(Unused) ELSE call.cls)
      BY <1>1, <2>1 DEF Shape, Fields
    <3>2. call.op # "assign" /\ UNCHANGED <<cpu, task>>
      BY <1>5 DEF LockTasks, TaskOps, fs
    <3>3. call.op = "assign_pid" =>
            /\ \A k \in Core : cpu[k] # MaxOf(Unused)
            /\ \A p \in Task : task[p] # MaxOf(Unused)
      BY <2>1, UnusedIs DEF Base, Unused, CpuMask, Tasks
    <3> QED
      BY <3>1, <3>2, <3>3 DEF Assigning
  <2>2. CASE call' = NoCall
    BY <2>2, Ended
  <2> QED
    BY <1>5, <2>1, <2>2 DEF LockTasks, Leave, Return
<1>6. CASE WriteTask
  <2>1. CASE /\ task' = [task EXCEPT ![Head(call.todo)] = call.cls]
             /\ call' = [call EXCEPT !.todo = Tail(call.todo)]
    <3>1. /\ call'.op = call.op /\ call'.cls = call.cls /\ call'.arg = call.arg
          /\ call'.at = call.at
      BY <1>1, <2>1 DEF Shape, Fields
    <3>2. call.op # "assign" /\ UNCHANGED <<cpu, fresh>> /\ TasksAsked
      BY <1>6, WriteTaskAsked, WhereItStands DEF WriteTask, Quiet, TaskOps
    <3> QED
      BY <3>1, <3>2 DEF Assigning, TasksAsked
  <2>2. CASE call' = NoCall
    BY <2>2, Ended
  <2> QED
    BY <1>6, <2>1, <2>2 DEF WriteTask, Leave, Return
<1>7. CASE LockSchemata \/ ReadLine \/ WriteLine
  <2>1. call'.op = "set" \/ call' = NoCall
    BY <1>1, <1>7 DEF LockSchemata, ReadLine, WriteLine, Leave, Return, Shape, Fields
  <2> QED
    BY <2>1, NoCallIs DEF Assigning
<1>8. CASE resctrl_lock_fails
  BY <1>8, Ended DEF resctrl_lock_fails, Return
<1>9. CASE ResetStep
  <2>1. call.op = "reset"
    BY <1>9, ResetStepIs
  <2>2. call'.op = "reset" \/ call' = NoCall
    BY <1>1, <1>9, <2>1 DEF ResetStep, ResetProbe, ResetProbeFails, os_alloc_reset_cores,
       ResetUmount, ResetMount, os_alloc_reset_schematas, ScanProc, os_alloc_reset_tasks,
       Return, Shape, Fields
  <2> QED
    BY <2>2, NoCallIs DEF Assigning
<1>10. CASE Environment /\ call # NoCall
  <2>1. call.cls # Dead \/ call.op \notin {"assign", "assign_pid"}
    BY WhereItStands DEF CoreCall, TaskCall, CoreOps, TaskOps, Class, Dead
  <2>2. call.at = "tasks" => flock = "lib"
    BY DEF Base, Holding
  <2>3. CASE PeerLock \/ PeerUnlock
    BY <1>10, <2>3 DEF PeerLock, PeerUnlock, Meanwhile, Assigning, fs
  <2>4. CASE PeerWrite
    <3>1. moved' /\ call.at # "tasks" /\ call' = call
      BY <1>10, <2>2, <2>4 DEF PeerWrite, Meanwhile
    <3> QED
      BY <3>1 DEF Assigning
  <2>5. CASE TaskExits
    <3>1. fresh' = fresh /\ (moved' <=> moved) /\ UNCHANGED <<call, cpu>>
      BY <1>10, <2>5 DEF TaskExits, Meanwhile
    <3>2. \A p \in Task : task'[p] # Dead => task'[p] = task[p]
      BY <2>5 DEF TaskExits, Base, TypeOK
    <3> QED
      BY <2>1, <3>1, <3>2 DEF Assigning
  <2>6. CASE TaskStarts
    <3>1. PICK p, q \in Task : task' = [task EXCEPT ![p] = task[q]] /\ Meanwhile({p}, FALSE)
      BY <2>6 DEF TaskStarts
    <3>2. fresh' = fresh \cup {p} /\ (moved' <=> moved)
      BY <1>10, <3>1 DEF Meanwhile
    <3>3. \A x \in Task : x \notin fresh' => task'[x] = task[x] /\ x \notin fresh
      BY <3>1, <3>2 DEF Base, TypeOK
    <3>4. UNCHANGED <<call, cpu>>
      BY <2>6 DEF TaskStarts
    <3> QED
      BY <3>2, <3>3, <3>4 DEF Assigning
  <2> QED
    BY <1>10, <2>3, <2>4, <2>5, <2>6 DEF Environment
<1>11. CASE Environment /\ call = NoCall
  BY <1>11, OthersUnderLock, Ended
<1>12. CASE UNCHANGED vars
  BY <1>12 DEF Assigning, vars
<1> QED
  BY <1>2, <1>3, <1>4, <1>5, <1>6, <1>7, <1>8, <1>9, <1>10, <1>11, <1>12
     DEF Next, Library, ResetStep

\* Under the lock a table is written entry by entry.
LEMMA LineWritten ==
  ASSUME Base, Reading, Setting, WriteLine,
         sch' = [sch EXCEPT ![Head(call.todo).class][call.tech] =
                   [call.buf EXCEPT ![call.id] = Effective(call.tech, Head(call.todo))]]
  PROVE  /\ Written(call) \in Nat /\ Written(call) + 1 <= Len(call.arg)
         /\ InFile(sch', call.tech, call.id, call.arg, Written(call) + 1)
<1>1. SchemataCall(call) /\ call.op = "set" /\ call.at = "write"
  BY WhereItStands DEF WriteLine
<1>2. PICK e : e = Head(call.todo)
  OBVIOUS
<1>3. /\ e.class \in Class /\ call.buf = sch[e.class][call.tech]
      /\ call.tech \in Tech /\ call.id \in Ids[call.tech]
  BY <1>1, <1>2 DEF Reading, SchemataCall
<1>4. PICK w \in Nat : w = Written(call)
  BY <1>1 DEF Setting, TableLeft
<1>5. Len(call.todo) \in Nat \ {0} /\ Len(call.arg) \in Nat /\ call.todo[1] = e
  BY <1>1, <1>2, ElemsOf DEF SchemataCall
<1>6. w + 1 <= Len(call.arg) /\ call.arg[w + 1] = e
  <2>1. w = Len(call.arg) - Len(call.todo)
    BY <1>4 DEF Written
  <2>2. 1 \in 1 .. Len(call.todo)
    BY <1>5
  <2>3. call.todo[1] = call.arg[w + 1]
    BY <1>1, <1>4, <2>2 DEF Setting, TableLeft
  <2> QED
    BY <1>5, <2>1, <2>3
<1>7. PICK l : l = [call.buf EXCEPT ![call.id] = Effective(call.tech, Head(call.todo))]
  OBVIOUS
<1>8. l[call.id] = Effective(call.tech, e)
  BY ZenonT(30), <1>2, <1>3, <1>7 DEF Base, TypeOK
<1>9. sch' = [sch EXCEPT ![e.class] = [sch[e.class] EXCEPT ![call.tech] = l]]
  BY <1>2, <1>7
<1>10. sch'[e.class][call.tech] = l /\ \A c \in Class : c # e.class => sch'[c] = sch[c]
  BY <1>3, <1>9 DEF Base, SchShape
<1>11. InFile(sch', call.tech, call.id, call.arg, w + 1)
  <2> SUFFICES ASSUME NEW k \in 1 .. w + 1,
                      \A m \in k + 1 .. w + 1 : call.arg[m].class # call.arg[k].class
               PROVE  /\ call.arg[k].class \in Class
                      /\ sch'[call.arg[k].class][call.tech][call.id]
                           = Effective(call.tech, call.arg[k])
    BY DEF InFile
  <2>1. CASE k = w + 1
    BY <1>3, <1>6, <1>8, <1>10, <2>1
  <2>2. CASE k # w + 1
    <3>1. k \in 1 .. w /\ w + 1 \in k + 1 .. w + 1
      BY <2>2
    <3>2. call.arg[k].class # e.class
      BY <1>6, <3>1
    <3>3. \A m \in k + 1 .. w : m \in k + 1 .. w + 1
      OBVIOUS
    <3>4. InFile(sch, call.tech, call.id, call.arg, w)
      BY <1>1, <1>4 DEF Setting
    <3>5. /\ call.arg[k].class \in Class
          /\ sch[call.arg[k].class][call.tech][call.id] = Effective(call.tech, call.arg[k])
      BY <3>1, <3>3, <3>4 DEF InFile
    <3> QED
      BY <1>10, <3>2, <3>5
  <2> QED
    BY <2>1, <2>2
<1> QED
  BY <1>4, <1>6, <1>11

LEMMA SettingStep ==
  ASSUME Base, Reading, Setting, [Next]_vars
  PROVE  Setting'
<1>1. Shape(call) /\ Base'
  BY WhereItStands, BaseStep
<1>2. CASE Calls
  BY <1>1, <1>2, CallsOpen
<1>3. CASE call' = NoCall
  BY <1>3, Ended
<1>4. CASE /\ call.op = "set" /\ call'.op = call.op /\ call'.arg = call.arg
           /\ call'.todo = call.todo /\ call'.tech = call.tech /\ call'.id = call.id
           /\ call'.at \in {"read", "write"} /\ UNCHANGED <<sch, amd>>
  <2>1. PICK d : d = call'
    OBVIOUS
  <2>2. Written(d) = Written(call) /\ TableLeft(d)
    BY <1>4, <2>1 DEF Written, Setting, TableLeft
  <2>3. InFile(sch, d.tech, d.id, d.arg, Written(d))'
    BY <1>4, <2>1, <2>2 DEF Setting, InFile, Effective
  <2> QED
    BY <1>4, <2>1, <2>2, <2>3 DEF Setting
<1>5. CASE LockSchemata \/ ReadLine
  <2>1. \/ call' = NoCall
        \/ call' = [call EXCEPT !.at = "read"]
        \/ call' = [call EXCEPT !.at = "write", !.buf = Line(Head(call.todo).class, call.tech)]
    BY <1>5 DEF LockSchemata, ReadLine, Leave, Return
  <2>2. call.op = "set" /\ UNCHANGED <<sch, amd>>
    BY <1>5 DEF LockSchemata, ReadLine, fs, Quiet
  <2> QED
    BY <1>1, <1>3, <1>4, <2>1, <2>2 DEF Shape, Fields
<1>6. CASE WriteLine
  <2> DEFINE e == Head(call.todo)
             line == [call.buf EXCEPT ![call.id] = Effective(call.tech, e)]
             c == [call EXCEPT !.out = Append(call.out, <<e, line[call.id]>>)]
  <2>1. CASE /\ sch' = [sch EXCEPT ![e.class][call.tech] = line]
             /\ Len(call.todo) # 1
             /\ call' = [c EXCEPT !.at = "read", !.todo = Tail(call.todo)]
    <3>1. PICK d : d = call'
      OBVIOUS
    <3>2. /\ d.at = "read" /\ d.op = call.op /\ d.tech = call.tech /\ d.id = call.id
          /\ d.arg = call.arg /\ d.todo = Tail(call.todo)
      BY <1>1, <2>1, <3>1 DEF Shape, Fields
    <3>3. SchemataCall(call) /\ call.op = "set"
      BY <1>6, WhereItStands DEF WriteLine
    <3>4. PICK w \in Nat : w = Written(call) /\ InFile(sch', call.tech, call.id, call.arg, w + 1)
      BY <1>6, <2>1, LineWritten
    <3>5. /\ Len(call.todo) \in Nat \ {0} /\ Len(call.arg) \in Nat
          /\ Len(d.todo) = Len(call.todo) - 1
          /\ \A n \in 1 .. Len(call.todo) - 1 : d.todo[n] = call.todo[n + 1]
      BY <3>2, <3>3 DEF SchemataCall
    <3>6. Written(d) = w + 1
      <4>1. Written(d) = Len(call.arg) - (Len(call.todo) - 1)
        BY <3>2, <3>5 DEF Written
      <4>2. w = Len(call.arg) - Len(call.todo)
        BY <3>4 DEF Written
      <4> QED
        BY <3>5, <4>1, <4>2
    <3>7. TableLeft(d)
      <4> SUFFICES ASSUME NEW n \in 1 .. Len(call.todo) - 1
                   PROVE  d.todo[n] = d.arg[(w + 1) + n]
        BY <3>4, <3>5, <3>6 DEF TableLeft
      <4>1. n + 1 \in 1 .. Len(call.todo) /\ (w + 1) + n = w + (n + 1)
        BY <3>5
      <4>2. call.todo[n + 1] = call.arg[w + (n + 1)]
        BY <3>3, <3>4, <4>1 DEF Setting, TableLeft
      <4> QED
        BY <3>2, <3>5, <4>1, <4>2
    <3>8. amd' = amd
      BY <1>6 DEF WriteLine, Quiet
    <3>9. InFile(sch, d.tech, d.id, d.arg, Written(d))'
      BY <3>2, <3>4, <3>6, <3>8 DEF InFile, Effective
    <3> QED
      BY <3>1, <3>2, <3>7, <3>9 DEF Setting
  <2> QED
    BY <1>3, <1>6, <2>1 DEF WriteLine, Leave, Return
<1>7. CASE call.op # "set" /\ call'.op = call.op
  BY <1>7 DEF Setting
<1>8. CASE ReadMask \/ WriteMask \/ LockTasks \/ WriteTask \/ ResetStep \/ resctrl_lock_fails
  <2>1. CASE ReadMask \/ WriteMask
    <3>1. call.op # "set"
      BY <2>1 DEF ReadMask, WriteMask, CoreOps
    <3>2. call'.op = call.op \/ call' = NoCall
      BY <1>1, <2>1 DEF ReadMask, WriteMask, Leave, Return, Shape, Fields
    <3> QED
      BY <1>3, <1>7, <3>1, <3>2
  <2>2. CASE LockTasks \/ WriteTask
    <3>1. call.op # "set"
      BY <2>2, WhereItStands DEF LockTasks, WriteTask, TaskOps
    <3>2. call'.op = call.op \/ call' = NoCall
      BY <1>1, <2>2 DEF LockTasks, WriteTask, Leave, Return, Shape, Fields
    <3> QED
      BY <1>3, <1>7, <3>1, <3>2
  <2>3. CASE ResetStep
    <3>1. call.op # "set"
      BY <2>3, ResetStepIs
    <3>2. call'.op = call.op \/ call' = NoCall
      BY <1>1, <2>3 DEF ResetStep, ResetProbe, ResetProbeFails, os_alloc_reset_cores,
         ResetUmount, ResetMount, os_alloc_reset_schematas, ScanProc, os_alloc_reset_tasks,
         Return, Shape, Fields
    <3> QED
      BY <1>3, <1>7, <3>1, <3>2
  <2>4. CASE resctrl_lock_fails
    BY <1>3, <2>4 DEF resctrl_lock_fails, Return
  <2> QED
    BY <1>8, <2>1, <2>2, <2>3, <2>4
<1>9. CASE Environment \/ UNCHANGED vars
  <2>1. UNCHANGED <<call, amd>> /\ (flock = "lib" => UNCHANGED sch)
    BY <1>9, OthersUnderLock DEF vars
  <2>2. CASE call.op # "set"
    BY <1>7, <2>1, <2>2
  <2>3. CASE call.op = "set" /\ flock = "lib"
    BY <2>1, <2>3 DEF Setting, InFile, Effective
  <2>4. CASE call.op = "set" /\ flock # "lib"
    <3>1. Written(call) = 0
      BY <2>4, WhereItStands DEF Setting, Base, Holding, SchemataCall
    <3>2. PICK d : d = call
      OBVIOUS
    <3>3. InFile(sch, d.tech, d.id, d.arg, Written(d))'
      BY <3>1, <3>2 DEF InFile
    <3> QED
      BY <2>1, <2>4, <3>1, <3>2, <3>3 DEF Setting
  <2> QED
    BY <2>2, <2>3, <2>4
<1> QED
  BY <1>2, <1>5, <1>6, <1>8, <1>9 DEF Next, Library, ResetStep

\* What os_mba_set() writes is the multiple of a step nearest to what was asked.
LEMMA Rounding ==
  ASSUME NEW m \in Nat, NEW s \in Nat \ {0}, NEW near,
         near = ((m + s \div 2) \div s) * s,
         NEW v, v = IF near = 0 THEN s ELSE near
  PROVE  v % s = 0 /\ v >= s /\ (m >= s => 2 * (v - m) \in -s .. s)
<1>1. PICK h \in Nat : h = s \div 2 /\ 2 * h <= s /\ s <= 2 * h + 1
  <2>1. s \div 2 \in Nat
    OBVIOUS
  <2> QED
    BY <2>1
<1>2. PICK q \in Nat : q = (m + h) \div s /\ q * s <= m + h /\ m + h < q * s + s
  <2>1. (m + h) \div s \in Nat
    OBVIOUS
  <2>2. /\ ((m + h) \div s) * s <= m + h
        /\ m + h < ((m + h) \div s) * s + s
    OBVIOUS
  <2> QED
    BY <2>1, <2>2
<1>3. near = q * s /\ near \in Nat
  BY <1>1, <1>2
<1>4. q # 0 => q * s >= s
  BY <1>2
<1>5. CASE near = 0
  <2>1. v = s /\ q = 0
    BY <1>3, <1>4, <1>5
  <2>2. s % s = 0
    OBVIOUS
  <2>3. ~(m >= s)
    BY <1>1, <1>2, <2>1
  <2> QED
    BY <2>1, <2>2, <2>3
<1>6. CASE near # 0
  <2>1. v = q * s /\ q # 0
    BY <1>3, <1>6
  <2>2. (q * s) % s = 0
    BY <1>2
  <2>3. 2 * (near - m) <= s /\ 2 * (near - m) >= -s
    BY <1>1, <1>2, <1>3
  <2> QED
    BY <1>3, <1>4, <2>1, <2>2, <2>3
<1> QED
  BY <1>5, <1>6

\* Every class the capabilities announce gives full access.
AllFresh == \A c \in 0 .. grps - 1 : \A t \in Techs : sch[c][t] = Fresh(mnt)[t]

LEMMA AllFreshKept ==
  ASSUME UNCHANGED <<amd, cap, mnt, sch>>, AllFresh
  PROVE  AllFresh'
<1>1. grps' = grps /\ Techs' = Techs
  BY DEF grps, Grps, Techs
<1>2. Fresh(mnt)' = Fresh(mnt)
  BY DEF Fresh, KernelDefault
<1> QED
  BY <1>1, <1>2 DEF AllFresh

\* os_alloc_reset_schematas() writes what a new group has; where the cached
\* mode of SMBA asks for more, the kernel refuses it.
LEMMA DefaultIsFresh ==
  ASSUME Base, up, Mounted, NEW t \in Techs, LineAccepted(t, DefaultLine(t))
  PROVE  DefaultLine(t) = Fresh(mnt)[t]
<1>1. t \in Tech /\ t \in AllTech
  BY PlatformAssumption DEF Techs
<1>2. Fresh(mnt)[t] = [i \in Ids[t] |-> KernelDefault(t, mnt)]
  BY <1>1 DEF Fresh
<1>3. "MBA" \in cap.ctrl <=> mnt.mbps
  BY DEF Base, Agreed, CapMatchesMount
<1>4. CASE t \in Cat
  BY <1>2, <1>4 DEF DefaultLine, KernelDefault
<1>5. CASE t = "MBA"
  BY <1>2, <1>3, <1>5 DEF DefaultLine, KernelDefault, Cat
<1>6. CASE t = "SMBA"
  <2>1. CASE Ids[t] = {}
    BY <1>2, <2>1 DEF DefaultLine
  <2>2. CASE Ids[t] # {}
    <3>1. PICK i \in Ids[t] : TRUE
      BY <2>2
    <3>2. DefaultLine(t)[i] <= MbaMax[amd]
      BY <1>6, <3>1 DEF LineAccepted, Cat
    <3>3. MbaMax[amd] \in Nat /\ Unlimited \in Nat /\ MbaMax[amd] < Unlimited
      BY LimitAssumption DEF Base, TypeOK
    <3>4. t \notin cap.ctrl
      BY <1>6, <3>1, <3>2, <3>3 DEF DefaultLine, Cat
    <3> QED
      BY <1>2, <1>6, <3>4 DEF DefaultLine, KernelDefault, Cat
  <2> QED
    BY <2>1, <2>2
<1> QED
  BY <1>1, <1>4, <1>5, <1>6 DEF AllTech, Cat

LEMMA SchematasReset ==
  ASSUME Base, os_alloc_reset_schematas, call'.ret = "OK"
  PROVE  call.ret = "OK" /\ AllFresh'
<1> DEFINE bad == {c \in 0 .. grps - 1 :
                     ~Opens(c) \/ \E t \in Techs : ~LineAccepted(t, DefaultLine(t))}
<1>1. Shape(call) /\ call # NoCall /\ up
  BY WhereItStands, NoCallIs DEF os_alloc_reset_schematas, Base, UnderWay
<1>2. /\ call.ret = "OK" /\ Mounted /\ bad = {}
      /\ sch' = [c \in Class |-> IF c < grps /\ \A b \in bad : c < b
                                 THEN [t \in Tech |-> DefaultLine(t)] ELSE sch[c]]
  <2>1. CASE call' = [call EXCEPT !.at = "scan", !.ret = "ERROR"]
    BY <1>1, <2>1 DEF Shape, Fields
  <2>2. CASE /\ Mounted
             /\ sch' = [c \in Class |-> IF c < grps /\ \A b \in bad : c < b
                                        THEN [t \in Tech |-> DefaultLine(t)] ELSE sch[c]]
             /\ call' = [call EXCEPT !.at = "scan",
                                     !.ret = IF bad = {} THEN call.ret ELSE "ERROR"]
    <3>1. call'.ret = IF bad = {} THEN call.ret ELSE "ERROR"
      BY <1>1, <2>2 DEF Shape, Fields
    <3> QED
      BY <2>2, <3>1
  <2> QED
    BY <2>1, <2>2 DEF os_alloc_reset_schematas
<1>3. UNCHANGED <<amd, cap, mnt>>
  BY DEF os_alloc_reset_schematas, Quiet
<1>4. grps' = grps /\ Techs' = Techs /\ Fresh(mnt)' = Fresh(mnt)
  BY <1>3 DEF grps, Grps, Techs, Fresh, KernelDefault
<1>5. grps \in Nat /\ 0 .. grps - 1 \subseteq Class
  BY ClassesFit DEF Base, TypeOK, grps
<1>6. ASSUME NEW c \in 0 .. grps - 1, NEW t \in Techs
      PROVE  sch'[c][t] = Fresh(mnt)[t]
  <2>1. c \in Class /\ c < grps /\ t \in Tech
    BY <1>5 DEF Techs
  <2>2. sch'[c] = [u \in Tech |-> DefaultLine(u)]
    BY <1>2, <2>1
  <2>3. LineAccepted(t, DefaultLine(t))
    BY <1>2
  <2> QED
    BY <1>1, <1>2, <2>1, <2>2, <2>3, DefaultIsFresh
<1> QED
  BY <1>2, <1>4, <1>6 DEF AllFresh

LEMMA ResettingStep ==
  ASSUME Base, Reading, Resetting, [Next]_vars
  PROVE  Resetting'
<1>1. Shape(call) /\ Base'
  BY WhereItStands, BaseStep
<1>2. CASE Calls
  BY <1>1, <1>2, CallsOpen
<1>3. CASE call' = NoCall
  BY <1>3, Ended
<1>4. CASE call'.op # "reset" \/ call'.at \notin {"schematas", "scan", "proc"}
  BY <1>4 DEF Resetting
<1>5. CASE \/ resctrl_lock_fails \/ ReadMask \/ WriteMask \/ LockTasks \/ WriteTask
           \/ LockSchemata \/ ReadLine \/ WriteLine
  <2>1. CASE resctrl_lock_fails
    BY <1>3, <2>1 DEF resctrl_lock_fails, Return
  <2>2. CASE ReadMask \/ WriteMask
    <3>1. call' = NoCall \/ call'.at \in {"lock", "write"}
      BY <1>1, <2>2 DEF ReadMask, WriteMask, Leave, Return, Shape, Fields
    <3> QED
      BY <1>3, <1>4, <3>1
  <2>3. CASE LockTasks \/ WriteTask
    <3>1. call' = NoCall \/ call'.at = "tasks"
      BY <1>1, <2>3 DEF LockTasks, WriteTask, Leave, Return, Shape, Fields
    <3> QED
      BY <1>3, <1>4, <3>1
  <2>4. CASE LockSchemata \/ ReadLine \/ WriteLine
    <3>1. call' = NoCall \/ call'.at \in {"read", "write"}
      BY <1>1, <2>4 DEF LockSchemata, ReadLine, WriteLine, Leave, Return, Shape, Fields
    <3> QED
      BY <1>3, <1>4, <3>1
  <2> QED
    BY <1>5, <2>1, <2>2, <2>3, <2>4
<1>6. CASE ResetProbe \/ ResetProbeFails \/ ResetUmount \/ ResetMount
  <2>1. call' = NoCall \/ call'.at \in {"cores", "mount"}
    BY <1>1, <1>6 DEF ResetProbe, ResetProbeFails, ResetUmount, ResetMount, Return, Shape, Fields
  <2> QED
    BY <1>3, <1>4, <2>1
<1>7. CASE os_alloc_reset_cores
  <2>1. PICK a : a = IF Changes(call.cfg[1]) THEN "umount" ELSE "schematas"
    OBVIOUS
  <2>2. \/ call' = [call EXCEPT !.at = a] /\ cpu' = [k \in Core |-> 0]
        \/ call' = [[call EXCEPT !.at = a] EXCEPT !.ret = "ERROR"]
        \/ call' = NoCall
    BY <1>7, <2>1 DEF os_alloc_reset_cores, Return
  <2>3. CASE call' = [call EXCEPT !.at = a] /\ cpu' = [k \in Core |-> 0]
    <3>1. call'.at \in {"umount", "schematas"}
      BY <1>1, <2>1, <2>3 DEF Shape, Fields
    <3> QED
      BY <2>3, <3>1 DEF Resetting
  <2>4. CASE call' = [[call EXCEPT !.at = a] EXCEPT !.ret = "ERROR"]
    <3>1. call'.ret = "ERROR"
      BY <1>1, <2>4 DEF Shape, Fields
    <3> QED
      BY <3>1 DEF Resetting
  <2> QED
    BY <1>3, <2>2, <2>3, <2>4
<1>8. CASE os_alloc_reset_schematas
  <2>1. call'.at = "scan" /\ call'.op = call.op
    BY <1>1, <1>8 DEF os_alloc_reset_schematas, Shape, Fields
  <2>2. call'.ret = "OK" => call.ret = "OK" /\ AllFresh'
    BY <1>8, SchematasReset
  <2>3. UNCHANGED <<cpu, moved>> /\ call.at = "schematas"
    BY <1>8 DEF os_alloc_reset_schematas, Quiet
  <2> QED
    BY <2>1, <2>2, <2>3 DEF Resetting, AllFresh
<1>9. CASE ScanProc
  <2>1. /\ call'.at = "proc" /\ call'.op = call.op /\ call'.ret = call.ret
        /\ call'.buf = {p \in Leader : task[p] # Dead}
    BY <1>1, <1>9 DEF ScanProc, Shape, Fields
  <2>2. UNCHANGED <<cpu, task, sch, mnt, amd, cap, fresh, moved>> /\ call.at = "scan"
    BY <1>9 DEF ScanProc, Quiet, fs
  <2>3. AllFresh => AllFresh'
    BY <2>2, AllFreshKept
  <2> QED
    BY <2>1, <2>2, <2>3 DEF Resetting, AllFresh
<1>10. CASE os_alloc_reset_tasks
  <2>1. CASE \E p \in call.buf :
               /\ task' = [task EXCEPT ![p] = IF task[p] = Dead THEN Dead ELSE 0]
               /\ call' = [call EXCEPT !.buf = call.buf \ {p}]
    <3>1. PICK p \in call.buf :
               /\ task' = [task EXCEPT ![p] = IF task[p] = Dead THEN Dead ELSE 0]
               /\ call' = [call EXCEPT !.buf = call.buf \ {p}]
      BY <2>1
    <3>2. /\ call'.at = call.at /\ call'.op = call.op /\ call'.ret = call.ret
          /\ call'.buf = call.buf \ {p}
      BY <1>1, <3>1 DEF Shape, Fields
    <3>3. UNCHANGED <<cpu, sch, mnt, amd, cap, fresh, moved>> /\ call.at = "proc"
      BY <1>10 DEF os_alloc_reset_tasks, Quiet
    <3>4. AllFresh => AllFresh'
      BY <3>3, AllFreshKept
    <3>5. \A x \in Leader : x # p => task'[x] = task[x]
      BY <3>1, PlatformAssumption DEF Base, TypeOK
    <3>6. \A x \in Leader : x = p => task'[x] \in {0, Dead}
      BY <3>1, PlatformAssumption DEF Base, TypeOK
    <3> QED
      BY <3>2, <3>3, <3>4, <3>5, <3>6 DEF Resetting, AllFresh
  <2> QED
    BY <1>3, <1>10, <2>1 DEF os_alloc_reset_tasks, Return
<1>11. CASE Environment /\ call # NoCall
  <2>1. UNCHANGED <<call, amd, mnt, cap>>
    BY <1>11, OthersUnderLock
  <2>2. CASE PeerWrite
    <3>1. moved'
      BY <1>11, <2>2 DEF PeerWrite, Meanwhile
    <3> QED
      BY <3>1 DEF Resetting
  <2>3. CASE ~PeerWrite
    <3>1. UNCHANGED <<cpu, sch>>
      BY <1>11, <2>3 DEF Environment, PeerLock, PeerUnlock, TaskExits, TaskStarts, fs
    <3>2. (moved' <=> moved) /\ fresh \subseteq fresh'
      BY <1>11, <2>3 DEF Environment, PeerLock, PeerUnlock, TaskExits, TaskStarts, Meanwhile
    <3>3. \A p \in Task : p \notin fresh' => task'[p] \in {task[p], Dead}
      <4>1. CASE PeerLock \/ PeerUnlock
        BY <4>1 DEF PeerLock, PeerUnlock, fs
      <4>2. CASE TaskExits
        BY <4>2 DEF TaskExits, Base, TypeOK
      <4>3. CASE TaskStarts
        <5>1. PICK p, q \in Task : task' = [task EXCEPT ![p] = task[q]] /\ Meanwhile({p}, FALSE)
          BY <4>3 DEF TaskStarts
        <5>2. p \in fresh'
          BY <1>11, <5>1 DEF Meanwhile
        <5> QED
          BY <5>1, <5>2 DEF Base, TypeOK
      <4> QED
        BY <1>11, <2>3, <4>1, <4>2, <4>3 DEF Environment
    <3>4. AllFresh => AllFresh'
      BY <2>1, <3>1, AllFreshKept
    <3>5. Leader \subseteq Task
      BY PlatformAssumption
    <3> QED
      BY <2>1, <3>1, <3>2, <3>3, <3>4, <3>5 DEF Resetting, AllFresh
  <2> QED
    BY <2>2, <2>3
<1>12. CASE Environment /\ call = NoCall
  BY <1>3, <1>12, OthersUnderLock
<1>13. CASE UNCHANGED vars
  <2>1. AllFresh => AllFresh'
    BY <1>13, AllFreshKept DEF vars
  <2> QED
    BY <1>13, <2>1 DEF Resetting, AllFresh, vars
<1> QED
  BY <1>2, <1>5, <1>6, <1>7, <1>8, <1>9, <1>10, <1>11, <1>12, <1>13 DEF Next, Library

LEMMA SilentSuffices ==
  ASSUME Silent(last)'
  PROVE  OkMeansDone'
  BY DEF Silent, OkMeansDone, AssignedAlone, SetTookEffect, ResetRestores

\* An assignment of cores returns.
LEMMA AssignDone ==
  ASSUME Base, Reading, Assigning, WriteMask, last' = Result(call, "OK"),
         cpu' = CpusAfter(call.cls, call.buf \cup Moving),
         call.op = "assign" => Tail(call.todo) = <<>>
  PROVE  OkMeansDone'
<1>1. CASE call.op # "assign"
  <2>1. call.op \notin {"assign", "assign_pid", "set", "reset"}
    BY <1>1 DEF WriteMask, CoreOps
  <2> QED
    BY <2>1, SilentIs, SilentSuffices
<1>2. CASE call.op = "assign"
  <2>1. /\ last'.op = "assign" /\ last'.cls = call.cls /\ last'.items = call.arg
    BY <1>2, ResultIs
  <2>2. Elems(Tail(call.todo)) = {} /\ moved' = moved
    BY <1>2 DEF Elems, WriteMask, Quiet
  <2>3. ~moved =>
          /\ \A k \in Core : cpu'[k] = call.cls => k \in Elems(call.arg)
          /\ \A p \in Task : task'[p] = call.cls => p \in fresh'
          /\ \A k \in Elems(call.arg) : cpu'[k] = call.cls
    BY <1>2, <2>2, MaskWritten
  <2>4. AssignedAlone'
    BY <2>1, <2>2, <2>3 DEF AssignedAlone
  <2> QED
    BY <2>1, <2>4 DEF OkMeansDone, SetTookEffect, ResetRestores
<1> QED
  BY <1>1, <1>2

\* An assignment of tasks returns.
LEMMA AssignPidDone ==
  ASSUME Base, Assigning, WriteTask, last' = Result(call, "OK")
  PROVE  OkMeansDone'
<1>1. call.op \in TaskOps
  BY WhereItStands DEF WriteTask
<1>2. CASE call.op # "assign_pid"
  <2>1. call.op \notin {"assign", "assign_pid", "set", "reset"}
    BY <1>1, <1>2 DEF TaskOps
  <2> QED
    BY <2>1, SilentIs, SilentSuffices
<1>3. CASE call.op = "assign_pid"
  <2>1. /\ last'.op = "assign_pid" /\ last'.cls = call.cls /\ last'.items = call.arg
    BY <1>3, ResultIs
  <2>2. TasksAsked /\ UNCHANGED <<cpu, fresh>> /\ call.at = "tasks"
    BY WriteTaskAsked DEF WriteTask, Quiet
  <2>3. AssignedAlone'
    BY <1>3, <2>1, <2>2 DEF AssignedAlone, Assigning, TasksAsked
  <2> QED
    BY <2>1, <2>3 DEF OkMeansDone, SetTookEffect, ResetRestores
<1> QED
  BY <1>2, <1>3

\* What is in the file for an entry is what SetTookEffect asks for.
LEMMA EffectiveIs ==
  ASSUME NEW t \in Tech, NEW e \in Entry(t), NEW v, v = Effective(t, e)
  PROVE  IF t \in Cat THEN v = [code |-> e.code, data |-> e.data]
         ELSE IF t = "SMBA" \/ amd \/ e.ctrl THEN v = e.max
         ELSE /\ v % Step = 0 /\ v >= Step
              /\ e.max >= Step => 2 * (v - e.max) \in -Step .. Step
<1>1. CASE t \in Cat
  BY <1>1 DEF Effective
<1>2. CASE t \notin Cat /\ (t = "SMBA" \/ amd \/ e.ctrl)
  BY <1>2 DEF Effective
<1>3. CASE t \notin Cat /\ ~(t = "SMBA" \/ amd \/ e.ctrl)
  <2>1. t = "MBA"
    BY <1>3, PlatformAssumption DEF AllTech, Cat
  <2>2. PICK m \in Nat : m = e.max
    BY <1>3, LimitAssumption, PlatformAssumption DEF Entry
  <2>3. PICK near : near = ((m + Step \div 2) \div Step) * Step
    OBVIOUS
  <2>4. v = IF near = 0 THEN Step ELSE near
    BY <1>3, <2>1, <2>2, <2>3 DEF Effective
  <2>5. Step \in Nat \ {0}
    BY PlatformAssumption
  <2>6. v % Step = 0 /\ v >= Step /\ (m >= Step => 2 * (v - m) \in -Step .. Step)
    BY <2>3, <2>4, <2>5, Rounding
  <2> QED
    BY <1>3, <2>2, <2>6
<1> QED
  BY <1>1, <1>2, <1>3

\* A request returns.
LEMMA SetDone ==
  ASSUME Base, Reading, Setting, WriteLine, Len(call.todo) = 1,
         sch' = [sch EXCEPT ![Head(call.todo).class][call.tech] =
                   [call.buf EXCEPT ![call.id] = Effective(call.tech, Head(call.todo))]],
         NEW x, last' = Result([call EXCEPT !.out = x], "OK")
  PROVE  OkMeansDone'
<1>1. SchemataCall(call) /\ Shape(call) /\ call.op = "set"
  BY WhereItStands DEF WriteLine
<1>2. PICK c : c = [call EXCEPT !.out = x]
  OBVIOUS
<1>3. c.op = "set" /\ c.arg = call.arg /\ c.tech = call.tech /\ c.id = call.id
  BY <1>1, <1>2 DEF Shape, Fields
<1>4. /\ last'.op = "set" /\ last'.items = call.arg /\ last'.tech = call.tech
      /\ last'.id = call.id
  <2>1. last' = Result(c, "OK")
    BY <1>2
  <2> HIDE <1>2
  <2>2. PICK r : r = Result(c, "OK")
    OBVIOUS
  <2>3. r.op = c.op /\ r.items = c.arg /\ r.tech = c.tech /\ r.id = c.id
    BY <2>2, ResultIs
  <2> QED
    BY <1>3, <2>1, <2>2, <2>3
<1>5. PICK n \in Nat : n = Len(call.arg) /\ InFile(sch', call.tech, call.id, call.arg, n)
  <2>1. Len(call.arg) \in Nat
    BY <1>1 DEF SchemataCall
  <2>2. Written(call) + 1 = Len(call.arg)
    BY <2>1 DEF Written
  <2>3. InFile(sch', call.tech, call.id, call.arg, Written(call) + 1)
    BY LineWritten
  <2> QED
    BY <2>1, <2>2, <2>3
<1>6. amd' = amd
  BY DEF WriteLine, Quiet
<1>7. SetTookEffect'
  <2> SUFFICES ASSUME NEW k \in 1 .. n,
                      \A m \in k + 1 .. n : call.arg[m].class # call.arg[k].class
               PROVE  LET e == call.arg[k]
                          v == sch'[e.class][call.tech][call.id]
                      IN IF call.tech \in Cat THEN v = [code |-> e.code, data |-> e.data]
                         ELSE IF call.tech = "SMBA" \/ amd' \/ e.ctrl THEN v = e.max
                         ELSE /\ v % Step = 0 /\ v >= Step
                              /\ e.max >= Step => 2 * (v - e.max) \in -Step .. Step
    <3>1. PICK a, t, i : a = call.arg /\ t = call.tech /\ i = call.id
      OBVIOUS
    <3>2. /\ last'.items = a /\ last'.tech = t /\ last'.id = i /\ Len(a) = n
      BY <1>4, <1>5, <3>1
    <3>3. \A k \in 1 .. n :
            (\A m \in k + 1 .. n : a[m].class # a[k].class)
              => LET e == a[k]
                     v == sch'[e.class][t][i]
                 IN IF t \in Cat THEN v = [code |-> e.code, data |-> e.data]
                    ELSE IF t = "SMBA" \/ amd' \/ e.ctrl THEN v = e.max
                    ELSE /\ v % Step = 0 /\ v >= Step
                         /\ e.max >= Step => 2 * (v - e.max) \in -Step .. Step
      BY <3>1
    <3> SUFFICES ASSUME NEW k \in 1 .. Len(last'.items),
                        \A m \in k + 1 .. Len(last'.items) :
                          last'.items[m].class # last'.items[k].class
                 PROVE  LET e == last'.items[k]
                            v == sch'[e.class][last'.tech][last'.id]
                        IN IF last'.tech \in Cat THEN v = [code |-> e.code, data |-> e.data]
                           ELSE IF last'.tech = "SMBA" \/ amd' \/ e.ctrl THEN v = e.max
                           ELSE /\ v % Step = 0 /\ v >= Step
                                /\ e.max >= Step => 2 * (v - e.max) \in -Step .. Step
      BY DEF SetTookEffect
    <3> QED
      BY ZenonT(30), <3>2, <3>3
  <2>1. PICK t, e : t \in Tech /\ t = call.tech /\ e = call.arg[k] /\ e \in Entry(t)
    BY <1>1, <1>5 DEF SchemataCall
  <2>2. PICK v : v = sch'[e.class][t][call.id]
    OBVIOUS
  <2>3. v = Effective(t, e)
    BY <1>5, <2>1, <2>2 DEF InFile
  <2>4. IF t \in Cat THEN v = [code |-> e.code, data |-> e.data]
        ELSE IF t = "SMBA" \/ amd \/ e.ctrl THEN v = e.max
        ELSE /\ v % Step = 0 /\ v >= Step
             /\ e.max >= Step => 2 * (v - e.max) \in -Step .. Step
    BY <2>1, <2>3, EffectiveIs
  <2> QED
    BY <1>6, <2>1, <2>2, <2>4
<1> QED
  BY <1>4, <1>7 DEF OkMeansDone, AssignedAlone, ResetRestores

\* A reset returns: after a new mount ...
LEMMA MountDone ==
  ASSUME Base, ResetMount
  PROVE  OkMeansDone'
<1>1. CASE \E r : Return(r) /\ r # "OK"
  BY <1>1, SilentIs, SilentSuffices DEF Return
<1>2. CASE MountAs(MountOptions(call.cfg[1])) /\ Return("OK")
  <2>1. call.op = "reset"
    BY WhereItStands DEF ResetMount
  <2>2. last'.op = "reset"
    BY <1>2, <2>1, ResultIs DEF Return
  <2>3. PICK m : m = MountOptions(call.cfg[1])
    OBVIOUS
  <2>4. /\ mnt' = m /\ cpu' = [k \in Core |-> 0] /\ sch' = [c \in Class |-> Fresh(m)]
        /\ task' = [p \in Task |-> IF task[p] = Dead THEN Dead ELSE 0]
    BY <1>2, <2>3 DEF MountAs
  <2>5. amd' = amd /\ amd' \in BOOLEAN
    BY DEF ResetMount, Base, TypeOK
  <2>6. Fresh(mnt)' = Fresh(m)
    BY <2>4, <2>5 DEF Fresh, KernelDefault
  <2>7. (0 .. grps - 1)' \subseteq Class
    <3>1. PICK on : on = cap'.cdp
      OBVIOUS
    <3>2. grps' = Grps(on)
      BY <2>5, <3>1 DEF grps, Grps, Techs
    <3>3. 0 .. Grps(on) - 1 \subseteq Class
      BY ClassesFit DEF Base, TypeOK
    <3> QED
      BY <3>2, <3>3
  <2>8. ResetRestores'
    BY <2>4, <2>6, <2>7, PlatformAssumption DEF ResetRestores
  <2> QED
    BY <2>2, <2>8 DEF OkMeansDone, AssignedAlone, SetTookEffect
<1> QED
  BY <1>1, <1>2 DEF ResetMount

\* ... and in the file system as it is mounted.
LEMMA LightResetDone ==
  ASSUME Base, Resetting, os_alloc_reset_tasks, call.buf = {}, UNCHANGED task,
         last' = Result(call, call.ret)
  PROVE  OkMeansDone'
<1>1. call.op = "reset" /\ call.at = "proc"
  BY WhereItStands DEF os_alloc_reset_tasks
<1>2. last'.op = "reset" /\ last'.ret = call.ret
  BY <1>1, ResultIs
<1>3. UNCHANGED <<amd, cap, mnt, sch, cpu, fresh, moved>>
  BY DEF os_alloc_reset_tasks, Quiet
<1>4. AllFresh => AllFresh'
  BY <1>3, AllFreshKept
<1>5. ResetRestores'
  BY <1>1, <1>2, <1>3, <1>4 DEF ResetRestores, Resetting, AllFresh
<1> QED
  BY <1>2, <1>5 DEF OkMeansDone, AssignedAlone, SetTookEffect

LEMMA DoneStep ==
  ASSUME Base, Reading, Assigning, Setting, Resetting, OkMeansDone, [Next]_vars
  PROVE  OkMeansDone'
<1>1. CASE Silent(last)'
  BY <1>1, SilentSuffices
<1>2. Silent(NoResult) /\ (call # NoCall => last = NoResult)
  BY SilentIs DEF Base, UnderWay
<1>3. CASE os_alloc_fini \/ UNCHANGED vars
  <2>1. UNCHANGED <<amd, cap, mnt, cpu, task, sch, last, fresh, moved>>
    BY <1>3 DEF os_alloc_fini, fs, vars
  <2>2. grps' = grps /\ Techs' = Techs /\ Fresh(mnt)' = Fresh(mnt)
    BY <2>1 DEF grps, Grps, Techs, Fresh, KernelDefault
  <2>3. AssignedAlone' /\ SetTookEffect'
    BY <2>1 DEF OkMeansDone, AssignedAlone, SetTookEffect
  <2>4. ResetRestores'
    BY <2>1, <2>2 DEF OkMeansDone, ResetRestores
  <2> QED
    BY <2>3, <2>4 DEF OkMeansDone
<1>4. CASE Calls
  BY <1>1, <1>2, <1>3, <1>4, CallsAre DEF Begin
<1>5. CASE Environment
  <2>1. last' = NoResult
    BY <1>2, <1>5
       DEF Environment, PeerLock, PeerUnlock, PeerWrite, TaskExits, TaskStarts, Meanwhile
  <2> QED
    BY <1>1, <1>2, <2>1
<1>6. CASE call # NoCall /\ UNCHANGED last
  BY <1>1, <1>2, <1>6
<1>7. CASE \E r : Return(r) /\ r # "OK"
  BY <1>1, <1>7, SilentIs DEF Return
<1>8. CASE Library
  <2>1. call # NoCall
    BY <1>8, NoCallIs DEF Library, resctrl_lock_fails, ReadMask, WriteMask, LockTasks,
       WriteTask, LockSchemata, ReadLine, WriteLine, ResetProbe, ResetProbeFails,
       os_alloc_reset_cores, ResetUmount, ResetMount, os_alloc_reset_schematas, ScanProc,
       os_alloc_reset_tasks, TimesOut, Locked, CoreOps, TaskOps
  <2>2. CASE \/ resctrl_lock_fails \/ ReadMask \/ LockTasks \/ LockSchemata \/ ReadLine
             \/ ResetProbe \/ ResetProbeFails \/ os_alloc_reset_cores \/ ResetUmount
             \/ os_alloc_reset_schematas \/ ScanProc
    <3>1. UNCHANGED last \/ \E r : Return(r) /\ r # "OK"
      BY <2>2 DEF resctrl_lock_fails, ReadMask, LockTasks, LockSchemata, ReadLine, ResetProbe,
         ResetProbeFails, os_alloc_reset_cores, ResetUmount, os_alloc_reset_schematas,
         ScanProc, Leave
    <3> QED
      BY <1>6, <1>7, <2>1, <3>1
  <2>3. CASE WriteMask
    <3>1. \/ UNCHANGED last \/ \E r : Return(r) /\ r # "OK"
          \/ /\ last' = Result(call, "OK")
             /\ cpu' = CpusAfter(call.cls, call.buf \cup Moving)
             /\ call.op = "assign" => Tail(call.todo) = <<>>
      BY <2>3 DEF WriteMask, Leave, Return
    <3> QED
      BY <1>6, <1>7, <2>1, <2>3, <3>1, AssignDone
  <2>4. CASE WriteTask
    <3>1. UNCHANGED last \/ (\E r : Return(r) /\ r # "OK") \/ last' = Result(call, "OK")
      BY <2>4 DEF WriteTask, Leave, Return
    <3> QED
      BY <1>6, <1>7, <2>1, <2>4, <3>1, AssignPidDone
  <2>5. CASE WriteLine
    <3>1. \/ UNCHANGED last \/ \E r : Return(r) /\ r # "OK"
          \/ /\ Len(call.todo) = 1
             /\ sch' = [sch EXCEPT ![Head(call.todo).class][call.tech] =
                          [call.buf EXCEPT ![call.id] = Effective(call.tech, Head(call.todo))]]
             /\ \E x : last' = Result([call EXCEPT !.out = x], "OK")
      <4> DEFINE e == Head(call.todo)
                 line == [call.buf EXCEPT ![call.id] = Effective(call.tech, e)]
                 x == Append(call.out, <<e, line[call.id]>>)
      <4>1. \/ /\ sch' = [sch EXCEPT ![e.class][call.tech] = line]
               /\ IF Len(call.todo) = 1
                  THEN last' = Result([call EXCEPT !.out = x], "OK")
                  ELSE UNCHANGED last
            \/ Return("ERROR")
        BY <2>5 DEF WriteLine, Leave
      <4>2. CASE Return("ERROR")
        BY <4>2
      <4>3. CASE /\ sch' = [sch EXCEPT ![e.class][call.tech] = line]
                 /\ Len(call.todo) = 1 /\ last' = Result([call EXCEPT !.out = x], "OK")
        <5> HIDE DEF x
        <5> QED
          BY <4>3
      <4> QED
        BY <4>1, <4>2, <4>3
    <3> QED
      BY <1>6, <1>7, <2>1, <2>5, <3>1, SetDone
  <2>6. CASE ResetMount
    BY <2>6, MountDone
  <2>7. CASE os_alloc_reset_tasks
    <3>1. \/ UNCHANGED last \/ \E r : Return(r) /\ r # "OK"
          \/ call.buf = {} /\ UNCHANGED task /\ last' = Result(call, call.ret)
      BY <2>7 DEF os_alloc_reset_tasks, Return
    <3> QED
      BY <1>6, <1>7, <2>1, <2>7, <3>1, LightResetDone
  <2> QED
    BY <1>8, <2>2, <2>3, <2>4, <2>5, <2>6, <2>7 DEF Library
<1> QED
  BY <1>3, <1>4, <1>5, <1>8 DEF Next

\* A call that returns OK has done what it says, whatever the peer and the
\* processes do meanwhile: the class of an assignment is the caller's alone, the
\* schemata hold what was set, to the nearest step, and a reset has put
\* everything back.
THEOREM OkIsTrue == Spec => []OkMeansDone
<1> DEFINE Inv == Base /\ Reading /\ Assigning /\ Setting /\ Resetting /\ OkMeansDone
<1>1. Init => Inv
  <2> SUFFICES ASSUME Init PROVE Inv
    OBVIOUS
  <2>1. call = NoCall /\ last = NoResult
    BY DEF Init
  <2>2. Reading /\ Assigning /\ Setting /\ Resetting
    BY <2>1, NoCallIs DEF Reading, Assigning, Setting, Resetting
  <2>3. OkMeansDone
    BY <2>1 DEF OkMeansDone, AssignedAlone, SetTookEffect, ResetRestores, NoResult
  <2> QED
    BY <2>2, <2>3, BaseInit
<1>2. Inv /\ [Next]_vars => Inv'
  BY BaseStep, ReadingStep, AssigningStep, SettingStep, ResettingStep, DoneStep
<1> QED
  BY <1>1, <1>2, PTL DEF Spec

=============================================================================
