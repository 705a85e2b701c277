------------------------------ MODULE MonPoll ------------------------------
(***************************************************************************)
(* The values of a monitoring group: lib/monitoring.c and what it polls,   *)
(* the MSR counters of lib/hw_monitoring.c, the memory mapped ones of      *)
(* lib/mmio_monitoring.c, the performance counters of                      *)
(* lib/common_monitoring.c, lib/uncore_monitoring.c and                    *)
(* lib/perf_monitoring.c, the files of lib/resctrl_monitoring.c, and the   *)
(* functions of lib/api.c that hand the values out.                        *)
(*                                                                         *)
(* One group is started, polled, read and stopped.  A poll holds the API   *)
(* lock but not the machine: what is counted goes on while it reads one    *)
(* event after the other, so every event is a step of its own.  A counter  *)
(* is what one unit of the machine counts of one event: an RMID of a       *)
(* cluster, a core, a socket, a directory of resctrl, a region seen by a   *)
(* memory mapped agent.  Widths are moduli: Modulus of an MBM counter,     *)
(* PmuModulus of a performance counter and Wide for 2^64.                  *)
(***************************************************************************)
EXTENDS Integers, Sequences, FiniteSets, SequencesExt

CONSTANTS
  Setups,      \* the groups an application may start, each a Setup
  Unit,        \* what counts: clusters, cores, sockets or CLOS, from 1
  Modulus,     \* 2 to the counter_length of the MBM events
  PmuModulus,  \* 2 to the width of a performance counter
  Wide,        \* 2^64, the width of every value the library stores
  Boot,        \* contents an MBM counter may have when its RMID is taken
  Held,        \* contents the fixed counters of the cores may have at a start
  Scale,       \* scale_factor over snc_num
  Tries,       \* what hw_mon_read() may meet, sequences of Try
  MaxTraffic,  \* bound: counted units of work
  MaxPolls,    \* bound: calls of pqos_mon_poll()
  MaxStarts,   \* bound: groups started
  MaxMoves,    \* bound: faults and moves to another class
  Faults       \* the faults a run admits, a subset of FaultKinds

(***************************************************************************)
(* "tries"    : the event selection register is not ours alone, or the     *)
(*              counter is not ready                                       *)
(* "msr"      : an access of a performance counter fails                   *)
(* "mmio"     : a memory mapped counter cannot be mapped                   *)
(* "noton"    : a memory mapped counter is not available                   *)
(* "overflow" : a memory mapped counter has overflowed                     *)
(* "perf"     : reading a perf descriptor fails                            *)
(* "file"     : a file of resctrl cannot be read                           *)
(* "away"     : a file of resctrl says Unavailable or Unassigned           *)
(* "purge"    : the same two, or the rmdir, while directories are purged   *)
(* "lock"     : the lock of resctrl is not granted in time                 *)
(***************************************************************************)
FaultKinds == {"tries", "msr", "mmio", "noton", "overflow", "perf", "file",
               "away", "purge", "lock"}

\* Non virtual events in the order of a poll; "pcie" stands for the four
\* uncore events, which are treated alike.
mon_event == <<"l3", "local", "total", "io_l3", "io_total", "io_miss", "miss",
               "ref", "cyc", "ins", "pcie", "energy", "activity">>

Counted == Range(mon_event)

MonEvent == Counted \cup {"remote", "ipc", "power"}

Mbm == {"local", "total"}

Pmu == {"miss", "ref", "cyc", "ins"}

\* The fixed counters behind IPC; the other two are programmable.
Fixed == {"cyc", "ins"}

Telemetry == {"energy", "activity"}

\* Values that say how much there is now, and have no delta.
Gauges == {"l3", "io_l3", "activity"}

\* What a source may count for a group of an interface.
HwEvents(inter) ==
  CASE inter = "MSR" -> {"l3", "local", "total", "pcie"} \cup Pmu
    [] inter = "MMIO" -> {"l3", "total", "io_l3", "io_total", "io_miss"} \cup Pmu
    [] inter = "OS" -> {}

PerfEvents(inter) == IF inter = "OS" THEN {"l3", "local", "total"} \cup Pmu ELSE Pmu

ResctrlEvents(inter) == IF inter = "OS" THEN {"l3", "local", "total"} \cup Telemetry ELSE {}

\* A group: its interface, the events asked for, the events of each source of
\* counters, the memory regions it names, whether the MBM counters have 32
\* bits and whether another group shares its directories.  The start functions
\* take the first source that has the event, and cycles and instructions for
\* IPC only.
Setup ==
  {s \in [inter : {"MSR", "OS", "MMIO"}, event : SUBSET MonEvent, hw : SUBSET Counted,
          perf : SUBSET Counted, resctrl : SUBSET Counted, regions : Seq(Nat),
          is32 : BOOLEAN, shared : BOOLEAN] :
     /\ s.hw \subseteq HwEvents(s.inter)
     /\ s.hw \cap Pmu # {} => s.event \cap {"miss", "ref", "ipc"} # {}
     /\ s.perf \subseteq PerfEvents(s.inter) \ s.hw
     /\ s.resctrl \subseteq ResctrlEvents(s.inter) \ s.perf}

\* What one attempt of hw_mon_read() meets: whether another agent selects an
\* event between our write and our read, and what the counter answers.
Try == [steal : BOOLEAN, st : {"ok", "unavailable", "error", "fail"}]

ASSUME ShapeAssumption ==
  /\ IsFiniteSet(Unit) /\ Unit # {} /\ Unit = 1 .. Cardinality(Unit)
  /\ Setups \subseteq Setup
  /\ Faults \subseteq FaultKinds
  /\ Tries \subseteq Seq(Try)
ASSUME WidthAssumption ==
  /\ Modulus \in Nat \ {0} /\ PmuModulus \in Nat \ {0} /\ Scale \in Nat \ {0} /\ Wide \in Nat
  /\ Boot \subseteq 0 .. Modulus - 1 /\ Held \subseteq 0 .. PmuModulus - 1
  /\ Wide > Scale * Cardinality(Unit) * (MaxTraffic + Modulus + PmuModulus)
ASSUME BoundAssumption == MaxTraffic \in Nat /\ MaxPolls \in Nat /\ MaxStarts \in Nat /\ MaxMoves \in Nat

VARIABLES
  phase,    \* "off", "on" or "poll": whether the group carries its marker
  setup,    \* the group that is, or was last, started
  grp,      \* struct pqos_mon_data and its internal part
  cnt,      \* cnt[k][u]: what unit u has counted of k
  runs,     \* runs[e]: the units whose counter of e is enabled
  fs,       \* directories of the group in resctrl and where its cores are
  todo,     \* the set of events the poll still has to read
  ret,      \* what the last call returned
  since,    \* since[k]: counted of k since the last reading stored; before it,
            \* what a counter that nobody has zeroed or read held at the start
  exact,    \* exact[k]: what since[k] was at the last reading stored
  gap,      \* keys without a baseline the caller was told of
  fresh,    \* keys read by the poll that runs, or ran last
  spoilt,   \* spoilt[k]: why a reading of k cannot be relied upon
  spent     \* how much of the four bounds is used

pollVars == <<phase, setup, grp, cnt, runs, fs, todo, ret, since, exact, gap, fresh, spoilt, spent>>

\* What is counted: an event, or a memory region of it.
Keys(s) ==
  LET all == s.hw \cup s.perf \cup s.resctrl
  IN  IF s.inter = "MMIO" /\ "total" \in all
      THEN ((all \ {"total"}) \X {0}) \cup ({"total"} \X Range(s.regions))
      ELSE all \X {0}

\* Where a value is kept: region_values is an array indexed by position.
Slots(s) ==
  LET all == s.hw \cup s.perf \cup s.resctrl
  IN  IF s.inter = "MMIO" /\ "total" \in all
      THEN ((all \ {"total"}) \X {0}) \cup ({"total"} \X (0 .. Len(s.regions) - 1))
      ELSE all \X {0}

\* The key of the value at a slot.
KeyOf(s, slot) ==
  IF s.inter = "MMIO" /\ slot[1] = "total" THEN <<"total", s.regions[slot[2] + 1]>> ELSE slot

\* A structure as pqos_mon_start() hands it over: calloc() or memset().
Fresh(s) ==
  [val |-> [x \in Slots(s) |-> 0], dlt |-> [x \in Slots(s) |-> 0],
   remote |-> 0, ipc |-> <<0, 0>>,
   mbmRead |-> FALSE, ioRead |-> {}, valid |-> {},
   store |-> [e \in Mbm |-> 0],
   tel |-> [e \in Telemetry |-> [previous |-> 0, current |-> 0, valid |-> FALSE]],
   ts |-> 0, prev |-> 0, power |-> [valid |-> FALSE, energy |-> 0, time |-> 0]]

NoSetup == [inter |-> "MSR", event |-> {}, hw |-> {}, perf |-> {}, resctrl |-> {},
            regions |-> <<>>, is32 |-> FALSE, shared |-> FALSE]

Can(fault) == fault \in Faults /\ spent.moves < MaxMoves

\* 64-bit subtraction.
Minus(a, b) == (a - b) % Wide

SumOf(f) == FoldFunction(+, 0, f)

\* The sum over the units of a set.
SumIn(f, units) == SumOf([u \in Unit |-> IF u \in units THEN f[u] ELSE 0])

\* struct pqos_mon_data of a group of setup s.
Group(s) ==
  [val : [Slots(s) -> 0 .. Wide - 1], dlt : [Slots(s) -> 0 .. Wide - 1],
   remote : Nat, ipc : Nat \X Nat, mbmRead : BOOLEAN, ioRead : SUBSET {"io_total", "io_miss"},
   valid : SUBSET s.resctrl, store : [Mbm -> Nat],
   tel : [Telemetry -> [previous : Nat, current : Nat, valid : BOOLEAN]],
   ts : Nat, prev : Nat, power : [valid : BOOLEAN, energy : Int, time : Int]]

PollTypeOK ==
  /\ phase \in {"off", "on", "poll"}
  /\ setup \in Setups \cup {NoSetup}
  /\ grp \in Group(setup)
  /\ cnt \in [Keys(setup) -> [Unit -> Nat]]
  /\ runs \in [Pmu \cup {"pcie"} -> SUBSET Unit]
  /\ fs \in [dirs : SUBSET Unit, tag : Unit \cup {0}, at : Unit]
  /\ todo \subseteq Counted
  /\ ret \in {"OK", "ERROR", "PARAM", "UNAVAILABLE", "OVERFLOW", "RESOURCE", "none"}
  /\ since \in [Keys(setup) -> Nat] /\ exact \in [Keys(setup) -> Nat]
  /\ gap \subseteq Keys(setup) /\ fresh \subseteq Keys(setup)
  /\ spoilt \in [Keys(setup) -> SUBSET {"foreign", "overflow", "twice", "unread", "wrap"}]
  /\ spent \in [traffic : 0 .. MaxTraffic, polls : 0 .. MaxPolls,
                starts : 0 .. MaxStarts, moves : 0 .. MaxMoves]

PollInit ==
  /\ phase = "off" /\ setup = NoSetup /\ grp = Fresh(NoSetup)
  /\ cnt = <<>> /\ since = <<>> /\ exact = <<>> /\ spoilt = <<>>
  /\ runs = [e \in Pmu \cup {"pcie"} |-> {}]
  /\ fs = [dirs |-> {}, tag |-> 0, at |-> 1]
  /\ todo = {} /\ ret = "OK" /\ gap = {} /\ fresh = {}
  /\ spent = [traffic |-> 0, polls |-> 0, starts |-> 0, moves |-> 0]

-----------------------------------------------------------------------------
(***************************************************************************)
(* Starting and stopping the counters.                                     *)
(***************************************************************************)
\* ia32_perf_counter_start(): mon_start_perf() never passes the bit of IPC, so
\* nothing is done without an event of a programmable counter.  With one, all
\* counters of a core are disabled, those asked for zeroed and programmed, and
\* they alone enabled, core by core: the fixed counters stay disabled.  An
\* access that fails on core `stop` leaves that core disabled and the rest as
\* they were.
ia32_perf_counter_start(r, events, stop) ==
  [e \in Pmu \cup {"pcie"} |->
     IF e \notin Pmu \/ events \subseteq Fixed THEN r[e]
     ELSE IF e \in events \ Fixed THEN (r[e] \ {stop}) \cup {u \in Unit : u < stop}
     ELSE r[e] \ {u \in Unit : u <= stop}]

\* uncore_mon_start(): an access that fails on one socket ends the loop over
\* the events of that socket only, and the next socket overwrites the status.
uncore_mon_start(r, events, stop) ==
  IF "pcie" \in events THEN [r EXCEPT !["pcie"] = Unit \ {stop}] ELSE r

uncore_mon_start_ret(events, stop) ==
  IF "pcie" \in events /\ stop = Cardinality(Unit) THEN "ERROR" ELSE "OK"

NoStop == Cardinality(Unit) + 1

\* What the counters hold when they are handed to the group: a taken RMID
\* keeps its count and a fixed counter what it held, programmable counters,
\* descriptors and directories start from zero.
Handed(s, boot, held) ==
  [k \in Keys(s) |->
     [u \in Unit |-> IF s.inter = "MSR" /\ k[1] \in Mbm THEN boot
                      ELSE IF k[1] \in s.hw \cap Fixed THEN held ELSE 0]]

\* What the first reading of a key takes for counted: no reading of the fixed
\* counters is made at the start.
Unread(s, held) ==
  [k \in Keys(s) |-> IF k[1] \in s.hw \cap Fixed THEN SumOf([u \in Unit |-> held]) ELSE 0]

\* The fixed counters of the group as the start finds them: another agent has
\* them enabled on every core, or on none.
Found(s, on) ==
  [e \in Pmu \cup {"pcie"} |->
     IF e \in s.hw \cap Fixed THEN (IF on THEN Unit ELSE {}) ELSE runs[e]]

\* mon_start_perf(), uncore_mon_start() and the counters the functions of the
\* interfaces hand over.  The group carries its marker when all went well.
mon_start(s, boot, held, on, stop) ==
  LET events == s.hw
      r1 == ia32_perf_counter_start(Found(s, on), events \cap Pmu, stop)
      failed == \/ events \cap (Pmu \ Fixed) # {} /\ stop # NoStop
                \/ uncore_mon_start_ret(events, stop) # "OK"
  IN  /\ phase = "off" /\ spent.starts < MaxStarts
      /\ stop # NoStop => Can("msr") /\ events \cap ((Pmu \ Fixed) \cup {"pcie"}) # {}
      /\ boot # 0 => s.hw \cap Mbm # {} /\ s.inter = "MSR"
      /\ held # 0 \/ on => s.hw \cap Fixed # {}
      /\ setup' = s
      /\ runs' = uncore_mon_start(r1, events, stop)
      /\ phase' = IF failed THEN "off" ELSE "on"
      /\ ret' = IF failed THEN "ERROR" ELSE "none"
      /\ grp' = Fresh(s)
      /\ cnt' = Handed(s, boot, held)
      /\ since' = Unread(s, held) /\ exact' = [k \in Keys(s) |-> 0]
      /\ spoilt' = [k \in Keys(s) |-> {}]
      /\ gap' = {k \in Keys(s) : k[1] \in s.resctrl \/ (k[1] \notin Pmu \cup {"pcie"} /\ k[1] \in s.hw)}
      /\ fresh' = {} /\ todo' = {}
      /\ fs' = [fs EXCEPT !.dirs = IF s.resctrl = {} THEN {} ELSE {fs.at},
                          !.tag = IF s.resctrl = {} THEN 0 ELSE fs.at]
      /\ spent' = [spent EXCEPT !.starts = @ + 1, !.moves = IF stop = NoStop THEN @ ELSE @ + 1]

\* mon_stop_perf() goes by the events asked for: one of IPC or of a programmable
\* counter disables all counters of every core of the group, the fixed ones of
\* another agent too.  uncore_mon_stop() disables those of every socket.
mon_stop_perf ==
  LET stops == setup.hw \cap Pmu # {} /\ setup.event \cap {"miss", "ref", "ipc"} # {}
  IN  [e \in Pmu \cup {"pcie"} |->
         IF (e \in Pmu /\ stops) \/ (e = "pcie" /\ e \in setup.hw) THEN {} ELSE runs[e]]

mon_stop ==
  /\ phase = "on"
  /\ runs' = mon_stop_perf
  /\ phase' = "off" /\ ret' = "OK"
  /\ grp' = Fresh(setup)
  /\ fs' = [fs EXCEPT !.dirs = IF setup.shared THEN @ ELSE {}, !.tag = 0]
  /\ since' = [k \in Keys(setup) |-> 0] /\ exact' = since' /\ gap' = {} /\ fresh' = {}
  /\ spoilt' = [k \in Keys(setup) |-> {}]
  /\ UNCHANGED <<setup, cnt, todo, spent>>

-----------------------------------------------------------------------------
(***************************************************************************)
(* What is counted, and the cores of the group in another class.           *)
(***************************************************************************)
\* Traffic to local memory counts as total traffic too.
Works == {{k} : k \in {x \in Keys(setup) : x[1] \notin Gauges \cup {"local"}}}
         \cup (IF <<"local", 0>> \in Keys(setup)
               THEN {{<<"local", 0>>, <<"total", 0>>} \cap Keys(setup)} ELSE {})

Counting(e, u) ==
  IF e \in setup.resctrl THEN u = fs.tag
  ELSE e \in setup.hw \cap (Pmu \cup {"pcie"}) => u \in runs[e]

Turn(e) ==
  IF e \in setup.hw /\ e \in Pmu \cup {"pcie"} THEN PmuModulus
  ELSE IF e \in setup.hw /\ setup.inter = "MSR" THEN Modulus ELSE Wide

\* An MBM counter is polled before it has gone round once: the interval of the
\* callers is a second.
Traffic(u, work) ==
  /\ phase # "off" /\ spent.traffic < MaxTraffic
  /\ \A k \in work :
       Counting(k[1], u) /\ (k[1] \in Pmu \cup {"pcie"} \/ since[k] < Turn(k[1]) - 1)
  /\ cnt' = [k \in Keys(setup) |->
               IF k \in work THEN [cnt[k] EXCEPT ![u] = (@ + 1) % Turn(k[1])] ELSE cnt[k]]
  /\ since' = [k \in Keys(setup) |-> IF k \in work THEN since[k] + 1 ELSE since[k]]
  /\ spoilt' = [k \in Keys(setup) |->
                  IF k \in work /\ k[1] \in Pmu \cup {"pcie"} /\ cnt'[k][u] = 0
                  THEN spoilt[k] \cup {"wrap"} ELSE spoilt[k]]
  /\ spent' = [spent EXCEPT !.traffic = @ + 1]
  /\ UNCHANGED <<phase, setup, grp, runs, fs, todo, ret, exact, gap, fresh>>

\* The cores of the group are associated with another class; the kernel drops
\* their monitoring group.
Reassociated(u) ==
  /\ phase # "off" /\ setup.resctrl # {} /\ u # fs.at
  /\ spent.moves < MaxMoves
  /\ fs' = [fs EXCEPT !.at = u, !.tag = 0]
  /\ spent' = [spent EXCEPT !.moves = @ + 1]
  /\ UNCHANGED <<phase, setup, grp, cnt, runs, todo, ret, since, exact, gap, fresh, spoilt>>

-----------------------------------------------------------------------------
(***************************************************************************)
(* Reading one event.  Each operator gives the record of what a reading    *)
(* changes: the group, the counters and directories, the status, whether   *)
(* it was stored, and why keys are no longer to be relied upon.            *)
(***************************************************************************)
Outcome(g, status, stored) ==
  [grp |-> g, cnt |-> cnt, fs |-> fs, ret |-> status, stored |-> stored, spoil |-> {}]

Key0(e) == <<e, 0>>

NoTries == <<>>

\* hw_mon_read(): at most four attempts at selecting the event and reading the
\* counter.  `from` says whose data is returned: ours, that of the event
\* another agent selected, or the selection register itself, which is what
\* the variable holds when the error bit was set and the selection is ours.
hw_mon_read(script) ==
  LET Attempt(s, t) ==
        IF s.done THEN s
        ELSE LET sel == IF t.steal THEN "other" ELSE IF s.write THEN "own" ELSE s.sel
                 s1 == [s EXCEPT !.sel = sel]
             IN  CASE t.st = "fail" -> [s1 EXCEPT !.done = TRUE]
                   [] t.st = "error" /\ sel = "other" -> [s1 EXCEPT !.write = TRUE]
                   [] t.st = "error" /\ sel = "own" -> [s1 EXCEPT !.done = TRUE, !.ret = "OK", !.from = "selector"]
                   [] t.st = "unavailable" -> [s1 EXCEPT !.write = FALSE]
                   [] t.st = "ok" -> [s1 EXCEPT !.done = TRUE, !.ret = "OK", !.from = sel]
      four == [i \in 1 .. 4 |-> IF i <= Len(script) THEN script[i] ELSE [steal |-> FALSE, st |-> "ok"]]
  IN  FoldLeft(Attempt, [done |-> FALSE, write |-> TRUE, sel |-> "other", ret |-> "ERROR", from |-> "none"], four)

scale_event(value) == value * Scale

\* get_delta() of hw_monitoring.c.
get_delta(max, old, new) == IF old > new THEN (max - old) + new ELSE new - old

\* valid_mbm_read after a reading that may have gone round.
overflow_valid(e, wrapped) == IF wrapped THEN FALSE ELSE grp.mbmRead

\* hw_mon_read_counter(): the sum over the clusters, modulo the length of the
\* counter.  A counter of 32 bits that went round is reported, the total one
\* by comparison with the local value.
hw_mon_read_counter(e, script) ==
  LET r == hw_mon_read(script)
      k == Key0(e)
      at(u) == IF u = 1 /\ r.from # "own" THEN Modulus - 1 ELSE cnt[k][u]
      sum == SumOf([u \in Unit |-> at(u)]) % Modulus
      local == IF Key0("local") \in Slots(setup) THEN grp.val[Key0("local")] ELSE 0
      wrapped == setup.is32 /\ e \in Mbm /\ local > sum
      delta == IF grp.mbmRead THEN scale_event(get_delta(Modulus, grp.val[k], sum)) ELSE 0
      new == IF e = "l3" THEN [grp EXCEPT !.val[k] = scale_event(sum)]
             ELSE [grp EXCEPT !.val[k] = sum, !.dlt[k] = delta, !.mbmRead = overflow_valid(e, wrapped)]
  IN  IF r.ret # "OK" THEN Outcome(grp, "ERROR", {})
      ELSE [Outcome(new, IF wrapped THEN "OVERFLOW" ELSE "OK", {k})
              EXCEPT !.spoil = IF r.from = "own" THEN {} ELSE {<<k, "foreign">>}]

\* mon_read_perf(): the sum over the cores, the delta by plain subtraction.
mon_read_perf(e, fault) ==
  LET k == Key0(e)
      sum == SumOf(cnt[k])
  IN  IF fault = "msr" THEN Outcome(grp, "ERROR", {})
      ELSE Outcome([grp EXCEPT !.val[k] = sum, !.dlt[k] = Minus(sum, grp.val[k])], "OK", {k})

\* uncore_mon_poll(): the same over one core of every socket.
uncore_mon_poll(e, fault) ==
  LET k == Key0(e)
      sum == SumOf(cnt[k])
  IN  IF fault = "msr" THEN Outcome(grp, "ERROR", {})
      ELSE Outcome([grp EXCEPT !.val[k] = sum, !.dlt[k] = Minus(sum, grp.val[k])], "OK", {k})

\* get_delta() of perf_monitoring.c and of resctrl_monitoring.c.
get_delta64(old, new) == IF old > new THEN (Wide - 1 - old) + new ELSE new - old

\* perf_mon_poll(): the sum over the descriptors of the group.
perf_mon_poll(e, fault) ==
  LET k == Key0(e)
      sum == SumOf(cnt[k])
  IN  IF fault = "perf" THEN Outcome(grp, "ERROR", {})
      ELSE Outcome([grp EXCEPT !.val[k] = sum,
                               !.dlt[k] = IF e = "l3" THEN @ ELSE get_delta64(grp.val[k], sum)],
                   "OK", {k})

\* mmio_mon_read_counter() for the memory bandwidth of the group's regions: a
\* value per position in the list of regions.  An overflow is reported, and
\* leaves the flag that the previous values are good.
mmio_read_total(fault) ==
  LET pos == 0 .. Len(setup.regions) - 1
      now(j) == scale_event(SumOf(cnt[KeyOf(setup, <<"total", j>>)]))
  IN  CASE fault = "mmio" -> Outcome(grp, "ERROR", {})
        [] fault = "noton" -> Outcome(grp, "UNAVAILABLE", {})
        [] fault = "overflow" ->
             [Outcome(grp, "OVERFLOW", {}) EXCEPT
                !.cnt = [k \in DOMAIN cnt |-> IF k[1] = "total" THEN [u \in Unit |-> 0] ELSE cnt[k]],
                !.spoil = {<<k, "overflow">> : k \in {x \in DOMAIN cnt : x[1] = "total"}}]
        [] OTHER ->
             Outcome([grp EXCEPT
                !.val = [s \in DOMAIN @ |-> IF s[1] = "total" THEN now(s[2]) ELSE @[s]],
                !.dlt = [s \in DOMAIN @ |->
                           IF s[1] # "total" THEN @[s]
                           ELSE IF grp.mbmRead THEN Minus(now(s[2]), grp.val[s]) ELSE 0],
                !.mbmRead = TRUE], "OK", {KeyOf(setup, <<"total", j>>) : j \in pos})

\* The flag of an I/O event is cleared when its counter has overflowed.
io_overflow(e) == [grp EXCEPT !.ioRead = @ \ {e}]

\* mmio_mon_read_counter() for the memory bandwidth of I/O channels.
mmio_read_io(e, fault) ==
  LET k == Key0(e)
      now == scale_event(SumOf(cnt[k]))
  IN  CASE fault = "mmio" -> Outcome(grp, "ERROR", {})
        [] fault = "noton" -> Outcome(grp, "UNAVAILABLE", {})
        [] fault = "overflow" ->
             [Outcome(io_overflow(e), "OVERFLOW", {}) EXCEPT !.cnt = [cnt EXCEPT ![k] = [u \in Unit |-> 0]]]
        [] OTHER ->
             Outcome([grp EXCEPT !.val[k] = now,
                                 !.dlt[k] = IF e \in grp.ioRead THEN Minus(now, grp.val[k]) ELSE 0,
                                 !.ioRead = @ \cup {e}], "OK", {k})

\* mmio_mon_read_counter() for the two occupancies: the value is zeroed first,
\* so a counter that cannot be read leaves the sum of those before it.
mmio_read_occup(e, fault) ==
  LET k == Key0(e)
      part == scale_event(SumIn(cnt[k], Unit \ {Cardinality(Unit)}))
  IN  IF fault \in {"mmio", "noton"}
      THEN Outcome([grp EXCEPT !.val[k] = part], IF fault = "mmio" THEN "ERROR" ELSE "UNAVAILABLE", {})
      ELSE Outcome([grp EXCEPT !.val[k] = scale_event(SumOf(cnt[k]))], "OK", {k})

-----------------------------------------------------------------------------
(***************************************************************************)
(* resctrl: the value of a group is the sum over its directories plus what *)
(* directories that were removed had counted.                              *)
(***************************************************************************)
\* Directories without cores go, unless another group shares them.
Empty(f) == IF setup.shared THEN {} ELSE {u \in f.dirs : u # f.tag}

\* The directories whose counter of e is saved before they go, one after the
\* other from the lowest class: one that is Unavailable is skipped, and one
\* that cannot be read or removed ends the purge.  `fault` meets the first.
keep(e, empty, fault) ==
  LET first == {u \in empty : \A v \in empty : u <= v}
  IN  CASE fault = <<e, "away">> -> empty \ first
        [] fault = <<"local", "file">> -> {}
        [] fault = <<"total", "file">> -> IF e = "local" THEN first ELSE {}
        [] fault = <<"rmdir", "file">> -> first
        [] OTHER -> empty

\* The directories that are removed, and their counters with them.
remove(empty, fault) == IF fault[2] = "file" THEN {} ELSE empty

\* resctrl_mon_purge() behind a reading of k that left g and f.  Energy is not
\* saved.
resctrl_mon_purge(g, f, k, fault) ==
  LET empty == Empty(f)
      gone == remove(empty, fault)
      kept(e) == IF e \in Mbm THEN keep(e, empty, fault) ELSE {}
      files == {x \in Keys(setup) : x[1] \in setup.resctrl}
      lost(x, units) == x[1] \in Mbm \cup {"energy"} /\ \E u \in units : cnt[x][u] > 0
  IN  [grp |-> [g EXCEPT !.store = [e \in Mbm |-> IF e \in setup.resctrl
                                                 THEN @[e] + SumIn(cnt[Key0(e)], kept(e)) ELSE @[e]]],
       cnt |-> [x \in Keys(setup) |->
                  IF x \in files THEN [u \in Unit |-> IF u \in gone THEN 0 ELSE cnt[x][u]] ELSE cnt[x]],
       fs |-> [f EXCEPT !.dirs = @ \ gone],
       ret |-> IF empty # {} /\ fault[2] = "file" THEN "ERROR" ELSE "OK",
       stored |-> {k},
       spoil |-> {<<x, "twice">> : x \in {y \in files : lost(y, kept(y[1]) \ gone)}}
                 \cup {<<x, "unread">> : x \in {y \in files : lost(y, gone \ kept(y[1]))}}]

M_resctrl_mon_read_counters(k, dirs) == SumIn(cnt[k], {fs.at})
\* resctrl_mon_read_counters(): the sum over the caches of each directory; one
\* that is unavailable makes the whole unavailable.
resctrl_mon_read_counters(k, dirs) == SumIn(cnt[k], dirs)

\* resctrl_mon_read_tel_pkgs(): the sum over the packages of each directory.
resctrl_mon_read_tel_pkgs(k, dirs) == SumIn(cnt[k], dirs)

\* resctrl_mon_assoc_restore() for the cores of the group.
resctrl_mon_assoc_restore == [fs EXCEPT !.tag = fs.at, !.dirs = @ \cup {fs.at}]

M_resctrl_away(e) == grp
\* What an Unavailable counter leaves: the event is marked, nothing else.
resctrl_away(e) == [grp EXCEPT !.valid = @ \ {e}]

\* resctrl_mon_poll() for a classic event.
resctrl_mon_poll(e, fault, purge) ==
  LET k == Key0(e)
      f1 == resctrl_mon_assoc_restore
      live == resctrl_mon_read_counters(k, f1.dirs)
      now == IF e = "l3" THEN live ELSE (live + grp.store[e]) % Wide
      delta == IF e \in grp.valid THEN get_delta64(grp.val[k], now) ELSE 0
      new == [grp EXCEPT !.val[k] = now, !.dlt[k] = IF e = "l3" THEN @ ELSE delta,
                         !.valid = @ \cup {e}]
      base == [Outcome(grp, "OK", {}) EXCEPT !.fs = f1]
  IN  CASE fault = "file" -> [base EXCEPT !.ret = "ERROR"]
        [] fault = "away" -> [base EXCEPT !.ret = "UNAVAILABLE", !.grp = resctrl_away(e)]
        [] OTHER -> resctrl_mon_purge(new, f1, k, purge)

\* resctrl_mon_poll() for telemetry: the sum over the packages of every
\* directory; energy readings carry the time they were taken.
resctrl_tel_poll(e, fault, purge, tick) ==
  LET k == Key0(e)
      f1 == resctrl_mon_assoc_restore
      total == resctrl_mon_read_tel_pkgs(k, f1.dirs)
      slot == [previous |-> grp.tel[e].current, current |-> total, valid |-> TRUE]
      timed == IF e = "energy"
               THEN [grp EXCEPT !.tel[e] = slot, !.prev = grp.ts,
                                !.ts = IF @ = 0 THEN 1 ELSE @ + tick]
               ELSE [grp EXCEPT !.tel[e] = slot]
      base == [Outcome(grp, "OK", {}) EXCEPT !.fs = f1]
  IN  IF fault = "file" THEN [base EXCEPT !.ret = "ERROR"]
      ELSE resctrl_mon_purge(timed, f1, k, purge)

-----------------------------------------------------------------------------
(***************************************************************************)
(* pqos_mon_poll_events()                                                  *)
(***************************************************************************)
\* The faults that reading e can meet: a script of attempts, a fault of the
\* reading and one of the purge behind it.
Troubles(e) ==
  LET calm == [script |-> NoTries, fault |-> "none", purge |-> <<"none", "none">>]
      with(kinds) == {[calm EXCEPT !.fault = f] : f \in kinds \cap Faults}
      purges == IF "purge" \in Faults
                THEN {[calm EXCEPT !.purge = p] : p \in (Mbm \X {"away", "file"}) \cup {<<"rmdir", "file">>}}
                ELSE {}
      some == CASE e \in setup.resctrl /\ e \notin Telemetry -> with({"file", "away"}) \cup purges
                [] e \in setup.resctrl /\ e \in Telemetry -> with({"file"}) \cup purges
                [] e \in setup.perf -> with({"perf"})
                [] e \in Pmu \cup {"pcie"} -> with({"msr"})
                [] setup.inter = "MMIO" -> with({"mmio", "noton"} \cup (IF e \in Gauges THEN {} ELSE {"overflow"}))
                [] OTHER -> IF "tries" \in Faults THEN {[calm EXCEPT !.script = s] : s \in Tries} ELSE {}
  IN  {calm} \cup (IF spent.moves < MaxMoves THEN some ELSE {})

\* hw_mon_poll(), mmio_mon_poll(), perf_mon_poll() and resctrl_mon_poll() by
\* the event and the source that counts it.
Read(e, t, tick) ==
  CASE e \in setup.resctrl /\ e \in Telemetry -> resctrl_tel_poll(e, t.fault, t.purge, tick)
    [] e \in setup.resctrl /\ e \notin Telemetry -> resctrl_mon_poll(e, t.fault, t.purge)
    [] e \in setup.perf -> perf_mon_poll(e, t.fault)
    [] e \in setup.hw /\ e \in Pmu -> mon_read_perf(e, t.fault)
    [] e \in setup.hw /\ e = "pcie" -> uncore_mon_poll(e, t.fault)
    [] e \in setup.hw /\ setup.inter = "MMIO" /\ e \in {"l3", "io_l3"} -> mmio_read_occup(e, t.fault)
    [] e \in setup.hw /\ setup.inter = "MMIO" /\ e = "total" -> mmio_read_total(t.fault)
    [] e \in setup.hw /\ setup.inter = "MMIO" /\ e \in {"io_total", "io_miss"} -> mmio_read_io(e, t.fault)
    [] OTHER -> hw_mon_read_counter(e, t.script)

\* pqos_mon_poll(): the marker is checked, the lock of resctrl is taken where
\* the group has files, and the events are gone through in order.
pqos_mon_poll ==
  /\ phase = "on" /\ spent.polls < MaxPolls
  /\ phase' = "poll"
  /\ todo' = setup.hw \cup setup.perf \cup setup.resctrl
  /\ fresh' = {}
  /\ spent' = [spent EXCEPT !.polls = @ + 1]
  /\ UNCHANGED <<setup, grp, cnt, runs, fs, ret, since, exact, gap, spoilt>>

pqos_mon_poll_busy ==
  /\ phase = "on" /\ spent.polls < MaxPolls /\ setup.resctrl # {} /\ Can("lock")
  /\ ret' = "ERROR"
  /\ spent' = [spent EXCEPT !.polls = @ + 1, !.moves = @ + 1]
  /\ UNCHANGED <<phase, setup, grp, cnt, runs, fs, todo, since, exact, gap, fresh, spoilt>>

\* What ends a poll: only a file of resctrl may be unavailable.
fatal(e, status) == status # "OK" /\ ~(e \in setup.resctrl /\ status = "UNAVAILABLE")

\* The keys the caller is told to have no baseline for, after a reading of e.
GapAfter(e, o) ==
  LET told == CASE o.ret = "OVERFLOW" /\ setup.inter = "MSR" -> {k \in Keys(setup) : k[1] \in Mbm}
                [] o.ret = "OVERFLOW" /\ e \in {"io_total", "io_miss"} -> {Key0(e)}
                [] o.ret = "UNAVAILABLE" /\ e \in setup.resctrl -> {Key0(e)}
                [] OTHER -> {}
      based == IF setup.inter = "MSR" /\ e \in setup.hw \cap Mbm THEN {} ELSE o.stored
  IN  (gap \ based) \cup told

\* x comes before e in the order of a poll.
Before(x, e) ==
  \E i, j \in DOMAIN mon_event : i < j /\ mon_event[i] = x /\ mon_event[j] = e

pqos_mon_poll_event(e, t, tick) ==
  LET o == Read(e, t, tick)
  IN  /\ phase = "poll" /\ e \in todo /\ ~\E x \in todo : Before(x, e)
      /\ tick = 1 \/ e = "energy"
      /\ grp' = o.grp /\ cnt' = o.cnt /\ fs' = o.fs
      /\ exact' = [k \in Keys(setup) |-> IF k \in o.stored THEN IF k \in gap THEN 0 ELSE since[k] ELSE exact[k]]
      /\ since' = [k \in Keys(setup) |-> IF k \in o.stored THEN 0 ELSE since[k]]
      /\ gap' = GapAfter(e, o)
      /\ fresh' = fresh \cup o.stored
      /\ spoilt' = [k \in Keys(setup) |-> spoilt[k] \cup {s[2] : s \in {x \in o.spoil : x[1] = k}}]
      /\ IF fatal(e, o.ret)
         THEN phase' = "on" /\ ret' = o.ret /\ todo' = {}
         ELSE phase' = phase /\ ret' = ret /\ todo' = todo \ {e}
      /\ spent' = [spent EXCEPT !.moves = IF t.script = NoTries /\ t.fault = "none" /\ t.purge[1] = "none" THEN @ ELSE @ + 1]
      /\ UNCHANGED <<setup, runs>>

Delta(e) == IF Key0(e) \in DOMAIN grp.dlt THEN grp.dlt[Key0(e)] ELSE 0

\* Power needs two samples of energy and time between them.
power ==
  LET e == grp.tel["energy"]
      two == e.valid /\ grp.prev # 0 /\ grp.ts > grp.prev
  IN  IF two THEN [valid |-> TRUE, energy |-> e.current - e.previous, time |-> grp.ts - grp.prev]
      ELSE [grp.power EXCEPT !.valid = FALSE]

\* The virtual events, once every event has been read.
pqos_mon_poll_done ==
  /\ phase = "poll" /\ todo = {}
  /\ grp' = [grp EXCEPT
               !.remote = IF "remote" \in setup.event
                          THEN IF Delta("total") > Delta("local") THEN Delta("total") - Delta("local") ELSE 0
                          ELSE @,
               !.ipc = IF "ipc" \in setup.event
                       THEN IF Delta("cyc") > 0 THEN <<Delta("ins"), Delta("cyc")>> ELSE <<0, 0>>
                       ELSE @,
               !.power = IF "power" \in setup.event THEN power ELSE @,
               !.mbmRead = TRUE]
  /\ gap' = gap \ {k \in fresh : setup.inter = "MSR" /\ k[1] \in Mbm}
  /\ phase' = "on" /\ ret' = "OK"
  /\ UNCHANGED <<setup, cnt, runs, fs, todo, since, exact, fresh, spoilt, spent>>

-----------------------------------------------------------------------------
(***************************************************************************)
(* What an application reads.                                              *)
(***************************************************************************)
\* pqos_mon_get_value(): the delta of an event.
pqos_mon_get_value(slot) == IF slot[1] \in Gauges THEN 0 ELSE grp.dlt[slot]

\* pqos_mon_get_region_value(): the element of the array at the region's number.
pqos_mon_get_region_value(region) ==
  IF <<"total", region>> \in DOMAIN grp.dlt THEN grp.dlt[<<"total", region>>] ELSE 0

\* pqos_mon_get_tel_value() for power.
pqos_mon_get_tel_value == grp.power

\* pqos_mon_event_valid(): only the events of resctrl have a flag.
pqos_mon_event_valid(e) ==
  CASE e \in setup.resctrl /\ e \notin Telemetry -> e \in grp.valid
    [] e = "remote" /\ Mbm \subseteq setup.resctrl -> Mbm \subseteq grp.valid
    [] OTHER -> TRUE

PollNext ==
  \/ \E s \in Setups, boot \in Boot, held \in Held, on \in BOOLEAN, stop \in Unit \cup {NoStop} :
       mon_start(s, boot, held, on, stop)
  \/ mon_stop
  \/ \E u \in Unit, work \in Works : Traffic(u, work)
  \/ \E u \in Unit : Reassociated(u)
  \/ pqos_mon_poll
  \/ pqos_mon_poll_busy
  \/ \E e \in todo, tick \in {0, 1} : \E t \in Troubles(e) : pqos_mon_poll_event(e, t, tick)
  \/ pqos_mon_poll_done

PollSpec == PollInit /\ [][PollNext]_pollVars

-----------------------------------------------------------------------------
(***************************************************************************)
(* Properties                                                              *)
(***************************************************************************)
\* What one unit of work is worth in the delta of an event.
Worth(e) == IF e \in setup.hw /\ e \notin Pmu \cup {"pcie"} THEN Scale ELSE 1

\* A delta an application reads is what was counted between the last two
\* readings of the event that were stored: over clusters, through the end of
\* a counter, through polls that failed, and through classes the cores were
\* moved to and directories that were removed.  It is zero where the caller
\* was told that there is no earlier reading.  The exceptions are what spoilt
\* records: another agent's data, a performance counter or a memory mapped
\* one that went round, a directory purged unread or saved twice.  The counters
\* behind IPC are neither zeroed nor read at the start, so their first delta is
\* all that they hold, what they counted before the group was there included.
DeltaExact ==
  phase # "off" =>
    \A slot \in DOMAIN grp.dlt :
      LET k == KeyOf(setup, slot)
      IN  slot[1] \notin Gauges \cup Telemetry /\ spoilt[k] = {} =>
            pqos_mon_get_value(slot) = exact[k] * Worth(slot[1])

\* When pqos_mon_poll() returns OK every event of the group has been read by
\* this very poll, or pqos_mon_event_valid() says that it has not.
FreshOrFlagged ==
  phase = "on" /\ ret = "OK" =>
    \A k \in Keys(setup) : k \in fresh \/ ~pqos_mon_event_valid(k[1])

\* Power is given only for two samples of energy taken at different times,
\* and is the energy between them, unless a directory with energy was removed.
PowerExact ==
  phase = "on" /\ ret = "OK" /\ pqos_mon_get_tel_value.valid /\ spoilt[Key0("energy")] = {} =>
    /\ pqos_mon_get_tel_value.energy = exact[Key0("energy")]
    /\ pqos_mon_get_tel_value.time > 0

\* While a group is monitored its programmable performance counters run on
\* every core and its uncore counters on every socket, at least on the last;
\* when it has been stopped they and its fixed counters are all disabled.  It
\* is not said that the fixed counters, those of IPC, run meanwhile: the
\* library does not enable them.
CountersRun ==
  \A e \in setup.hw \cap (Pmu \cup {"pcie"}) :
    /\ phase # "off" => \/ runs[e] = Unit
                        \/ e = "pcie" /\ Cardinality(Unit) \in runs[e]
                        \/ e \in Fixed
    /\ phase = "off" /\ ret = "OK" => runs[e] = {}

\* pqos_mon_get_region_value() gives the traffic of the memory region it is
\* asked for.
RegionTrue ==
  phase = "on" /\ ret = "OK" =>
    \A k \in Keys(setup) :
      setup.inter = "MMIO" /\ k[1] = "total" /\ spoilt[k] = {} =>
        pqos_mon_get_region_value(k[2]) = exact[k] * Scale

\* The values that pqos_mon_poll() leaves behind are of this poll or say that
\* they are not, power rests on two samples of energy, and the programmable and
\* the uncore counters behind them run.
ValuesSound == PollTypeOK /\ FreshOrFlagged /\ PowerExact /\ CountersRun

=============================================================================
