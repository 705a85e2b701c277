---------------------------- MODULE ToolMonitor ----------------------------
(***************************************************************************)
(* Monitoring in the pqos utility (pqos/monitor.c): the groups that -m,    *)
(* -p, --mon-uncore, --mon-channel and --mon-dev describe, how they are    *)
(* made to agree with what the platform offers, and how they are started   *)
(* and stopped.  The loop that polls them is in PqosTool.                  *)
(*                                                                         *)
(* Operators that call the library work on the world w of ToolAlloc, of    *)
(* which they also use:                                                    *)
(*   w.events   the events of the capability (w.ioevents: with I/O RDT)    *)
(*   w.running  the groups, by position, that the library monitors         *)
(*   w.stops    how often each group was given to pqos_mon_stop            *)
(***************************************************************************)
EXTENDS ToolAlloc

CONSTANTS
  SocketOf,    \* core -> its socket
  MaxRmid,     \* groups the resctrl file system can hold, the root included
  PidListMax,  \* MAX_PID_LIST_SIZE
  PidBuf,      \* size of the table of PIDs when a list is read
  VcMax,       \* PQOS_DEV_MAX_CHANNELS
  TopProcMax   \* TOP_PROC_MAX

ASSUME SocketAssumption == SocketOf \in [Core -> Nat]
ASSUME TopAssumption == TopProcMax \in Nat \ {0}

\* Events; "pcie" stands for the uncore ones, "rest" for the bits of the mask
\* that mean nothing.
Aet == {"energy", "act", "pow"}
RdtEvents == {"llc", "mbl", "mbt", "mbr"}
PmuEvents == {"ipc", "miss", "ref"}
IoEvents == {"io_llc", "iot", "iom"}
UncoreEvents == {"pcie"}
Event == Aet \cup RdtEvents \cup PmuEvents \cup IoEvents \cup UncoreEvents
AllEvents == (Event \cup {"rest"}) \ (Aet \cup {"mbt", "ref"})

parse_event(name) ==
  CASE name = "all" -> AllEvents [] name = "aet" -> Aet [] OTHER -> {name}

NoMonSelected ==
  [groups |-> <<>>, mon_type |-> {}, mon_regions |-> <<>>, disabled |-> {},
   mon_opts |-> FALSE, timeout |-> -1, out_type |-> "text", out_file |-> FALSE]

monitor_mixed_mode(sel) == {"core", "channel"} \subseteq sel.mon_type
monitor_requested(sel) == sel.groups # <<>> \/ sel.mon_type # {} \/ sel.mon_opts

-----------------------------------------------------------------------------
(* Groups. *)

\* Equal pairs of resources in two groups; a device as a whole and one of its
\* channels make the comparison fail.
SamePairs(a, b) ==
  Cardinality({p \in (DOMAIN a.res) \X (DOMAIN b.res) : a.res[p[1]] = b.res[p[2]]})

WholeAndPart(a, b) ==
  /\ a.type = "device"
  /\ \E x \in ToSet(a.res), y \in ToSet(b.res) :
       x.dev = y.dev /\ x.vc # y.vc /\ DevAllVcs \in {x.vc, y.vc}

\* grp_cmp: the groups share nothing, everything or something.
grp_cmp(a, b) ==
  LET n == SamePairs(a, b)
  IN CASE WholeAndPart(a, b) -> "some"
       [] n = 0 -> "none"
       [] Len(a.res) = n /\ Len(b.res) = n -> "same"
       [] OTHER -> "some"

\* grp_add looks at the groups of the same type in turn: the first one that
\* shares anything decides.
grp_add(sel, type, events, res) ==
  LET new == [type |-> type, events |-> events, res |-> res, started |-> FALSE]
      hit == {i \in DOMAIN sel.groups :
                sel.groups[i].type = type /\ grp_cmp(new, sel.groups[i]) # "none"}
      first == Min(hit)
      typed == [sel EXCEPT !.mon_type =
                  @ \cup {IF type = "device" THEN "channel" ELSE type}]
  IN CASE hit = {} ->
            [ok |-> TRUE, sel |-> [typed EXCEPT !.groups = Append(@, new)]]
       [] hit # {} /\ grp_cmp(new, sel.groups[first]) = "same" ->
            [ok |-> TRUE, sel |-> [typed EXCEPT !.groups[first].events = @ \cup events]]
       [] OTHER -> [ok |-> FALSE, sel |-> typed]

AddEach(got, type, events, tables) ==
  Gather(LAMBDA g, res : IF g.ok THEN grp_add(g.sel, type, events, res) ELSE g,
           got, tables)

\* One list, outside brackets a group for each number, inside one for all.
ReadList(type, list) ==
  IF type = "pid"
  THEN LET t == strlisttotabrealloc(list, PidBuf)
       IN [ok |-> /\ ~pid_list_size_exceeded(list, PidListMax)
                  /\ ToSet(t.tab) \subseteq Pid,
           tab |-> t.tab]
  ELSE strlisttotab(list, Cardinality(Core))

\* parse_monitor_group and its callers; no group at all is an error for tasks
\* and for channels.
parse_monitor_group(sel, m) ==
  LET part(got, p) ==
        LET t == ReadList(m.type, p.list)
        IN IF got.ok /\ t.ok
           THEN AddEach(got, m.type, parse_event(m.event),
                        IF p.grouped THEN <<t.tab>>
                        ELSE [i \in 1 .. Len(t.tab) |-> <<t.tab[i]>>])
           ELSE [got EXCEPT !.ok = FALSE]
      res == Gather(part, [ok |-> TRUE, sel |-> sel], m.parts)
  IN [res EXCEPT !.ok = @ /\ (m.type \in {"pid", "channel"} => m.parts # <<>>)]

parse_monitor_dev(sel, m) ==
  LET vcs == IF m.vcs = <<>> THEN Table(<<DevAllVcs>>)
             ELSE parse_virtual_channels(m.vcs, VcMax)
  IN IF vcs.ok
     THEN AddEach([ok |-> TRUE, sel |-> sel], "device", parse_event(m.event),
                  [i \in 1 .. Len(vcs.tab) |-> <<[dev |-> m.dev, vc |-> vcs.tab[i]]>>])
     ELSE [ok |-> FALSE, sel |-> sel]

-----------------------------------------------------------------------------
(***************************************************************************)
(* The processes that used the CPU most.  Two looks at /proc, some time    *)
(* apart: a process of the first look gets the difference of its ticks if  *)
(* it is in the second look and its ticks did not shrink; the others are   *)
(* not valid.                                                              *)
(***************************************************************************)
add_proc_cpu_stat(p) ==
  [pid |-> p.pid, ticks |-> p.ticks, ratio |-> p.ratio, valid |-> FALSE]

update_proc_cpu_stat(list, p) ==
  [i \in DOMAIN list |->
     CASE list[i].pid # p.pid -> list[i]
       [] p.ticks >= list[i].ticks ->
            [list[i] EXCEPT !.ticks = p.ticks - @, !.valid = TRUE]
       [] OTHER -> [list[i] EXCEPT !.ticks = 0, !.ratio = 0, !.valid = FALSE]]

\* Each process of the first look goes to the head of the list.
get_proc_pids_stats(first, second) ==
  Gather(update_proc_cpu_stat,
         Reverse([i \in 1 .. Len(first) |-> add_proc_cpu_stat(first[i])]), second)

proc_stats_cmp(a, b) == a.ticks < b.ticks \/ (a.ticks = b.ticks /\ a.ratio < b.ratio)

\* The table is kept sorted; its first entry is the one to beat.
Sorted(stats, p) ==
  InsertAt(stats, Cardinality({i \in DOMAIN stats : proc_stats_cmp(stats[i], p)}) + 1, p)

Survivors(stats, p) ==
  IF ~p.valid THEN stats
  ELSE IF Len(stats) < TopProcMax THEN Sorted(stats, p)
  ELSE IF proc_stats_cmp(stats[1], p) THEN Sorted(Tail(stats), p)
  ELSE stats

TopProcs(first, second) ==
  Gather(Survivors, <<>>, get_proc_pids_stats(first, second))

fill_top_procs(sel, first, second) ==
  LET top == TopProcs(first, second)
  IN AddEach([ok |-> TRUE, sel |-> sel], "pid", AllEvents,
             [i \in 1 .. Len(top) |-> <<top[i].pid>>])

-----------------------------------------------------------------------------
(* Setting up. *)

\* get_available_events keeps, for channels, the events with I/O RDT.
get_available_events(w) ==
  IF w.sel.mon_type = {"channel"} THEN w.ioevents ELSE w.events

monitor_setup_events(w, grp) ==
  LET avail == IF grp.type = "uncore" THEN get_available_events(w) \cap UncoreEvents
               ELSE get_available_events(w) \ UncoreEvents
      left == avail \ w.sel.disabled
      all == (IF w.iface # "MMIO" THEN left \cap grp.events
              ELSE IF grp.type = "channel" THEN IoEvents
              ELSE {"llc", "mbt", "miss", "ipc"}) \ w.sel.disabled
      aetOnly == grp.events # {} /\ grp.events \subseteq Aet
  IN IF AllEvents \subseteq grp.events
     THEN [ok |-> all \cap RdtEvents # {} \/ all \cap PmuEvents = {}, events |-> all]
     ELSE [ok |-> TRUE,
           events |-> IF aetOnly THEN grp.events
                      ELSE grp.events \cup (left \cap {"ipc", "miss"})]

\* A device becomes the channels it has, or the one of its virtual channel.
grp_device_to_channel(grp) ==
  LET d == grp.res[1]
      chans == IF d.dev \notin Dev THEN <<>>
               ELSE IF d.vc = DevAllVcs THEN SelectSeq(DevChannels[d.dev], LAMBDA c : c # 0)
               ELSE SelectSeq(SubSeq(DevChannels[d.dev], d.vc + 1, d.vc + 1),
                              LAMBDA c : c # 0)
  IN [ok |-> Len(grp.res) = 1 /\ chans # <<>>,
      grp |-> [grp EXCEPT !.type = "channel", !.res = chans]]

MonOp == [core |-> "mon_core", pid |-> "mon_pid", channel |-> "mon_channel",
          uncore |-> "mon_uncore"]

\* The library refuses what it does not know and what is monitored already.
MonStart(w, i, grp) ==
  LET free == \A j \in w.running :
                \/ w.sel.groups[j].type # grp.type
                \/ ToSet(w.sel.groups[j].res) \cap ToSet(grp.res) = {}
      real == ToSet(grp.res) \subseteq (CASE grp.type = "core" -> Core
                                          [] grp.type = "pid" -> Pid
                                          [] grp.type = "channel" -> Channel
                                          [] OTHER -> Range(SocketOf))
      done == Call(w, MonOp[grp.type],
                   free /\ real /\ grp.events # {} /\ grp.events \subseteq w.events,
                   w.lib)
  IN IF done.ok THEN [done EXCEPT !.running = @ \cup {i},
                                  !.sel.groups[i].started = TRUE]
     ELSE done

\* One group: its channels, its events, the start.
StartGroup(w, i) ==
  LET grp == w.sel.groups[i]
      conv == IF grp.type = "device" THEN grp_device_to_channel(grp)
              ELSE [ok |-> TRUE, grp |-> grp]
      evts == monitor_setup_events(w, conv.grp)
      ready == [conv.grp EXCEPT !.events = evts.events]
      u == [w EXCEPT !.sel.groups[i] = ready]
  IN IF /\ conv.ok /\ evts.ok
        /\ ready.type = "core" =>
             ready.events \cap {"mbl", "mbr"} \subseteq get_available_events(w)
     THEN MonStart(u, i, ready)
     ELSE Error(IF conv.ok THEN u ELSE w)

StartedGroups(w) == {i \in DOMAIN w.sel.groups : w.sel.groups[i].started}

M_StopAll(w) == w

\* When a group cannot be started, those that were are stopped; their flag
\* stays.
StopAll(w) ==
  LET mine == StartedGroups(w)
  IN [w EXCEPT !.running = @ \ mine,
               !.stops = [i \in DOMAIN @ |-> IF i \in mine THEN @[i] + 1 ELSE @[i]]]

monitor_stop(w) ==
  LET u == StopAll(w)
  IN [u EXCEPT !.sel.groups = [i \in DOMAIN @ |-> [@[i] EXCEPT !.started = FALSE]]]

\* By default every core, or every socket, by itself.
DefaultGroups(sel) ==
  LET got == [ok |-> TRUE, sel |-> sel]
      cores == InOrder(Core)
  IN CASE sel.groups # <<>> -> sel
       [] sel.mon_type = {} ->
            AddEach(got, "core", AllEvents, [i \in 1 .. Len(cores) |-> <<cores[i]>>]).sel
       [] sel.mon_type = {"uncore"} ->
            AddEach(got, "uncore", AllEvents,
                    [i \in 1 .. Len(cores) |-> <<SocketOf[cores[i]]>>]).sel
       [] OTHER -> sel

\* Before the output file is opened: events of telemetry, kind of output.
monitor_setup_early(w) ==
  /\ \A i \in DOMAIN w.sel.groups : w.sel.groups[i].events \cap Aet \subseteq w.events
  /\ w.sel.out_type \in {"text", "xml", "csv"}

\* And after it: one kind of group (cores and channels together on MMIO), as
\* many as fit, regions that exist.
MonSelectionOk(w) ==
  /\ \/ Cardinality(w.sel.mon_type) = 1
     \/ monitor_mixed_mode(w.sel) /\ w.iface = "MMIO"
  /\ w.iface = "OS" => Len(w.sel.groups) <= MaxRmid - 1
  /\ w.iface = "MMIO" => \A r \in ToSet(w.sel.mon_regions) : r < NumRegions

StartAll(w) ==
  LET v == [w EXCEPT !.stops = [i \in DOMAIN w.sel.groups |-> 0]]
      finish(u) == IF u.ok THEN u ELSE StopAll(u)
  IN IF MonSelectionOk(w)
     THEN Once(ForEach(v, [i \in 1 .. Len(w.sel.groups) |-> i], StartGroup), finish)
     ELSE Error(w)

monitor_setup(w) == Once([w EXCEPT !.sel = DefaultGroups(w.sel)], StartAll)

=============================================================================
