------------------------------ MODULE PqosTool ------------------------------
(***************************************************************************)
(* The pqos utility as a whole (pqos/main.c and the monitoring loop of     *)
(* monitor.c).  A run of it reads its options one by one, chooses an       *)
(* interface that suits all of them, opens the library, resets, prints,    *)
(* applies allocation or monitors until it is told to stop, and closes     *)
(* what it opened.  Files are opened step by step while another process    *)
(* may change what their name denotes (SafeOpen); any library call may     *)
(* fail; Ctrl-C may come at any time during the loop.                      *)
(***************************************************************************)
EXTENDS ToolMonitor, SafeOpen

CONSTANTS
  Options,      \* the options users type, by number
  CommandLines, \* the command lines: sequences of numbers of options
  Platforms,    \* records: avail, caps, events, ioevents, cdp
  MaxFail,      \* the library call that fails is one of the first MaxFail
  MaxOverflow,  \* how many polls report an overflow
  MaxTicks      \* most timer periods that one read of the timer reports

Interface == {"MSR", "OS", "MMIO"}

\* What the argument of an option may be.
Lists == Seq(Token)
AssocArg ==
  [kind : {"core", "pid"}, list : Lists, clos : Nat]
    \cup [kind : {"channel"}, channel : Nat, clos : Nat]
    \cup [kind : {"dev"}, dev : Nat, vc : Nat \cup {DevAllVcs}, clos : Nat]
MonitorArg(type) ==
  [type : {type}, event : Event \cup {"all", "aet"},
   parts : Seq([grouped : BOOLEAN, list : Lists])]
DevArg == [event : Event \cup {"all", "aet"}, dev : Nat, vcs : Lists]
ProcArg == [pid : Nat, ticks : Nat, ratio : Nat]
Args(opt) ==
  CASE opt = "iface" -> Interface \cup {"auto"}
    [] opt = "-e" -> Seq(ClassDef)
    [] opt = "-a" -> Seq(AssocArg)
    [] opt \in {"domains", "regions", "mem-regions"} -> Lists
    [] opt = "limit" -> Limit
    [] opt = "-m" -> Seq(MonitorArg("core"))
    [] opt = "-p" -> Seq(MonitorArg("pid"))
    [] opt = "uncore" -> Seq(MonitorArg("uncore"))
    [] opt = "channels" -> Seq(MonitorArg("channel"))
    [] opt = "devs" -> Seq(DevArg)
    [] opt = "top" -> [first : Seq(ProcArg), second : Seq(ProcArg)]
    [] opt = "disable" -> Event
    [] opt = "-t" -> Nat
    [] opt = "-u" -> {"text", "xml", "csv", "pdf"}
    [] opt = "-R" -> Seq([feature : {"l3cdp", "l2cdp", "mbaCtrl", "l3iordt", "mba40"},
                          value : {"on", "off", "any"}])
    [] opt \in {"-c", "-o", "-l", "-r", "-s", "version", "print-io"} -> {0}

OptionName == {"iface", "-e", "-a", "-c", "domains", "regions", "limit", "-m", "-p", "top",
               "uncore", "channels", "devs", "mem-regions", "disable", "-t", "-o", "-u", "-R",
               "-l", "-r", "-s", "version", "print-io", "-f"}

\* A configuration file does not name another.
ASSUME OptionsAssumption ==
  \A i \in DOMAIN Options :
    LET o == Options[i]
    IN /\ o.opt \in OptionName
       /\ IF o.opt = "-f"
          THEN /\ o.arg \in Seq(DOMAIN Options)
               /\ \A j \in DOMAIN o.arg : Options[o.arg[j]].opt # "-f"
          ELSE o.arg \in Args(o.opt)
ASSUME LinesAssumption == CommandLines \subseteq Seq(DOMAIN Options)
ASSUME PlatformsAssumption == \A p \in Platforms : p.avail \subseteq Interface
ASSUME OverflowAssumption == MaxOverflow \in Nat
Success == 0
Failure == 1

VARIABLES
  pc,       \* where main is
  argv,     \* the command line
  optind,   \* how many of its options have been read
  platform, \* what the machine offers
  w,        \* the world of ToolAlloc and ToolMonitor, and main's selections:
            \*   mask, user (the interface chosen, if any), selected, flags,
            \*   reset (what -R asks for), config (a file was read)
  exit_val, \* what the utility returns
  loop,     \* the monitoring loop: runtime, first, overflows so far
  stop      \* stop_monitoring_loop

toolVars == <<pc, argv, optind, platform, w, exit_val, loop, stop>>
vars == <<toolVars, openVars>>

Phase == {"options", "config", "resolve", "check", "log", "init", "caps",
          "version", "reset_mon", "reset_alloc", "print", "alloc", "after_alloc",
          "setup", "output", "start", "poll", "timer", "stop", "fini", "cleanup",
          "done"}

TypeOK ==
  /\ pc \in Phase /\ argv \in CommandLines /\ optind \in 0 .. Len(argv)
  /\ platform \in Platforms /\ exit_val \in {Success, Failure} /\ stop \in BOOLEAN
  /\ w.iface \in Interface \cup {"AUTO"} /\ w.mask \subseteq Interface
  /\ w.running \subseteq DOMAIN w.sel.groups /\ w.calls \in Nat
  /\ loop.overflows \in 0 .. MaxOverflow
  /\ OpenTypeOK

\* The selections of both parts of the utility.
NothingSelected ==
  [f \in DOMAIN NoAllocSelected \cup DOMAIN NoMonSelected |->
     IF f \in DOMAIN NoAllocSelected THEN NoAllocSelected[f] ELSE NoMonSelected[f]]

AnyReset == [l3cdp |-> "any", l2cdp |-> "any", mbaCtrl |-> "any",
             l3iordt |-> "any", mba40 |-> "any"]

Init ==
  /\ pc = "options" /\ argv \in CommandLines /\ optind = 0
  /\ platform \in Platforms
  /\ w = [sel |-> NothingSelected, lib |-> AfterReset,
          iface |-> "AUTO", mask |-> Interface, user |-> "none",
          selected |-> FALSE, flags |-> {}, reset |-> AnyReset,
          config |-> FALSE, caps |-> {}, cdp |-> {}, events |-> {},
          ioevents |-> {}, calls |-> 0, fail |-> 0, ok |-> TRUE,
          failed |-> FALSE, alien |-> FALSE, mod |-> 0, open |-> FALSE,
          running |-> {}, stops |-> <<>>]
  /\ exit_val = Success /\ stop = FALSE
  /\ loop = [runtime |-> 0, first |-> TRUE, overflows |-> 0]
  /\ OpenInit

-----------------------------------------------------------------------------
(* The interface. *)

\* An option that needs certain interfaces leaves only those, if any is left.
narrow_iface(u, mask) ==
  IF mask \cap u.mask = {} THEN Error(u) ELSE [u EXCEPT !.mask = @ \cap mask]

NarrowIf(u, cond, mask) == IF cond THEN narrow_iface(u, mask) ELSE u

\* Events of telemetry need the OS interface.
narrow_iface_for_mon_events(u, strings) ==
  NarrowIf(u, \E i \in DOMAIN strings : strings[i].event \in Aet \cup {"aet"}, {"OS"})

narrow_iface_for_reset_alloc(u, tokens) ==
  LET has(features, values) ==
        \E t \in ToSet(tokens) : t.feature \in features /\ t.value \in values
      cdp == NarrowIf(u, has({"l3cdp", "l2cdp"}, {"on", "off", "any"}), {"MSR", "OS"})
  IN IF ~cdp.ok THEN cdp
     ELSE NarrowIf(cdp, has({"l3iordt"}, {"on", "off"}), {"MSR", "MMIO"})

\* What an association needs.
AssocMask(a) ==
  CASE a.kind = "core" -> {"MSR", "OS"} [] a.kind = "pid" -> {"OS"}
    [] OTHER -> {"MSR", "MMIO"}

Prefer(mask) == CASE "MMIO" \in mask -> "MMIO" [] "MSR" \in mask -> "MSR"
                  [] OTHER -> "OS"

\* iface_resolve: the user's choice if it suits, the preferred one of those
\* that are left, or the library's choice if no option had a say.
iface_resolve(mask, user) ==
  CASE user # "none" -> IF user \in mask THEN user ELSE "error"
    [] mask = Interface -> "AUTO"
    [] OTHER -> Prefer(mask)

selfn_iface(u, name) ==
  [u EXCEPT !.iface = IF name = "auto" THEN "AUTO" ELSE name,
            !.user = IF name = "auto" THEN "none" ELSE name, !.selected = TRUE]

-----------------------------------------------------------------------------
(* Options. *)

\* f gives the new selections or gives up.
Selecting(u, got) == IF got.ok THEN [u EXCEPT !.sel = got.sel] ELSE Error(u)

selfn_allocation_class(u, opts) ==
  IF Len(u.sel.alloc_opts) + Len(opts) > MaxAllocOpts THEN Error(u)
  ELSE [u EXCEPT !.sel.alloc_opts = @ \o opts]

selfn_allocation_assoc(u, assocs) ==
  ForEach(u, assocs, LAMBDA v, a :
    LET n == narrow_iface(v, AssocMask(a))
    IN IF n.ok THEN Selecting(n, parse_allocation_assoc(n.sel, a)) ELSE n)

selfn_alloc_mem_regions(u, list) ==
  LET t == NumberList(list, MaxRegions, MaxRegions)
  IN IF t.ok THEN [u EXCEPT !.sel.regions = t.tab] ELSE Error(u)

selfn_alloc_domain_id(u, list) ==
  LET t == NumberList(list, MaxIds, MaxDomains)
  IN IF t.ok THEN [u EXCEPT !.sel.domains = t.tab] ELSE Error(u)

selfn_mon_mem_regions(u, list) ==
  LET t == pqos_parse_mem_regions(list, MaxRegions)
  IN IF t.ok THEN [u EXCEPT !.sel.mon_regions = t.tab, !.sel.mon_opts = TRUE]
     ELSE Error(u)

MonitorStrings(u, strings) ==
  ForEach(u, strings, LAMBDA v, m : Selecting(v, parse_monitor_group(v.sel, m)))

selfn_monitor_devs(u, strings) ==
  ForEach(u, strings, LAMBDA v, m : Selecting(v, parse_monitor_dev(v.sel, m)))

selfn_monitor_top_pids(u, look) ==
  Selecting([u EXCEPT !.sel.mon_opts = TRUE],
            fill_top_procs([u.sel EXCEPT !.mon_opts = TRUE], look.first, look.second))

selfn_reset_alloc(u, tokens) ==
  [u EXCEPT !.flags = @ \cup {"-R"},
            !.reset = [f \in DOMAIN @ |->
                         LET mine == SelectSeq(tokens, LAMBDA t : t.feature = f)
                         IN IF mine = <<>> THEN @[f] ELSE Last(mine).value]]

MonOpt(u, sel) == [u EXCEPT !.sel = [sel EXCEPT !.mon_opts = TRUE]]

\* Narrow first, then do the rest of the option.
Needing(u, mask, f(_)) == LET n == narrow_iface(u, mask) IN IF n.ok THEN f(n) ELSE n

\* One option of the command line or one line of the configuration file.
Handle(u, o) ==
  CASE o.opt = "iface" -> selfn_iface(u, o.arg)
    [] o.opt = "-e" -> selfn_allocation_class(u, o.arg)
    [] o.opt = "-a" -> selfn_allocation_assoc(u, o.arg)
    [] o.opt = "-c" -> [u EXCEPT !.flags = @ \cup {"-c"}]
    [] o.opt = "domains" ->
         Needing(u, {"MMIO"}, LAMBDA n : selfn_alloc_domain_id(n, o.arg))
    [] o.opt = "regions" ->
         Needing(u, {"MMIO"}, LAMBDA n : selfn_alloc_mem_regions(n, o.arg))
    [] o.opt = "limit" ->
         Needing(u, {"MMIO"}, LAMBDA n : [n EXCEPT !.sel.limits = @ \cup {o.arg}])
    [] o.opt = "-m" ->
         LET n == narrow_iface_for_mon_events(u, o.arg)
         IN IF n.ok THEN MonitorStrings(n, o.arg) ELSE n
    [] o.opt = "-p" -> Needing(u, {"OS"}, LAMBDA n : MonitorStrings(n, o.arg))
    [] o.opt = "top" ->
         Needing(u, {"OS"}, LAMBDA n : selfn_monitor_top_pids(n, o.arg))
    [] o.opt = "uncore" ->
         IF o.arg = <<>> THEN [u EXCEPT !.sel.mon_type = @ \cup {"uncore"}]
         ELSE LET n == narrow_iface_for_mon_events(u, o.arg)
              IN IF n.ok THEN MonitorStrings(n, o.arg) ELSE n
    [] o.opt = "channels" ->
         Needing(u, {"MSR", "MMIO"}, LAMBDA n : MonitorStrings(n, o.arg))
    [] o.opt = "devs" ->
         Needing(u, {"MSR", "MMIO"}, LAMBDA n : selfn_monitor_devs(n, o.arg))
    [] o.opt = "mem-regions" ->
         Needing(u, {"MMIO"}, LAMBDA n : selfn_mon_mem_regions(n, o.arg))
    [] o.opt = "disable" ->
         MonOpt(u, [u.sel EXCEPT !.disabled = @ \cup {o.arg}])
    [] o.opt = "-t" -> MonOpt(u, [u.sel EXCEPT !.timeout = o.arg])
    [] o.opt = "-o" -> MonOpt(u, [u.sel EXCEPT !.out_file = TRUE])
    [] o.opt = "-u" -> MonOpt(u, [u.sel EXCEPT !.out_type = o.arg])
    [] o.opt = "-R" ->
         LET n == narrow_iface_for_reset_alloc(u, o.arg)
         IN IF n.ok THEN selfn_reset_alloc(n, o.arg) ELSE n
    [] o.opt \in {"-l", "-r", "-s", "version"} -> [u EXCEPT !.flags = @ \cup {o.opt}]
    [] o.opt = "print-io" ->
         Needing(u, {"MSR", "MMIO"}, LAMBDA n : [n EXCEPT !.flags = @ \cup {"-s"}])

-----------------------------------------------------------------------------
(* main. *)

Goto(next) == pc' = next
Keep == UNCHANGED <<argv, platform, loop, stop>>
Quiet == UNCHANGED openVars

\* exit(EXIT_FAILURE), before the library is open.
Quit == /\ Goto("done") /\ exit_val' = Failure

\* One option; -f reads a file, once, and the interface is chosen once.
ReadOption ==
  /\ pc = "options" /\ optind < Len(argv)
  /\ LET o == Options[argv[optind + 1]]
     IN /\ o.opt # "-f"
        /\ \E u \in {Handle(w, o)} :
             IF u.ok /\ (o.opt = "iface" => ~w.selected)
             THEN /\ w' = u /\ optind' = optind + 1 /\ UNCHANGED <<pc, exit_val>>
             ELSE Quit /\ UNCHANGED <<w, optind>>
  /\ Keep /\ Quiet

OpenConfig ==
  /\ pc = "options" /\ optind < Len(argv)
  /\ Options[argv[optind + 1]].opt = "-f"
  /\ IF w.config THEN Quit /\ Quiet
     ELSE Goto("config") /\ BeginOpen("safe_fopen_r") /\ UNCHANGED exit_val
  /\ Keep /\ UNCHANGED <<w, optind>>

\* The lines of the file are options; the interface may be chosen again.
parse_config_file ==
  /\ pc = "config" /\ EndOpen
  /\ LET lines == Options[argv[optind + 1]].arg
     IN \E u \in {ForEach([w EXCEPT !.config = TRUE], lines,
                          LAMBDA v, i : Handle(v, Options[i]))} :
          IF opening.fd # NoFile /\ u.ok
          THEN /\ w' = u /\ optind' = optind + 1 /\ Goto("options")
               /\ UNCHANGED exit_val
          ELSE Quit /\ UNCHANGED <<w, optind>>
  /\ Keep

OptionsRead ==
  /\ pc = "options" /\ optind = Len(argv)
  /\ Goto("resolve")
  /\ Keep /\ Quiet /\ UNCHANGED <<w, optind, exit_val>>

\* Interfaces that are not there are left out when an option had a say and the
\* user had none; the question itself may fail.
resolve_interface ==
  /\ pc = "resolve"
  /\ \E known \in BOOLEAN :
       LET asked == w.user = "none" /\ w.mask # Interface
           mask == IF asked /\ known THEN w.mask \cap platform.avail ELSE w.mask
           iface == iface_resolve(mask, w.user)
       IN IF mask = {} \/ iface = "error" THEN Quit /\ UNCHANGED w
          ELSE Goto("check") /\ w' = [w EXCEPT !.iface = iface] /\ UNCHANGED exit_val
  /\ Keep /\ Quiet /\ UNCHANGED optind

CheckOptions ==
  /\ pc = "check"
  /\ IF ~alloc_check_options(w.sel, "-c" \in w.flags) THEN Quit /\ Quiet
     ELSE /\ UNCHANGED exit_val
          /\ IF "-l" \in w.flags THEN Goto("log") /\ BeginOpen("safe_open")
             ELSE Goto("init") /\ Quiet
  /\ Keep /\ UNCHANGED <<w, optind>>

LogOpened ==
  /\ pc = "log" /\ EndOpen
  /\ IF opening.fd # NoFile THEN Goto("init") /\ UNCHANGED exit_val
     ELSE Goto("cleanup") /\ exit_val' = Failure
  /\ Keep /\ UNCHANGED <<w, optind>>

\* pqos_init: AUTO is whatever the library finds; nothing to close on failure.
\* From here on calls can fail, and it is settled which one will, if any.
InitLibrary ==
  /\ pc = "init"
  /\ \E iface \in IF w.iface = "AUTO" THEN platform.avail ELSE {w.iface},
        fail \in 0 .. MaxFail :
       LET u == Call([w EXCEPT !.iface = iface, !.fail = fail], "init",
                     iface \in platform.avail, w.lib)
       IN IF u.ok THEN /\ Goto("caps") /\ w' = [u EXCEPT !.open = TRUE]
                       /\ UNCHANGED exit_val
          ELSE /\ Goto("cleanup") /\ w' = u /\ exit_val' = Failure
  /\ Keep /\ Quiet /\ UNCHANGED optind

\* Leave with the library open.
Leave(code) == Goto("fini") /\ exit_val' = code

ReadCaps ==
  /\ pc = "caps"
  /\ LET u == Call(w, "sysconfig", TRUE, w.lib)
     IN IF u.ok
        THEN /\ Goto("version") /\ UNCHANGED exit_val
             /\ w' = [u EXCEPT !.caps = platform.caps, !.cdp = platform.cdp,
                               !.events = platform.events,
                               !.ioevents = platform.ioevents]
        ELSE Leave(Failure) /\ w' = u
  /\ Keep /\ Quiet /\ UNCHANGED optind

PrintVersion ==
  /\ pc = "version"
  /\ IF "version" \in w.flags THEN Leave(Success)
     ELSE Goto("reset_mon") /\ UNCHANGED exit_val
  /\ Keep /\ Quiet /\ UNCHANGED <<w, optind>>

\* A reset that fails is remembered in the exit code and goes on.
After(u, code) == IF u.ok THEN code ELSE Failure

ResetMonitoring ==
  /\ pc = "reset_mon" /\ Goto("reset_alloc")
  /\ LET u == IF "-r" \in w.flags /\ "mon" \in w.caps
              THEN Call(w, "mon_reset", TRUE, w.lib) ELSE w
     IN exit_val' = After(u, exit_val) /\ w' = [u EXCEPT !.ok = TRUE]
  /\ Keep /\ Quiet /\ UNCHANGED optind

\* CDP after a reset: as asked, or as it was.
CdpAfter(u) ==
  LET want(t, f) == CASE u.reset[f] = "on" -> {t} [] u.reset[f] = "off" -> {}
                      [] OTHER -> u.cdp \cap {t}
  IN want("llc", "l3cdp") \cup want("l2", "l2cdp")

ResetAllocation ==
  /\ pc = "reset_alloc" /\ Goto("print")
  /\ LET called == Call(w, "alloc_reset", TRUE, AfterReset)
         u == CASE "-R" \notin w.flags -> w
                [] called.ok -> [called EXCEPT !.cdp = CdpAfter(w)]
                [] OTHER -> called
     IN exit_val' = After(u, exit_val) /\ w' = [u EXCEPT !.ok = TRUE]
  /\ Keep /\ Quiet /\ UNCHANGED optind

\* An option that prints ends the utility: what else was asked is not done.
PrintAndLeave ==
  /\ pc = "print"
  /\ IF "-s" \in w.flags THEN Goto("fini") ELSE Goto("alloc")
  /\ Keep /\ Quiet /\ UNCHANGED <<w, optind, exit_val>>

Allocate ==
  /\ pc = "alloc"
  /\ LET profiled == IF "-c" \in w.flags THEN profile_l3ca_apply(w) ELSE w
     IN \E res \in {IF profiled.ok THEN alloc_apply(profiled)
                    ELSE [w |-> profiled, changed |-> FALSE]} :
        /\ w' = res.w
        /\ CASE ~res.w.ok -> Leave(Failure)
             [] res.w.ok /\ res.changed -> Leave(exit_val)
             [] OTHER -> Goto("after_alloc") /\ UNCHANGED exit_val
  /\ Keep /\ Quiet /\ UNCHANGED optind

\* -R rules monitoring out, -r alone is complete.
AfterAllocation ==
  /\ pc = "after_alloc"
  /\ CASE \/ "-R" \in w.flags
          \/ "-r" \in w.flags /\ "mon" \in w.caps /\ ~monitor_requested(w.sel) ->
            Leave(exit_val)
       [] OTHER -> IF "mon" \notin w.caps THEN Leave(Failure)
                   ELSE Goto("setup") /\ UNCHANGED exit_val
  /\ Keep /\ Quiet /\ UNCHANGED <<w, optind>>

SetUpMonitoring ==
  /\ pc = "setup"
  /\ CASE ~monitor_setup_early(w) -> Leave(Failure) /\ Quiet
       [] monitor_setup_early(w) /\ w.sel.out_file ->
            Goto("output") /\ BeginOpen("safe_fopen") /\ UNCHANGED exit_val
       [] OTHER -> Goto("start") /\ Quiet /\ UNCHANGED exit_val
  /\ Keep /\ UNCHANGED <<w, optind>>

OutputOpened ==
  /\ pc = "output" /\ EndOpen
  /\ IF opening.fd # NoFile THEN Goto("start") /\ UNCHANGED exit_val
     ELSE Leave(Failure)
  /\ Keep /\ UNCHANGED <<w, optind>>

StartMonitoring ==
  /\ pc = "start" /\ w' = monitor_setup(w)
  /\ IF w'.ok THEN Goto("poll") /\ UNCHANGED exit_val ELSE Leave(Failure)
  /\ Keep /\ Quiet /\ UNCHANGED optind

-----------------------------------------------------------------------------
(* monitor_loop. *)

LoopKeep == UNCHANGED <<argv, optind, platform, w, exit_val, stop>> /\ Quiet

\* The loop cannot even start: no cache size, no timer.
LoopNotStarted ==
  /\ pc = "poll" /\ loop.first /\ loop.overflows = 0 /\ Goto("stop")
  /\ LoopKeep /\ UNCHANGED loop

TimedOut(sel, l) == sel.timeout # -1 /\ l.runtime >= sel.timeout

\* A poll that overflows is repeated at once, a poll that fails ends the loop.
Poll ==
  /\ pc = "poll"
  /\ IF stop THEN Goto("stop") /\ UNCHANGED loop
     ELSE \/ /\ Goto(IF TimedOut(w.sel, loop) THEN "stop" ELSE "timer")
             /\ loop' = [loop EXCEPT !.first = FALSE]
          \/ /\ loop.overflows < MaxOverflow
             /\ loop' = [loop EXCEPT !.overflows = @ + 1] /\ UNCHANGED pc
          \/ Goto("stop") /\ UNCHANGED loop
  /\ LoopKeep

M_Runtime(sel, l, n) == l.runtime

\* The periods that have passed; nobody looks when there is no timeout.
Runtime(sel, l, n) == IF sel.timeout = -1 THEN l.runtime ELSE l.runtime + n

\* The stop flag is looked at again before the timer, which may report
\* several periods; a failure to read it ends the loop.
Timer ==
  /\ pc = "timer"
  /\ \/ /\ ~stop
        /\ \E n \in 1 .. MaxTicks :
             loop' = [loop EXCEPT !.runtime = Runtime(w.sel, loop, n)]
        /\ Goto("poll")
     \/ Goto("stop") /\ UNCHANGED loop
  /\ LoopKeep

\* Ctrl-C while the timer is read: the read is restarted, so the period ends
\* first and the flag is seen at the head of the loop.
TimerAfterCtrlC ==
  /\ pc = "timer" /\ stop /\ Goto("poll")
  /\ LoopKeep /\ UNCHANGED loop

monitoring_ctrlc ==
  /\ pc \in {"poll", "timer"} /\ ~stop /\ stop' = TRUE
  /\ UNCHANGED <<pc, argv, optind, platform, w, exit_val, loop>> /\ Quiet

StopMonitoring ==
  /\ pc = "stop" /\ Goto("fini") /\ w' = monitor_stop(w)
  /\ Keep /\ Quiet /\ UNCHANGED <<optind, exit_val>>

Fini ==
  /\ pc = "fini" /\ Goto("cleanup") /\ w' = [w EXCEPT !.open = FALSE]
  /\ Keep /\ Quiet /\ UNCHANGED <<optind, exit_val>>

Cleanup ==
  /\ pc = "cleanup" /\ Goto("done")
  /\ Keep /\ Quiet /\ UNCHANGED <<w, optind, exit_val>>

OpeningFile == OpenStep /\ UNCHANGED toolVars
OthersSwitch == Switch /\ UNCHANGED toolVars
Ended == pc = "done" /\ UNCHANGED vars

ToolStep ==
  \/ ReadOption \/ OpenConfig \/ parse_config_file \/ OptionsRead
  \/ resolve_interface \/ CheckOptions \/ LogOpened \/ InitLibrary \/ ReadCaps
  \/ PrintVersion \/ ResetMonitoring \/ ResetAllocation \/ PrintAndLeave
  \/ Allocate \/ AfterAllocation \/ SetUpMonitoring \/ OutputOpened
  \/ StartMonitoring \/ OpeningFile

\* From the loop to the end.
LoopStep == \/ LoopNotStarted \/ Poll \/ Timer \/ TimerAfterCtrlC
            \/ StopMonitoring \/ Fini \/ Cleanup

Next == ToolStep \/ LoopStep \/ monitoring_ctrlc \/ OthersSwitch \/ Ended

\* The utility is a running process: once in the loop it takes its next step
\* sooner or later, for polls return and the timer expires.
Spec == Init /\ [][Next]_vars /\ WF_vars(LoopStep)

-----------------------------------------------------------------------------
(* What was asked, read off the command line. *)

\* The options with the lines of a configuration file in the file's place.
Given ==
  Gather(LAMBDA s, i : IF Options[i].opt = "-f" THEN s \o Options[i].arg
                         ELSE Append(s, i), <<>>, argv)

ArgsOf(opt) ==
  Gather(LAMBDA s, i : IF Options[i].opt = opt THEN s \o Options[i].arg ELSE s,
           <<>>, Given)

ClassesAsked ==
  ArgsOf("-e") \o (IF "-c" \in w.flags THEN ProfileDefs ELSE <<>>)

InList(n, list) ==
  \E i \in DOMAIN list : n \in Min({list[i].from, list[i].to}) ..
                               Max({list[i].from, list[i].to})

\* The class of the last association that names x, or the default.
LastAsked(names(_), default) ==
  LET mine == SelectSeq(ArgsOf("-a"), names)
  IN IF mine = <<>> THEN default ELSE Last(mine).clos

\* All definitions in order, and those that write a part of a class.
DefsAsked ==
  Gather(LAMBDA s, o : s \o [i \in DOMAIN o.defs |->
                                 [type |-> o.type, ids |-> o.ids] @@ o.defs[i]],
           <<>>, ClassesAsked)

Names(d, t, id, c, part) ==
  /\ d.type = t /\ d.class = c /\ d.scope \in {"both", part}
  /\ d.ids = <<>> \/ InList(id, d.ids)

\* The utility has done, and reported, what it was asked.
Applied == /\ pc = "done" /\ exit_val = Success
           /\ w.flags \cap {"-s", "version"} = {}

\* A core, a task or a channel that -a named more than once, in one option or
\* in several, in the file or on the command line, is in the class named last;
\* one that was not named is where it was.
AssocAsAsked ==
  Applied =>
    /\ \A c \in Core : w.lib.core[c] =
         LastAsked(LAMBDA a : a.kind = "core" /\ InList(c, a.list), 0)
    /\ \A p \in Pid : w.lib.pid[p] =
         LastAsked(LAMBDA a : a.kind = "pid" /\ InList(p, a.list), 0)
    /\ (\A i \in DOMAIN ArgsOf("-a") : ArgsOf("-a")[i].kind # "dev") =>
         \A ch \in Channel : w.lib.chan[ch] =
           LastAsked(LAMBDA a : a.kind = "channel" /\ a.channel = ch, 0)

\* Nothing is associated before every class that -e and -c define, on every
\* resource, holds what was asked; when the utility reports success they hold
\* it too.  What no definition names keeps its value, whatever failed.
ClassesFirst ==
  LET moved == \/ \E c \in Core : w.lib.core[c] # 0
               \/ \E p \in Pid : w.lib.pid[p] # 0
               \/ \E ch \in Channel : w.lib.chan[ch] # 0
      defs == DefsAsked
  IN pc = "done" /\ w.iface # "MMIO" =>
       \A t \in Type : \A id \in IdsOf(t), c \in Class, part \in {"code", "data"} :
         LET mine == SelectSeq(defs, LAMBDA d : Names(d, t, id, c, part))
             has == w.lib.cls[t][id][c][part]
         IN /\ mine = <<>> => has = 9
            /\ mine # <<>> /\ (moved \/ Applied) => has = Last(mine).value

\* On the MMIO interface a class is written in the domains, for the regions and
\* for the limits that were asked, and nowhere else.
OnlyNamed ==
  LET defs == DefsAsked
      asked(t, c) == \E i \in DOMAIN defs : defs[i].type = t /\ defs[i].class = c
      limits == {Options[i].arg : i \in {j \in ToSet(Given) : Options[j].opt = "limit"}}
  IN pc = "done" => \A d \in Domain, c \in Class :
    LET here == d \in ToSet(w.sel.domains)
    IN /\ w.lib.ways[d][c] # 9 => here /\ asked("llc", c)
       /\ \A x \in DOMAIN w.lib.bw[d][c] :
            w.lib.bw[d][c][x] # 9 =>
              /\ here /\ asked("mba", c) /\ x[1] \in ToSet(w.sel.regions)
              /\ limits # {} => x[2] \in limits

\* The exit code admits every failure of the library before the loop: a reset
\* that failed is reported although the utility went on.
ExitHonest == pc = "done" /\ exit_val = Success => ~w.failed

\* No association and no start is sent to an interface that has no such
\* function, whatever order the options came in.
InterfaceFits == ~w.alien

\* When the utility ends the library is closed, no group is left running and
\* none was stopped twice, whichever way the utility took.
GroupsStopped ==
  pc = "done" => /\ ~w.open /\ w.running = {}
                 /\ \A i \in DOMAIN w.stops : w.stops[i] <= 1

\* Two groups of a kind never share a resource: the second is merged with the
\* first or the command line is refused.
GroupsDisjoint ==
  \A i, j \in DOMAIN w.sel.groups :
    i < j /\ w.sel.groups[i].type = w.sel.groups[j].type
          /\ w.sel.groups[i].type # "channel" =>
      ToSet(w.sel.groups[i].res) \cap ToSet(w.sel.groups[j].res) = {}

\* The processes chosen by -p without a list: as many as fit, each alive in both
\* looks, and none that is left out used more of the CPU than one chosen.
TopRight ==
  pc = "resolve" /\ Len(argv) = 1 /\ Options[argv[1]].opt = "top" =>
    LET look == Options[argv[1]].arg
        ticks(s, p) == {s[i].ticks : i \in {j \in DOMAIN s : s[j].pid = p}}
        valid == {look.first[i].pid : i \in {j \in DOMAIN look.first :
                    \E t \in ticks(look.second, look.first[j].pid) :
                      t >= look.first[j].ticks}}
        used(p) == Max(ticks(look.second, p)) - Max(ticks(look.first, p))
        chosen == {w.sel.groups[i].res[1] : i \in DOMAIN w.sel.groups}
    IN /\ chosen \subseteq valid
       /\ Cardinality(chosen) = Min({TopProcMax, Cardinality(valid)})
       /\ \A p \in chosen, q \in valid \ chosen : used(p) >= used(q)

\* An event that was switched off is never counted, on any interface and
\* whether events were named or "all" was asked.
DisabledStay ==
  \A i \in w.running : w.sel.groups[i].events \cap w.sel.disabled = {}

\* Ctrl-C ends the loop, and a timeout ends it by itself; in both cases the
\* utility goes on to its end.
Stops ==
  /\ stop ~> pc = "done"
  /\ (pc = "poll" /\ w.sel.timeout # -1) ~> pc = "done"

\* What the utility has done is what its command line asks for: classes before
\* associations and the last mention winning, on MMIO only what was named,
\* groups that do not overlap, no event that was switched off, and the
\* processes that used the CPU most.
AsAsked ==
  /\ AssocAsAsked
  /\ ClassesFirst
  /\ OnlyNamed
  /\ GroupsDisjoint
  /\ DisabledStay
  /\ TopRight

\* However the utility ends, its calls went to an interface that has them, no
\* group is left running and the exit code admits every failure before the
\* loop.
EndsClean == TypeOK /\ ExitHonest /\ InterfaceFits /\ GroupsStopped

\* Files are opened by their own names: what safe_open() and safe_fopen() hand
\* out was denoted by the name during the call, and safe_open() touches nothing
\* behind a link.
FilesByName == OpenedByName /\ LinkNotFollowed

=============================================================================
