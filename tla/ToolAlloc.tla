----------------------------- MODULE ToolAlloc -----------------------------
(***************************************************************************)
(* Allocation in the pqos utility (pqos/alloc.c, profiles.c): the tables   *)
(* that -a and -e fill while the command line is read, and alloc_apply,    *)
(* which writes them through the library: first the classes, then the      *)
(* associations of cores, tasks, channels and devices.                     *)
(*                                                                         *)
(* An operator that calls the library takes and returns a world w:         *)
(*   w.sel    the selections made on the command line                      *)
(*   w.lib    what the library holds (external)                            *)
(*   w.calls  the library calls made so far; the call numbered w.fail, if  *)
(*            there is one, fails                                          *)
(*   w.ok     FALSE once a step has returned an error: nothing follows     *)
(*   w.alien  an association or a monitoring start was sent to an          *)
(*            interface that does not implement it                         *)
(*   w.mod    sel_alloc_mod, the classes written                           *)
(***************************************************************************)
EXTENDS ToolParse

CONSTANTS
  Core,         \* the logical cores
  Pid,          \* the processes that exist
  Channel,      \* the I/O channels
  Dev,          \* the devices
  DevChannels,  \* device -> its channels by virtual channel, 0 for none
  L3Id, L2Id,   \* the resources of L3 and MBA, and of L2
  Domain,       \* the resource management domains of the MMIO interface
  Class,        \* the classes of service
  NumRegions,   \* memory regions the platform implements
  MaxBw,        \* PQOS_MMIO_MBA_MAX_BW
  MaxRegions,   \* PQOS_MAX_MEM_REGIONS
  MaxDomains,   \* MAX_DOMAINS
  TabMax,       \* size of the tables of tasks, channels and devices
  MaxIds,       \* most resources after @ in one -e
  MaxAllocOpts, \* most class definitions on a command line
  ProfileDefs   \* the definitions of the profile chosen with -c

\* A class definition of -e: the resources after @, none for all, and what is
\* written to the classes.
ClassDef == [type : {"llc", "l2", "mba", "smba"}, ids : Seq(Token),
             defs : Seq([class : Int, scope : {"both", "code", "data"}, value : Nat])]

ASSUME ClassAssumption == 0 \in Class
ASSUME ResourceAssumption ==
  IsFiniteSet(Core) /\ IsFiniteSet(L3Id) /\ IsFiniteSet(L2Id)
ASSUME ProfileAssumption == ProfileDefs \in Seq(ClassDef)
ASSUME ChannelAssumption == 0 \notin Channel
ASSUME DevAssumption == DevChannels \in [Dev -> Seq(Channel \cup {0})]

Type == {"llc", "l2", "mba", "smba"}
Limit == {"opt", "min", "max"}

\* A device with all its virtual channels (DEV_ALL_VCS).
DevAllVcs == -1

\* The interfaces that implement an operation (api_init).
Implementers(op) ==
  CASE op \in {"assoc_core", "l2", "smba"} -> {"MSR", "OS"}
    [] op \in {"assoc_channel", "mon_channel"} -> {"MSR", "MMIO"}
    [] op \in {"assoc_pid", "mon_pid"} -> {"OS"}
    [] op = "mon_uncore" -> {"MSR"}
    [] OTHER -> {"MSR", "OS", "MMIO"}

\* Ids in the order in which the system lists them.
InOrder(ids) ==
  [n \in 1 .. Cardinality(ids) |->
     CHOOSE i \in ids : Cardinality({j \in ids : j < i}) = n - 1]

\* What alloc.c keeps of the command line.
NoAllocSelected ==
  [alloc_opts |-> <<>>, domains |-> <<>>, regions |-> <<>>, limits |-> {},
   core_tab |-> <<>>, pid_tab |-> <<>>, chan_tab |-> <<>>, dev_tab |-> <<>>]

\* What the library holds when the utility starts: everything in class 0.
Start(v) == [code |-> v, data |-> v]
IdsOf(t) == IF t = "l2" THEN L2Id ELSE L3Id
AfterReset ==
  [cls |-> [t \in Type |-> [i \in IdsOf(t) |-> [c \in Class |-> Start(9)]]],
   bw |-> [d \in Domain |-> [c \in Class |->
            [x \in (0 .. NumRegions - 1) \X Limit |-> 9]]],
   ways |-> [d \in Domain |-> [c \in Class |-> 9]],
   core |-> [c \in Core |-> 0], pid |-> [p \in Pid |-> 0],
   chan |-> [c \in Channel |-> 0]]

-----------------------------------------------------------------------------
(***************************************************************************)
(* One library call: it may fail by itself, it fails when its arguments    *)
(* are out of bounds, and when the interface does not implement it.        *)
(***************************************************************************)
Call(w, op, valid, lib) ==
  LET n == w.calls + 1
      known == w.iface \in Implementers(op)
      good == known /\ valid /\ n # w.fail
  IN [w EXCEPT !.calls = n, !.ok = good,
               !.failed = @ \/ ~good,
               !.alien = @ \/ (~known /\ op \notin Type \cup {"mon_uncore"}),
               !.lib = IF good THEN lib ELSE @]

\* Do f for each element, until one fails.
ForEach(w, s, f(_, _)) == Gather(LAMBDA u, x : IF u.ok THEN f(u, x) ELSE u, w, s)

Error(w) == [w EXCEPT !.ok = FALSE]

-----------------------------------------------------------------------------
(* Classes. A class definition is a class, the part of it (scope) that is  *)
(* written, and a value; an option holds several, for some resources.      *)

\* Read-modify-write: the part that the scope names, the rest as it was read.
Written(old, scope, v) ==
  [code |-> IF scope = "data" THEN old.code ELSE v,
   data |-> IF scope = "code" THEN old.data ELSE v]

\* One class of one resource, the resource's classes having been read first.
SetCat(w, t, id, d) ==
  LET got == Call(w, t, id \in IdsOf(t), w.lib)
      cdp == t \in w.cdp
  IN CASE ~got.ok -> got
       [] d.class \notin Class -> Error(got)
       [] d.scope # "both" /\ ~cdp -> Error(got)
       [] OTHER ->
            LET done == Call(got, t, d.value # 0,
                             [got.lib EXCEPT !.cls[t][id][d.class] =
                                Written(@, d.scope, d.value)])
            IN IF done.ok THEN [done EXCEPT !.mod = @ + 1] ELSE done

\* The same on the MMIO interface, where a domain selects the registers.
SetCard(w, dom, d) ==
  LET got == Call(w, "llc", dom \in Domain, w.lib)
  IN CASE ~got.ok -> got
       [] d.class \notin Class \/ d.scope # "both" -> Error(got)
       [] OTHER ->
            LET done == Call(got, "llc", d.value # 0,
                             [got.lib EXCEPT !.ways[dom][d.class] = d.value])
            IN IF done.ok THEN [done EXCEPT !.mod = @ + 1] ELSE done

set_l3_clos(w, d, ids) ==
  IF w.iface = "MMIO"
  THEN IF w.sel.domains = <<>> THEN Error(w)
       ELSE ForEach(w, w.sel.domains, LAMBDA u, dom : SetCard(u, dom, d))
  ELSE IF d.value = 0 THEN Error(w)
       ELSE ForEach(w, ids, LAMBDA u, id : SetCat(u, "llc", id, d))

set_l2_clos(w, d, ids) ==
  IF d.value = 0 THEN Error(w)
  ELSE ForEach(w, ids, LAMBDA u, id : SetCat(u, "l2", id, d))

\* The limits that one bandwidth definition writes: those selected, or all.
LimitsWritten(sel) == IF sel.limits = {} THEN Limit ELSE sel.limits

SetBw(w, dom, d) ==
  LET mine == ToSet(w.sel.regions) \X LimitsWritten(w.sel)
      done == Call(w, "mba", dom \in Domain /\ d.class \in Class,
                   [w.lib EXCEPT !.bw[dom][d.class] =
                      [x \in DOMAIN @ |-> IF x \in mine THEN d.value ELSE @[x]]])
  IN IF done.ok THEN [done EXCEPT !.mod = @ + 1] ELSE done

SetMba(w, t, id, d) ==
  LET done == Call(w, t, id \in IdsOf(t) /\ d.class \in Class,
                   [w.lib EXCEPT !.cls[t][id][d.class] = Start(d.value)])
  IN IF done.ok THEN [done EXCEPT !.mod = @ + 1] ELSE done

set_mba_clos(w, d, ids) ==
  IF d.value = 0 THEN Error(w)
  ELSE IF w.iface = "MMIO"
       THEN IF \/ d.value > MaxBw \/ w.sel.domains = <<>> \/ w.sel.regions = <<>>
               \/ \E r \in ToSet(w.sel.regions) : r >= NumRegions
            THEN Error(w)
            ELSE ForEach(w, w.sel.domains, LAMBDA u, dom : SetBw(u, dom, d))
       ELSE ForEach(w, ids, LAMBDA u, id : SetMba(u, "mba", id, d))

set_smba_clos(w, d, ids) ==
  IF d.value = 0 THEN Error(w)
  ELSE ForEach(w, ids, LAMBDA u, id : SetMba(u, "smba", id, d))

set_allocation_clos(w, t, d, ids) ==
  CASE t = "llc" -> set_l3_clos(w, d, ids)
    [] t = "l2" -> set_l2_clos(w, d, ids)
    [] t = "mba" -> set_mba_clos(w, d, ids)
    [] t = "smba" -> set_smba_clos(w, d, ids)

\* One -e definition: the resources after @, all of them by default.
set_allocation_class(w, o) ==
  LET ids == IF o.ids = <<>> THEN Table(InOrder(IdsOf(o.type)))
             ELSE strlisttotab(o.ids, MaxIds)
  IN IF ~ids.ok \/ ids.tab = <<>> THEN Error(w)
     ELSE ForEach(w, o.defs, LAMBDA u, d : set_allocation_clos(u, o.type, d, ids.tab))

set_alloc(w) == ForEach(w, w.sel.alloc_opts, set_allocation_class)

-----------------------------------------------------------------------------
(* The association tables: one entry per thing, in the order of their      *)
(* first mention; a later mention changes the class of the entry.          *)

Mention(tab, x, clos, max) ==
  LET at == {i \in DOMAIN tab : tab[i].what = x}
  IN CASE at # {} -> [tab EXCEPT ![CHOOSE i \in at : TRUE].clos = clos]
       [] Len(tab) >= max -> tab
       [] OTHER -> Append(tab, [what |-> x, clos |-> clos])

\* The table of cores grows as needed.
fill_core_tab(sel, a) ==
  LET list == strlisttotab(a.list, Cardinality(Core))
      add(tab, c) == Mention(tab, c, a.clos, Len(tab) + 1)
  IN [ok |-> list.ok,
      sel |-> [sel EXCEPT !.core_tab = Gather(add, @, list.tab)]]

\* A full table of tasks ends the utility.
fill_pid_tab(sel, a) ==
  LET list == strlisttotab(a.list, TabMax)
      tab == Gather(LAMBDA t, p : Mention(t, p, a.clos, TabMax), sel.pid_tab,
                      list.tab)
  IN [ok |-> list.ok /\ \A p \in ToSet(list.tab) :
                           \E i \in DOMAIN tab : tab[i].what = p,
      sel |-> [sel EXCEPT !.pid_tab = tab]]

\* A full table of channels or of devices drops the new entry.
fill_channel_tab(sel, a) ==
  [ok |-> TRUE,
   sel |-> [sel EXCEPT !.chan_tab = Mention(@, a.channel, a.clos, TabMax)]]

fill_dev_tab(sel, a) ==
  [ok |-> TRUE,
   sel |-> [sel EXCEPT !.dev_tab = Mention(@, [dev |-> a.dev, vc |-> a.vc],
                                           a.clos, TabMax)]]

parse_allocation_assoc(sel, a) ==
  CASE a.kind = "core" -> fill_core_tab(sel, a)
    [] a.kind = "pid" -> fill_pid_tab(sel, a)
    [] a.kind = "channel" -> fill_channel_tab(sel, a)
    [] a.kind = "dev" -> fill_dev_tab(sel, a)

-----------------------------------------------------------------------------
set_core(w, e) ==
  Call(w, "assoc_core", e.what \in Core /\ e.clos \in Class,
       [w.lib EXCEPT !.core = [c \in Core |-> IF c = e.what THEN e.clos ELSE @[c]]])

set_pid(w, e) ==
  Call(w, "assoc_pid", e.what \in Pid /\ e.clos \in Class,
       [w.lib EXCEPT !.pid = [p \in Pid |-> IF p = e.what THEN e.clos ELSE @[p]]])

set_channel(w, ch, clos) ==
  Call(w, "assoc_channel", ch \in Channel /\ clos \in Class,
       [w.lib EXCEPT !.chan = [c \in Channel |-> IF c = ch THEN clos ELSE @[c]]])

\* A device: all its channels, or the one of a virtual channel.
set_dev(w, e) ==
  IF e.what.dev \notin Dev THEN Error(w)
  ELSE LET chans == DevChannels[e.what.dev]
       IN IF e.what.vc = DevAllVcs
          THEN ForEach(w, chans, LAMBDA u, ch :
                 IF ch = 0 THEN u ELSE set_channel(u, ch, e.clos))
          ELSE set_channel(w, chans[e.what.vc + 1], e.clos)

\* MMIO takes no cores and no tasks.
set_allocation_assoc(w) ==
  IF w.iface = "MMIO" /\ (w.sel.core_tab # <<>> \/ w.sel.pid_tab # <<>>)
  THEN Error(w)
  ELSE LET cores == ForEach(w, w.sel.core_tab, set_core)
           pids == ForEach(cores, w.sel.pid_tab, set_pid)
           chans == ForEach(pids, w.sel.chan_tab,
                            LAMBDA u, e : set_channel(u, e.what, e.clos))
       IN ForEach(chans, w.sel.dev_tab, set_dev)

-----------------------------------------------------------------------------
AssocSelected(sel) ==
  sel.core_tab # <<>> \/ sel.pid_tab # <<>> \/ sel.chan_tab # <<>>
alloc_options_selected(sel) ==
  sel.domains # <<>> \/ sel.regions # <<>> \/ sel.limits # {}

\* An option that says where a class applies needs a class.
alloc_check_options(sel, pending) ==
  pending \/ sel.alloc_opts # <<>> \/ ~alloc_options_selected(sel)

\* A profile becomes -e definitions; without L3 CAT there is none.
profile_l3ca_apply(w) ==
  LET n == Len(w.sel.alloc_opts) + Len(ProfileDefs)
  IN IF "llc" \notin w.caps \/ n > MaxAllocOpts THEN Error(w)
     ELSE [w EXCEPT !.sel.alloc_opts = @ \o ProfileDefs]

(***************************************************************************)
(* alloc_apply: the classes, and if all of them were written the           *)
(* associations.  What was written before an error stays.  Without any     *)
(* allocation capability a selection is an error, that of a device         *)
(* excepted.  changed: something was applied, and the utility ends.        *)
(***************************************************************************)
M_alloc_apply(w) ==
  LET assoc == set_allocation_assoc([w EXCEPT !.ok = TRUE])
      classes == set_alloc(assoc)
  IN [w |-> classes, changed |-> classes.mod > 0 \/ AssocSelected(w.sel)
                                                 \/ w.sel.dev_tab # <<>>]

alloc_apply(w) ==
  IF w.caps \cap Type = {}
  THEN [w |-> IF AssocSelected(w.sel) \/ w.sel.alloc_opts # <<>>
                 \/ alloc_options_selected(w.sel) THEN Error(w) ELSE w,
        changed |-> FALSE]
  ELSE LET classes == set_alloc(w)
           done == IF classes.ok THEN set_allocation_assoc(classes) ELSE classes
       IN [w |-> done, changed |-> done.mod > 0 \/ AssocSelected(w.sel)
                                                \/ w.sel.dev_tab # <<>>]

=============================================================================
