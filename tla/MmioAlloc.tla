----------------------------- MODULE MmioAlloc -----------------------------
(***************************************************************************)
(* Allocation through memory-mapped registers (lib/mmio_allocation.c) and  *)
(* the dumps of the registers.  Every call holds the API lock, so a call   *)
(* is one step; what may interrupt it is a register block that cannot be   *)
(* mapped.  A call is a sequence of accesses to registers, and a failed    *)
(* mapping leaves the accesses before it done.                             *)
(***************************************************************************)
EXTENDS MmioRegs

CONSTANTS
  MbaSets,     \* arguments of pqos_mba_set: [reqs, actual]
  MbaGets,     \* arguments of pqos_mba_get: [domain, regions, max]
  CatSets,     \* arguments of pqos_l3ca_set: sequences of [domain, class, mask]
  CatGets,     \* arguments of pqos_l3ca_get: [domains, max]
  Dumps,       \* options of --dump: [sockets, domains, space, width, ...]
  RmidDumps,   \* options of --dump-rmid: [domains, rmids, regions, type, upscale]
  MBA_MAX_BW,  \* widest value of a bandwidth lane
  Mrrm,        \* what MRRM may report
  MaxCalls,    \* calls in a behaviour
  Faults       \* what may fail

FaultKinds == {"map", "alloc_reset"}
ASSUME FaultsAssumption == Faults \subseteq FaultKinds /\ MaxCalls \in Nat
Can(fault) == fault \in Faults

VARIABLES
  mba,    \* mba[i][limit][address]: lanes of the bandwidth registers
  cbm,    \* cbm[i][address]: cache masks of the device agents
  tme,    \* tme[i]: the region-aware bit of the domain's control register
  calls,  \* calls made
  last    \* the last call, with what it returned

vars == <<mrrm, mba, cbm, tme, calls, last>>

Classes == 0 .. (MaxClos - 1)
Regions == 0 .. (mmio_get_num_mem_regions - 1)
MbaAgents == {i \in DOMAIN CpuAgents : cpu_agent_has_mba(CpuAgents[i])}
CatAgents == {i \in DOMAIN DevAgents : dev_agent_has_l3ca(DevAgents[i])}
FullMask(i) == 2 ^ DevAgents[i].ways - 1

\* What callers pass in has the types of pqos.h, and -1 where nothing is asked.
\* The registers of all classes are on one page, and a class that is not among
\* them (mmio_l3ca_set does not look) is not so far off that its first page is
\* the second of another.
ASSUME InputsAssumption ==
  /\ MBA_MAX_BW \in Nat
  /\ Mrrm \subseteq Nat
  /\ \A s \in MbaSets :
       /\ DOMAIN s = {"reqs", "actual"} /\ s.actual \in BOOLEAN
       /\ s.reqs \in Seq([domain : Nat, class : Nat,
                           regions : Seq([region : Int, bw : [Limits -> Int]])])
  /\ \A ca \in CatSets :
       ca \in Seq([domain : Nat, class : 0 .. (PAGE_SIZE \div RDT_REG_SIZE - 1), mask : Nat])
  /\ \A o \in Dumps :
       /\ o.sockets \in Seq(Token) /\ o.domains \in Seq(Token)
       /\ o.offset \in Nat /\ o.length \in Nat /\ o.le \in BOOLEAN
  /\ \A o \in RmidDumps :
       /\ o.domains \in Seq(Token) /\ o.rmids \in Seq(Token) /\ o.regions \in Seq(Token)
       /\ o.type \in {"none", "l3", "mbm", "io-l3", "io-total", "io-miss"}
  /\ MaxClos * RDT_REG_SIZE <= PAGE_SIZE
  /\ \A i \in CatAgents : FullMask(i) \in Nat

\* Addresses of the bandwidth and of the cache registers of all classes.
MbaAddrs == {get_clos_addr_by_region(r, c) : r \in Lanes, c \in Classes}
CbmAddrs(i) == UNION {cbm_pages(DevAgents[i], c) : c \in Classes}

TypeOK ==
  /\ mrrm \in Mrrm
  /\ mba \in [MbaAgents -> [Limits -> [MbaAddrs -> [Lanes -> 0 .. MBA_MAX_BW]]]]
  /\ DOMAIN cbm = CatAgents
  /\ \A i \in CatAgents : cbm[i] \in [CbmAddrs(i) -> 0 .. FullMask(i)]
  /\ tme \in [DOMAIN CpuAgents -> {0, 1}]
  /\ calls \in 0 .. MaxCalls

Init ==
  /\ mrrm \in Mrrm
  /\ mba = [i \in MbaAgents |-> [l \in Limits |-> [a \in MbaAddrs |-> [g \in Lanes |-> MBA_MAX_BW]]]]
  /\ cbm = [i \in CatAgents |-> [a \in CbmAddrs(i) |-> FullMask(i)]]
  /\ tme = [i \in DOMAIN CpuAgents |-> 0]
  /\ calls = 0
  /\ last = [op |-> "none", ret |-> "ok", fault |-> FALSE]

\* A call begins while calls are left and records what it returned.
Call(op, arg, ret, fault, got) ==
  /\ calls < MaxCalls
  /\ UNCHANGED mrrm
  /\ calls' = calls + 1
  /\ last' = [op |-> op, arg |-> arg, ret |-> ret, fault |-> fault, got |-> got]

\* An access to a register is named by where the loops of its call stand when it
\* is made; every loop goes through its indices upwards.
Earlier(p, q) ==
  \E n \in DOMAIN p : p[n] < q[n] /\ \A m \in 1 .. (n - 1) : p[m] = q[m]
Latest(ps) == CHOOSE p \in ps : \A q \in ps : ~Earlier(p, q)

\* What is done of the accesses of a call: all, or those before the first for
\* which the mapping fails.
Done(all) ==
  {all} \cup (IF Can("map") THEN {{p \in all : Earlier(p, f)} : f \in all} ELSE {})

-----------------------------------------------------------------------------
(***************************************************************************)
(* Memory bandwidth allocation.  All requests are validated before the     *)
(* first register is written.                                              *)
(***************************************************************************)
\* mmio_mba_check_request; -1 marks a region or a limit that is not asked for.
mmio_mba_check_request(r) ==
  /\ get_cpu_agent_idx_by_domain_id(r.domain) \in MbaAgents
  /\ r.class < MaxClos
  /\ Len(r.regions) <= mmio_get_num_mem_regions
  /\ \A j \in DOMAIN r.regions :
       r.regions[j].region # -1 =>
         /\ r.regions[j].region \in Regions
         /\ \A l \in Limits : r.regions[j].bw[l] \in {-1} \cup (0 .. MBA_MAX_BW)

\* The accesses of a call: for each request, the limits asked for of one region
\* after the other are written; then, when the caller wants to know what was
\* set, every limit of those regions is read.
LimitAt == <<"opt", "min", "max">>
Writing == 1
Reading == 2
mba_accesses(s) ==
  {p \in (DOMAIN s.reqs) \X {Writing, Reading} \X (1 .. PQOS_MAX_MEM_REGIONS) \X (1 .. 3) :
     LET regions == s.reqs[p[1]].regions
     IN /\ p[3] \in DOMAIN regions /\ regions[p[3]].region # -1
        /\ IF p[2] = Writing THEN regions[p[3]].bw[LimitAt[p[4]]] # -1 ELSE s.actual}

Access(s, p) ==
  LET r == s.reqs[p[1]]
      g == r.regions[p[3]]
      l == LimitAt[p[4]]
  IN [agent |-> get_cpu_agent_idx_by_domain_id(r.domain), class |-> r.class,
      region |-> g.region, limit |-> l, bw |-> g.bw[l]]

\* The lanes that a write of a limit, for a region of a class, changes.
LanesOf(i, l, region, class) ==
  {<<i, l, get_clos_addr_by_region(region, class), g>> : g \in set_clos_region_value(region)}

\* set_mba_{optimal,min,max}_bw_region_clos_v1: a lane after writes, given as a
\* function from their names; the last one that changes it decides.
LaneAfter(m, writes, i, l, addr, g) ==
  LET hits == {p \in DOMAIN writes :
                 <<i, l, addr, g>> \in LanesOf(writes[p].agent, writes[p].limit,
                                              writes[p].region, writes[p].class)}
  IN IF hits = {} THEN m[i][l][addr][g] ELSE writes[Latest(hits)].bw
set_mba_bw_region_clos_v1(m, writes) ==
  [i \in MbaAgents |-> [l \in Limits |-> [addr \in MbaAddrs |-> [g \in Lanes |->
     LaneAfter(m, writes, i, l, addr, g)]]]]
\* get_mba_{optimal,min,max}_bw_region_clos_v1
get_mba_bw_region_clos_v1(m, i, l, region, class) ==
  get_clos_region_value(m[i][l][get_clos_addr_by_region(region, class)], region)

\* The writes among what is done, and what each read returns.
Writes(s, done) == [p \in {q \in done : q[2] = Writing} |-> Access(s, p)]
Reported(s, done) ==
  [p \in {q \in done : q[2] = Reading} |->
     LET a == Access(s, p)
         before == Writes(s, {q \in done : Earlier(q, p)})
     IN [a EXCEPT !.bw = LaneAfter(mba, before, a.agent, a.limit,
                            get_clos_addr_by_region(a.region, a.class), a.region)]]

mmio_mba_set(s) ==
  /\ UNCHANGED <<cbm, tme>>
  /\ \/ /\ mmio_get_num_mem_regions = 0
        /\ Call("mba_set", s, "resource", FALSE, <<>>) /\ UNCHANGED mba
     \/ /\ mmio_get_num_mem_regions # 0
        /\ \E i \in DOMAIN s.reqs : ~mmio_mba_check_request(s.reqs[i])
        /\ Call("mba_set", s, "param", FALSE, <<>>) /\ UNCHANGED mba
     \/ /\ mmio_get_num_mem_regions # 0
        /\ \A i \in DOMAIN s.reqs : mmio_mba_check_request(s.reqs[i])
        /\ LET all == mba_accesses(s)
           IN \E done \in Done(all) : \E writes \in {Writes(s, done)} :
                /\ Call("mba_set", s, IF done = all THEN "ok" ELSE "error",
                        done # all, Reported(s, done))
                /\ mba' = set_mba_bw_region_clos_v1(mba, writes)

\* mmio_mba_get reads every class of one domain; no regions means all.
mmio_mba_get(s) ==
  LET i == get_cpu_agent_idx_by_domain_id(s.domain)
      n == IF s.regions = 0 THEN mmio_get_num_mem_regions ELSE s.regions
      table == [c \in Classes |-> [g \in 0 .. (n - 1) |-> [l \in Limits |->
                  get_mba_bw_region_clos_v1(mba, i, l, g, c)]]]
  IN /\ UNCHANGED <<mba, cbm, tme>>
     /\ CASE mmio_get_num_mem_regions = 0 -> Call("mba_get", s, "resource", FALSE, <<>>)
          [] MaxClos > s.max -> Call("mba_get", s, "error", FALSE, <<>>)
          [] i \notin MbaAgents \/ n > mmio_get_num_mem_regions ->
               Call("mba_get", s, "param", FALSE, <<>>)
          [] OTHER -> \/ Call("mba_get", s, "ok", FALSE, table)
                      \/ Can("map") /\ Call("mba_get", s, "error", TRUE, <<>>)

-----------------------------------------------------------------------------
(***************************************************************************)
(* I/O cache allocation.  Domains and widths are validated for all         *)
(* elements first, contiguity and length only when an element's turn       *)
(* comes; the class is not looked at.                                      *)
(***************************************************************************)
DevOf(e) == get_dev_agent_idx_by_domain_id(e.domain)

Contiguous(mask) == \E lo, hi \in 0 .. 8 : lo < hi /\ mask = 2 ^ hi - 2 ^ lo

\* The checks before the first write, and those of an element's turn.
l3ca_checked(ca) ==
  \A i \in DOMAIN ca : DevOf(ca[i]) \in CatAgents /\ ca[i].mask <= FullMask(DevOf(ca[i]))
l3ca_accepted(e) ==
  LET a == DevAgents[DevOf(e)]
  IN /\ a.non_contiguous \/ Contiguous(e.mask)
     /\ e.mask # 0 \/ a.zero_length

\* set_iol3_cbm_clos_v1: the masks after writes, given as a function from their
\* names.  A write beside the registers of the classes is not followed further.
M_set_cbm(m, writes) ==
  [i \in CatAgents |-> [addr \in CbmAddrs(i) |->
     LET hits == {p \in DOMAIN writes :
                    /\ writes[p].agent = i
                    /\ addr = cbm_addr(DevAgents[i], writes[p].class, 0)}
     IN IF hits = {} THEN m[i][addr] ELSE writes[Latest(hits)].mask]]
set_iol3_cbm_clos_v1(m, writes) ==
  [i \in CatAgents |-> [addr \in CbmAddrs(i) |->
     LET hits == {p \in DOMAIN writes :
                    /\ writes[p].agent = i
                    /\ addr \in cbm_pages(DevAgents[i], writes[p].class)}
     IN IF hits = {} THEN m[i][addr] ELSE writes[Latest(hits)].mask]]
get_iol3_cbm_clos_v1(m, i, class) == m[i][cbm_addr(DevAgents[i], class, 0)]

\* The elements that are written: those before the first that is refused.
l3ca_prefix(ca) == {n \in DOMAIN ca : \A m \in 1 .. n : l3ca_accepted(ca[m])}
CatWrites(ca, done) ==
  [p \in done |-> [agent |-> DevOf(ca[p[1]]), class |-> ca[p[1]].class, mask |-> ca[p[1]].mask]]

mmio_l3ca_set(ca) ==
  /\ UNCHANGED <<mba, tme>>
  /\ \/ /\ Len(ca) > MaxClos
        /\ Call("l3ca_set", ca, "error", FALSE, <<>>) /\ UNCHANGED cbm
     \/ /\ Len(ca) <= MaxClos /\ ~l3ca_checked(ca)
        /\ Call("l3ca_set", ca, "param", FALSE, <<>>) /\ UNCHANGED cbm
     \/ /\ Len(ca) <= MaxClos /\ l3ca_checked(ca)
        /\ LET all == {<<n>> : n \in l3ca_prefix(ca)}
           IN \E done \in Done(all) :
                /\ Call("l3ca_set", ca,
                        CASE done # all -> "error"
                          [] done = all /\ l3ca_prefix(ca) # DOMAIN ca -> "param"
                          [] OTHER -> "ok",
                        done # all, <<>>)
                /\ cbm' = set_iol3_cbm_clos_v1(cbm, CatWrites(ca, done))

\* mmio_l3ca_get: the caller names a domain for every class.
mmio_l3ca_get(s) ==
  LET known == \A c \in Classes : get_dev_agent_idx_by_domain_id(s.domains[c + 1]) \in CatAgents
      table == [c \in Classes |->
        get_iol3_cbm_clos_v1(cbm, get_dev_agent_idx_by_domain_id(s.domains[c + 1]), c)]
  IN /\ UNCHANGED <<mba, cbm, tme>>
     /\ CASE MaxClos > s.max -> Call("l3ca_get", s, "error", FALSE, <<>>)
          [] MaxClos <= s.max /\ ~known -> Call("l3ca_get", s, "param", FALSE, <<>>)
          [] OTHER -> \/ Call("l3ca_get", s, "ok", FALSE, table)
                      \/ Can("map") /\ Call("l3ca_get", s, "error", TRUE, <<>>)

-----------------------------------------------------------------------------
(***************************************************************************)
(* Reset: the registers of the cores first (alloc_reset, see HwAlloc),     *)
(* then bandwidth, then cache.  Agents without the registers are passed    *)
(* over.                                                                   *)
(***************************************************************************)
mmio_alloc_reset_mba == MbaAgents \X Classes \X Regions \X (1 .. 3)
ResetMba(m, done) ==
  LET reset == UNION {LanesOf(p[1], LimitAt[p[4]], p[3], p[2]) : p \in done}
  IN [i \in MbaAgents |-> [l \in Limits |-> [addr \in MbaAddrs |-> [g \in Lanes |->
        IF <<i, l, addr, g>> \in reset THEN MBA_MAX_BW ELSE m[i][l][addr][g]]]]]
mmio_alloc_reset_cat == CatAgents \X Classes
ResetCat(done) ==
  [p \in done |-> [agent |-> p[1], class |-> p[2], mask |-> FullMask(p[1])]]

mmio_alloc_reset ==
  /\ UNCHANGED tme
  /\ \/ /\ Can("alloc_reset")
        /\ Call("reset", <<>>, "error", TRUE, <<>>) /\ UNCHANGED <<mba, cbm>>
     \/ /\ mmio_get_num_mem_regions = 0
        /\ Call("reset", <<>>, "resource", FALSE, <<>>) /\ UNCHANGED <<mba, cbm>>
     \/ /\ mmio_get_num_mem_regions # 0
        /\ \E first \in Done(mmio_alloc_reset_mba) :
           \E second \in IF first = mmio_alloc_reset_mba THEN Done(mmio_alloc_reset_cat)
                         ELSE {{}} :
             LET whole == first = mmio_alloc_reset_mba /\ second = mmio_alloc_reset_cat
             IN /\ Call("reset", <<>>, IF whole THEN "ok" ELSE "error", ~whole, <<>>)
                /\ mba' = ResetMba(mba, first)
                /\ cbm' = set_iol3_cbm_clos_v1(cbm, ResetCat(second))

\* mmio_set_mbm_mba_mode stops at the first domain whose register fails.
set_mbm_mba_mode_v1(t, done, mode) ==
  [i \in DOMAIN CpuAgents |-> IF <<i>> \in done THEN mode ELSE t[i]]
mmio_set_mbm_mba_mode(mode) ==
  /\ UNCHANGED <<mba, cbm>>
  /\ LET all == {<<i>> : i \in DOMAIN CpuAgents}
     IN \E done \in Done(all) :
          /\ tme' = set_mbm_mba_mode_v1(tme, done, mode)
          /\ Call("mode", mode, IF done = all THEN "ok" ELSE "error", done # all, <<>>)

\* The dumps change nothing, and where they read depends on nothing the other
\* calls change: they are looked at first thing.  A mapping that fails ends a
\* dump like any other error and is left to the calls above.
pqos_dump(o) ==
  /\ calls = 0
  /\ UNCHANGED <<mba, cbm, tme>>
  /\ \E r \in {dump_mmio_regs(o)} : Call("dump", o, r.ret, FALSE, r.shown)
pqos_dump_rmids(o) ==
  /\ calls = 0
  /\ UNCHANGED <<mba, cbm, tme>>
  /\ \E r \in {dump_rmid_regs(o)} : Call("dump_rmids", o, r.ret, FALSE, r.shown)
print_info ==
  /\ calls = 0
  /\ UNCHANGED <<mba, cbm, tme>>
  /\ Call("dump_info", <<>>, pqos_print_dump_info.ret, FALSE, pqos_print_dump_info.shown)

\* No calls are left.
Finished == calls = MaxCalls /\ UNCHANGED vars

Next ==
  \/ \E s \in MbaSets : mmio_mba_set(s)
  \/ \E s \in MbaGets : mmio_mba_get(s)
  \/ \E ca \in CatSets : mmio_l3ca_set(ca)
  \/ \E s \in CatGets : mmio_l3ca_get(s)
  \/ mmio_alloc_reset
  \/ \E mode \in {0, 1} : mmio_set_mbm_mba_mode(mode)
  \/ \E o \in Dumps : pqos_dump(o)
  \/ \E o \in RmidDumps : pqos_dump_rmids(o)
  \/ print_info
  \/ Finished

Spec == Init /\ [][Next]_vars

-----------------------------------------------------------------------------
(***************************************************************************)
(* Properties.                                                             *)
(***************************************************************************)
\* The requests of a set that ask for a limit of a region of a class.
Naming(s, i, l, c, g) ==
  {p \in (DOMAIN s.reqs) \X (1 .. PQOS_MAX_MEM_REGIONS) :
     LET r == s.reqs[p[1]]
     IN /\ get_cpu_agent_idx_by_domain_id(r.domain) = i /\ r.class = c
        /\ p[2] \in DOMAIN r.regions /\ r.regions[p[2]].region = g
        /\ r.regions[p[2]].bw[l] # -1}

\* A set of bandwidth limits that is refused changes no register, whatever its
\* valid requests ask for; one that succeeds gives every lane the last value
\* asked for it and changes no lane that was not named; one that a mapping
\* interrupts gives a lane its old value or one that was asked for it.
BandwidthStep ==
  last'.op = "mba_set" /\ (mba' # mba \/ last'.ret = "ok") =>
    \A i \in MbaAgents, l \in Limits, c \in Classes, g \in Lanes :
      LET old == get_mba_bw_region_clos_v1(mba, i, l, g, c)
          new == get_mba_bw_region_clos_v1(mba', i, l, g, c)
          named == Naming(last'.arg, i, l, c, g)
          later(p, q) == p[1] > q[1] \/ (p[1] = q[1] /\ p[2] >= q[2])
          bw(p) == last'.arg.reqs[p[1]].regions[p[2]].bw[l]
      IN CASE last'.ret \in {"param", "resource"} \/ named = {} -> new = old
           [] last'.ret = "ok" /\ named # {} ->
                \E p \in named : (\A q \in named : later(p, q)) /\ new = bw(p)
           [] OTHER -> new \in {old} \cup {bw(p) : p \in named}

\* What a successful set reports as set is in the registers, unless a later
\* request of the same call set the lane again.
ReportedIsSet ==
  last.op = "mba_set" /\ last.ret = "ok" =>
    \A p \in DOMAIN last.got :
      LET a == last.got[p]
          again == {q \in mba_accesses(last.arg) :
                      /\ q[2] = Writing /\ Earlier(p, q)
                      /\ [Access(last.arg, q) EXCEPT !.bw = a.bw] = a}
      IN again = {} => a.bw = get_mba_bw_region_clos_v1(mba, a.agent, a.limit, a.region, a.class)

\* Every page of a cache block holds the same mask for a class: reading the
\* first page, as a get does, tells what all the ways of the domain use.
PagesAgree ==
  \A i \in CatAgents, c \in Classes :
    \A a \in cbm_pages(DevAgents[i], c) : cbm[i][a] = get_iol3_cbm_clos_v1(cbm, i, c)

\* A set of cache masks leaves the classes it did not name alone; a refusal
\* leaves everything before the element at fault applied and nothing after it.
CacheStep ==
  last'.op = "l3ca_set" =>
    LET ca == last'.arg
        to(i, c) == {n \in DOMAIN ca : DevOf(ca[n]) = i /\ ca[n].class = c}
    IN \A i \in CatAgents, c \in Classes :
         LET new == get_iol3_cbm_clos_v1(cbm', i, c)
             old == get_iol3_cbm_clos_v1(cbm, i, c)
         IN /\ new # old => \E n \in to(i, c) : new = ca[n].mask /\ l3ca_accepted(ca[n])
            /\ last'.ret = "ok" /\ to(i, c) # {} => new = ca[Max(to(i, c))].mask

\* A reset that succeeds restores every class, limit and region of every
\* agent that has the registers, and it succeeds unless something failed: an
\* agent without the registers does not take it down.
ResetRestores ==
  last.op = "reset" =>
    /\ last.ret = "ok" =>
         /\ \A i \in MbaAgents, l \in Limits, c \in Classes, g \in Regions :
              get_mba_bw_region_clos_v1(mba, i, l, g, c) = MBA_MAX_BW
         /\ \A i \in CatAgents, c \in Classes : get_iol3_cbm_clos_v1(cbm, i, c) = FullMask(i)
    /\ last.ret = "error" => last.fault

Bytes(lines) == FlattenSeq(lines)

\* A dump that succeeds shows every domain asked for once and in order, and
\* of each exactly the elements asked for, every byte of them once.
DumpExact ==
  last.op = "dump" /\ last.ret = "ok" =>
    LET o == last.arg
        agents == IF o.space \in CpuSpaces THEN CpuAgents ELSE DevAgents
        asked == IF o.domains # <<>> THEN UNION {ToSet(Upwards(o.domains[n])) : n \in DOMAIN o.domains}
                 ELSE {agents[i].domain : i \in {k \in DOMAIN agents :
                        \E n \in DOMAIN o.sockets : agents[k].socket \in ToSet(Upwards(o.sockets[n]))}}
    IN /\ {last.got[n].domain : n \in DOMAIN last.got} = asked
       /\ Len(last.got) = Cardinality(asked)
       /\ \A n \in DOMAIN last.got :
            LET size == Pages(agents[First(agents, last.got[n].domain)], o.space) * PAGE_SIZE
                from == o.offset * o.width
                to == IF o.length = 0 THEN size - (size % o.width) ELSE from + o.length * o.width
                b == Bytes(last.got[n].lines)
            IN /\ to <= size /\ Len(b) = to - from
               /\ \A k \in DOMAIN b :
                    LET e == (k - 1) \div o.width
                    IN b[k] = from + (IF o.le THEN k - 1
                                      ELSE e * o.width + (e + 1) * o.width - k)

\* Counters are told apart: different RMIDs, and different regions, are read
\* from different registers of the block, and a value is scaled with a factor
\* of its list.  RMIDs the platform does not have are not spoken of.
CountersApart ==
  last.op = "dump_rmids" =>
    LET known == {n \in DOMAIN last.got : last.got[n].rmid <= MaxRmids}
        cpu == last.arg.type \in {"l3", "mbm"}
        agent(x) == IF cpu THEN CpuAgents[First(CpuAgents, x.domain)]
                    ELSE DevAgents[First(DevAgents, x.domain)]
    IN /\ \A m, n \in known :
            LET x == last.got[m] y == last.got[n]
            IN x.domain = y.domain /\ x.at = y.at => x.rmid = y.rmid /\ x.region = y.region
       /\ \A n \in known :
            LET x == last.got[n] IN x.factor < agent(x).factors

\* What mmio_allocation.c reports of the registers is so: limits reported as
\* set are set, the page that is read stands for all, and a reset that returns
\* OK restored every class.
RegistersSound == TypeOK /\ ReportedIsSet /\ PagesAgree /\ ResetRestores

\* mmio_mba_set() and mmio_l3ca_set() change what they were asked to change and
\* nothing else, also when a request is refused or a mapping fails.
SetsExact == [][BandwidthStep /\ CacheStep]_vars

\* The dumps show the registers that were asked for, each once, and no counter
\* in the place of another.
DumpsExact == DumpExact /\ CountersApart

=============================================================================
