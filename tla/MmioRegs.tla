------------------------------ MODULE MmioRegs ------------------------------
(***************************************************************************)
(* Where the memory-mapped RDT registers are (lib/mmio.c, mmio_common.c)   *)
(* and what the dumps show of them (lib/mmio_dump.c, mmio_dump_rmids.c).   *)
(* Addresses are byte offsets inside the register block of an agent, with  *)
(* the layout the hardware has; a register holds eight bytes.              *)
(***************************************************************************)
EXTENDS Integers, Sequences, SequencesExt, FiniteSets, FiniteSetsExt, ToolParse

CONSTANTS
  CpuAgents,    \* CPU domains of ERDT, in table order:
                \* [domain, socket, cmrc, mmrc, marc, bases, clump, stride, factors]
  DevAgents,    \* device domains: [domain, socket, cmrd, ibrd, card, offset,
                \*   ways, non_contiguous, zero_length, clump, total, miss, factors]
  MaxClos,      \* erdt->max_clos
  MaxRmids,     \* erdt->max_rmids, the highest RMID
  CpuPerSocket, DevPerSocket  \* agents the utility expects on a socket

PAGE_SIZE == 4096
RDT_REG_SIZE == 8
BYTES_PER_REGION_SET == 512
MBM_REGION_SIZE == 2048
PQOS_MAX_MEM_REGIONS == 4

VARIABLE mrrm   \* memory regions that the MRRM table reports, 0 without it

Limits == {"opt", "min", "max"}
CpuSpaces == {"cmrc", "mmrc", "marc_opt", "marc_min", "marc_max"}
DevSpaces == {"cmrd", "ibrd", "card"}

\* What the tables of the firmware hold.
CpuAgent == [domain : Nat, socket : Nat, cmrc : Nat, mmrc : Nat, marc : Nat, bases : SUBSET Limits,
             clump : Nat, stride : Nat, factors : Nat]
DevAgent == [domain : Nat, socket : Nat, cmrd : Nat, ibrd : Nat, card : Nat, offset : Nat, ways : Nat,
             non_contiguous : BOOLEAN, zero_length : BOOLEAN, clump : Nat, total : Nat, miss : Nat,
             factors : Nat]

\* A table gives a correction factor for no RMID, for all at once, or for each.
\* Agents are told apart by their domains.
ASSUME AgentsAssumption ==
  /\ CpuAgents \in Seq(CpuAgent) /\ DevAgents \in Seq(DevAgent)
  /\ \A agents \in {CpuAgents, DevAgents} : \A i, j \in DOMAIN agents :
       agents[i].domain = agents[j].domain => i = j
  /\ CpuPerSocket \in Nat \ {0} /\ DevPerSocket \in Nat \ {0}
  /\ \A i \in DOMAIN CpuAgents :
       /\ CpuAgents[i].factors \in {0, 1, MaxRmids + 1}
       /\ CpuAgents[i].stride >= CpuAgents[i].clump * RDT_REG_SIZE
       /\ CpuAgents[i].socket = (i - 1) \div CpuPerSocket
  /\ \A i \in DOMAIN DevAgents :
       /\ DevAgents[i].factors \in {0, 1, MaxRmids + 1}
       /\ DevAgents[i].clump * RDT_REG_SIZE <= PAGE_SIZE
       /\ DevAgents[i].socket = (i - 1) \div DevPerSocket
  /\ MaxRmids \in 0 .. 1023 /\ MaxClos \in Nat \ {0}

-----------------------------------------------------------------------------
(***************************************************************************)
(* Agents are looked up by domain: the first of the table that matches.    *)
(***************************************************************************)
First(agents, domain) ==
  SelectInSeq(agents, LAMBDA a : a.domain = domain)
get_cpu_agent_idx_by_domain_id(domain) == First(CpuAgents, domain)
get_dev_agent_idx_by_domain_id(domain) == First(DevAgents, domain)

cpu_agent_has_mba(a) == a.marc # 0 /\ a.bases = Limits
dev_agent_has_l3ca(a) == a.card # 0

\* mmio_get_num_mem_regions; zero stands for its refusal.
mmio_get_num_mem_regions == Min({mrrm, PQOS_MAX_MEM_REGIONS})

\* Pages of a register space of an agent; the three bandwidth limits have a
\* base each and share the size.
Pages(a, space) ==
  CASE space = "cmrc" -> a.cmrc [] space = "mmrc" -> a.mmrc
    [] space \in {"marc_opt", "marc_min", "marc_max"} -> a.marc
    [] space = "cmrd" -> a.cmrd [] space = "ibrd" -> a.ibrd
    [] space = "card" -> a.card

-----------------------------------------------------------------------------
(***************************************************************************)
(* The registers of a class.  A bandwidth register has four lanes, one for *)
(* each memory region of a set of four; writing one keeps the other three. *)
(***************************************************************************)
get_clos_addr_by_region(region, clos) ==
  (region \div 4) * BYTES_PER_REGION_SET + clos * RDT_REG_SIZE

Lanes == 0 .. 3
\* The lanes that a write for a region changes.
M_set_value(region) == {l \in Lanes : l >= region}
set_clos_region_value(region) == {region}
get_clos_region_value(word, region) == word[region]

\* A cache mask is written to every page of the block and read from the first.
cbm_addr(card, clos, page) == card.offset + clos * RDT_REG_SIZE + PAGE_SIZE * page
cbm_pages(card, clos) == {cbm_addr(card, clos, p) : p \in 0 .. (card.card - 1)}

-----------------------------------------------------------------------------
(***************************************************************************)
(* The counters of an RMID.  A copy is refused when a piece of it leaves   *)
(* the block, after the pieces before it were copied.                      *)
(***************************************************************************)
Copy(ret, at) == [ret |-> ret, at |-> at]

copy_generic_rmid_range(first, last, clump, stride, offset, size) ==
  LET Piece(q) ==
        LET from == Max({first, q * clump})
            to == Min({last, q * clump + clump - 1})
        IN [i \in 1 .. (to - from + 1) |->
              q * stride + offset + ((from % clump) + i - 1) * RDT_REG_SIZE]
      fits(p) == Last(p) + RDT_REG_SIZE <= size
      pieces == [n \in 1 .. ((last \div clump) - (first \div clump) + 1) |->
                   Piece((first \div clump) + n - 1)]
      out == {n \in DOMAIN pieces : ~fits(pieces[n])}
  IN IF clump = 0 \/ stride = 0 \/ size = 0 \/ first > last THEN Copy("param", <<>>)
     ELSE IF out = {} THEN Copy("ok", FlattenSeq(pieces))
     ELSE Copy("param", FlattenSeq(SubSeq(pieces, 1, Min(out) - 1)))

get_l3_cmt_rmid_range_v1(a, first, last) ==
  copy_generic_rmid_range(first, last, a.clump, a.stride, 0, a.cmrc * PAGE_SIZE)
get_iol3_cmt_rmid_range_v1(a, first, last) ==
  copy_generic_rmid_range(first, last, a.clump, PAGE_SIZE, a.offset, a.cmrd * PAGE_SIZE)
get_total_iol3_mbm_rmid_range_v1(a, first, last) ==
  copy_generic_rmid_range(first, last, a.clump, PAGE_SIZE, a.total, a.ibrd * PAGE_SIZE)
get_miss_iol3_mbm_rmid_range_v1(a, first, last) ==
  copy_generic_rmid_range(first, last, a.clump, PAGE_SIZE, a.miss, a.ibrd * PAGE_SIZE)

\* Memory bandwidth: RMIDs are dealt in eights to four runs of pages, and in
\* each run a region has half a page.  A range is copied as if it never left
\* its eight; every caller asks for one RMID.
M_mbm_offset(region, rmid) ==
  (((rmid % 32) \div 8) * PAGE_SIZE) + (((rmid \div 32) * 8 + (rmid % 8)) * RDT_REG_SIZE)
     + region * MBM_REGION_SIZE
mbm_offset(region, rmid) ==
  (((rmid % 32) \div 8) * 4 * PAGE_SIZE)
     + (((rmid \div 32) * 8 + (rmid % 8)) * RDT_REG_SIZE) + region * MBM_REGION_SIZE
get_l3_mbm_region_rmid_range_v1(a, region, first, last) ==
  LET at == mbm_offset(region, first)
      n == last - first + 1
  IN CASE a.mmrc = 0 \/ first > last -> Copy("param", <<>>)
       [] region < 0 \/ region >= PQOS_MAX_MEM_REGIONS -> Copy("error", <<>>)
       [] at + n * RDT_REG_SIZE > a.mmrc * PAGE_SIZE -> Copy("param", <<>>)
       [] OTHER -> Copy("ok", [i \in 1 .. n |-> at + (i - 1) * RDT_REG_SIZE])

\* The entry of the correction-factor list that scales the value of an RMID;
\* -1 when the value is not corrected.
factor(a, rmid) ==
  CASE a.factors = 0 -> -1 [] a.factors = 1 -> 0 [] OTHER -> rmid

-----------------------------------------------------------------------------
(***************************************************************************)
(* Dumps.  What a dump has printed survives the error that ends it.        *)
(***************************************************************************)
Out(ret, shown) == [ret |-> ret, shown |-> shown]

\* What s[i] gives for every i in turn, until one of them is not "ok".
UntilError(s) ==
  LET bad == {i \in DOMAIN s : s[i].ret # "ok"}
      n == IF bad = {} THEN Len(s) ELSE Min(bad)
  IN Out(IF bad = {} THEN "ok" ELSE s[n].ret, FlattenSeq([i \in 1 .. n |-> s[i].shown]))

\* print_hex_dump: sixteen bytes or two quad-words a line; the bytes of an
\* element backwards unless little-endian was asked for.
hex_line(elems, per, i) == Min({per, elems - i * per})
print_hex_dump(from, elems, width, le) ==
  LET per == IF width = 8 THEN 2 ELSE 16
      Byte(e, k) == from + e * width + (IF le THEN k - 1 ELSE width - k)
      Line(i) == [n \in 1 .. (hex_line(elems, per, i) * width) |->
                    Byte(i * per + (n - 1) \div width, ((n - 1) % width) + 1)]
  IN [i \in 1 .. ((elems + per - 1) \div per) |-> Line(i - 1)]

dump_mmio_range(size, offset, length, width, le) ==
  LET available == size \div width
      n == IF length = 0 THEN available - offset ELSE length
  IN IF width \notin {1, 8} \/ offset >= available \/ n > available - offset
     THEN Out("param", <<>>)
     ELSE Out("ok", print_hex_dump(offset * width, n, width, le))

\* One space of one domain; the heading is printed before the range is refused.
mmio_dump_space(a, d) ==
  LET r == dump_mmio_range(Pages(a, d.space) * PAGE_SIZE, d.offset, d.length,
                           d.width, d.le)
  IN Out(r.ret, <<[domain |-> a.domain, space |-> d.space, lines |-> r.shown]>>)

mmio_dump(d) ==
  LET dump(domain) ==
        LET c == get_cpu_agent_idx_by_domain_id(domain)
            v == get_dev_agent_idx_by_domain_id(domain)
        IN CASE c # 0 /\ v = 0 /\ d.space \in CpuSpaces -> mmio_dump_space(CpuAgents[c], d)
             [] c = 0 /\ v # 0 /\ d.space \in DevSpaces -> mmio_dump_space(DevAgents[v], d)
             [] OTHER -> Out("error", <<>>)
  IN IF d.domains = <<>> \/ d.space \notin CpuSpaces \cup DevSpaces
     THEN Out("param", <<>>)
     ELSE UntilError([n \in 1 .. Len(d.domains) |-> dump(d.domains[n])])

(***************************************************************************)
(* mmio_dump_rmids: for every domain (and region) the RMIDs in the order   *)
(* asked for.                                                              *)
(***************************************************************************)
Counter(a, type, region, rmid) ==
  CASE type = "l3" -> get_l3_cmt_rmid_range_v1(a, rmid, rmid)
    [] type = "mbm" -> get_l3_mbm_region_rmid_range_v1(a, region, rmid, rmid)
    [] type = "io-l3" -> get_iol3_cmt_rmid_range_v1(a, rmid, rmid)
    [] type = "io-total" -> get_total_iol3_mbm_rmid_range_v1(a, rmid, rmid)
    [] type = "io-miss" -> get_miss_iol3_mbm_rmid_range_v1(a, rmid, rmid)
Corrected == {"mbm", "io-total", "io-miss"}

dump_rmids_of(d, a, region) ==
  LET dump(rmid) ==
        LET c == Counter(a, d.type, region, rmid)
            line == [domain |-> a.domain, region |-> region, rmid |-> rmid, at |-> c.at,
                     factor |-> IF d.upscale /\ d.type \in Corrected
                                THEN factor(a, rmid) ELSE -1]
        IN Out(c.ret, IF c.ret = "ok" THEN <<line>> ELSE <<>>)
  IN UntilError([n \in 1 .. Len(d.rmids) |-> dump(d.rmids[n])])

mmio_dump_rmids(d) ==
  LET cpu == d.type \in {"l3", "mbm"}
      regions == IF d.type = "mbm" THEN d.regions ELSE <<0>>
      dump(domain) ==
        LET i == IF cpu THEN get_cpu_agent_idx_by_domain_id(domain)
                 ELSE get_dev_agent_idx_by_domain_id(domain)
        IN IF i = 0 THEN Out("error", <<>>)
           ELSE UntilError([n \in 1 .. Len(regions) |->
                  dump_rmids_of(d, IF cpu THEN CpuAgents[i] ELSE DevAgents[i], regions[n])])
      known == /\ Len(d.regions) \in 1 .. mmio_get_num_mem_regions
               /\ \A i \in DOMAIN d.regions : d.regions[i] \in 0 .. (mmio_get_num_mem_regions - 1)
  IN IF d.domains = <<>> \/ d.rmids = <<>> THEN Out("param", <<>>)
     ELSE IF d.type = "mbm" /\ mmio_get_num_mem_regions = 0 THEN Out("resource", <<>>)
     ELSE IF d.type = "mbm" /\ ~known THEN Out("param", <<>>)
     ELSE UntilError([n \in 1 .. Len(d.domains) |-> dump(d.domains[n])])

-----------------------------------------------------------------------------
(***************************************************************************)
(* The utility's side (pqos/dump.c, dump_rmids.c): lists from the command  *)
(* line; sockets become domains by the position of their agents in ERDT.   *)
(* "exit" ends the utility.  A list not given is empty.                    *)
(***************************************************************************)
MAX_DOMAIN_IDS == 128
MAX_DOMAINS == 65535
MAX_RMIDS == 1024

\* What the utility takes from a list option; <<>> both when it was not given.
Parsed(list, max, bound) ==
  IF list = <<>> THEN Table(<<>>) ELSE NumberList(list, max, bound)

get_socket_domain_ids(socket, agents, per) ==
  IF (socket + 1) * per > Len(agents) THEN Gone(Table(<<>>))
  ELSE Table([i \in 1 .. per |-> agents[socket * per + i].domain])

dump_mmio_regs(o) ==
  LET sockets == Parsed(o.sockets, MAX_DOMAIN_IDS, MAX_DOMAINS)
      domains == Parsed(o.domains, MAX_DOMAIN_IDS, MAX_DOMAINS)
      cpu == o.space \in CpuSpaces
      of == [i \in 1 .. Len(sockets.tab) |->
               IF cpu THEN get_socket_domain_ids(sockets.tab[i], CpuAgents, CpuPerSocket)
               ELSE get_socket_domain_ids(sockets.tab[i], DevAgents, DevPerSocket)]
      named == IF domains.tab # <<>> THEN domains
               ELSE [ok |-> \A i \in DOMAIN of : of[i].ok,
                     tab |-> FlattenSeq([i \in 1 .. Len(of) |-> of[i].tab])]
  IN IF ~sockets.ok \/ ~domains.ok \/ (sockets.tab = <<>> /\ domains.tab = <<>>)
          \/ o.space = "none" \/ ~named.ok
     THEN Out("exit", <<>>)
     ELSE mmio_dump([domains |-> named.tab, space |-> o.space, offset |-> o.offset,
                     length |-> o.length, width |-> o.width, le |-> o.le])

dump_rmid_regs(o) ==
  LET domains == Parsed(o.domains, MAX_DOMAIN_IDS, MAX_DOMAINS)
      rmids == Parsed(o.rmids, MAX_RMIDS, MAX_RMIDS)
      regions == IF o.regions = <<>> THEN Table(<<>>)
                 ELSE pqos_parse_mem_regions(o.regions, PQOS_MAX_MEM_REGIONS)
      n == mmio_get_num_mem_regions
      all == [i \in 1 .. n |-> i - 1]
  IN IF \/ ~domains.ok \/ ~rmids.ok \/ ~regions.ok
        \/ domains.tab = <<>> \/ rmids.tab = <<>> \/ o.type = "none" THEN Out("exit", <<>>)
     ELSE IF (o.type = "mbm" \/ regions.tab # <<>>) /\ n = 0 THEN Out("resource", <<>>)
     ELSE IF \E i \in DOMAIN regions.tab : regions.tab[i] >= n THEN Out("param", <<>>)
     ELSE mmio_dump_rmids(
            [type |-> o.type, domains |-> domains.tab, rmids |-> rmids.tab,
             regions |-> IF regions.tab # <<>> THEN regions.tab ELSE all,
             upscale |-> o.upscale])

\* pqos_print_dump_info lists the spaces of every agent that has them.
pqos_print_dump_info ==
  LET rows(agents, spaces) ==
        {[domain |-> agents[i].domain, space |-> s, size |-> Pages(agents[i], s) * PAGE_SIZE] :
           i \in DOMAIN agents, s \in spaces}
      all == rows(CpuAgents, CpuSpaces) \cup rows(DevAgents, DevSpaces)
      listed == {r \in all : r.size # 0}
  IN Out(IF listed = {} THEN "unavailable" ELSE "ok", listed)

=============================================================================
