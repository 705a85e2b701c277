------------------------------ MODULE MmioMon ------------------------------
(***************************************************************************)
(* Monitoring groups on the MMIO interface (lib/mmio_monitoring.c).  Cores *)
(* and I/O channels are tagged in the registers that HwMon describes, and  *)
(* reset, initialisation and the end of a process are HwMon's.  What       *)
(* differs is where RMIDs come from: the ERDT table puts every core in a   *)
(* CPU domain and every channel in a device domain, each with RMIDs of its *)
(* own, so channels do not compete with cores, and the highest RMID is one *)
(* that can be used.                                                       *)
(***************************************************************************)
EXTENDS HwMon

CONSTANTS
  CpuDomain,  \* CpuDomain[c]: RMDD domain of a core (cores_domains.c)
  CpuMax,     \* CpuMax[d]: max_rmids of a CPU domain
  DevDomain,  \* DevDomain[h]: RMDD domain of a channel, NoPlace when ERDT lacks it
  DevMax      \* DevMax[d]: max_rmids of a device domain

\* A CPU domain is one L3 cluster.
ASSUME DomainAssumption ==
  /\ \A c, d \in Core : CpuDomain[c] = CpuDomain[d] <=> Cluster[c] = Cluster[d]
  /\ \A c \in Core : CpuMax[CpuDomain[c]] \in Nat
  /\ \A h \in Chan : DevDomain[h] = NoPlace \/ DevMax[DevDomain[h]] \in Nat
  /\ SncNum = 1

Domains == {CpuDomain[c] : c \in Core} \cup {DevDomain[h] : h \in Chan}

\* The RMIDs of a device domain are what ERDT says, whatever CPUID announces.
MmioCtx == [domain : Domains, rmid : Nat]

MmioGroup == [cores : SUBSET Core, channels : SUBSET Chan, event : Asked \cup {{}},
              ctx : SUBSET MmioCtx]

MmioTypeOK ==
  /\ assoc \in [Core -> Rmid] /\ pmu \subseteq Core
  /\ chan \in [Chan -> Nat \cup {Off}]
  /\ io \subseteq Clusters /\ snc \subseteq Clusters /\ up \in BOOLEAN
  /\ cap \in [iordt_on : BOOLEAN, snc_mode : {"LOCAL", "TOTAL"}]
  /\ group \in [Group -> MmioGroup]
  /\ lost \subseteq Core \cup Chan

-----------------------------------------------------------------------------
(***************************************************************************)
(* Cores.                                                                  *)
(***************************************************************************)
\* mmio_mon_start_counter(): the counters a group of cores has.
MmioEvents == {"l3", "total"}

\* mmio_mon_assoc_unused() looks at the cores of the cluster only.
CoresUse(k) == {assoc[c] : c \in {d \in Core : Cluster[d] = k}}

FreeForCore(c, E) ==
  {r \in Rmid : 1 <= r /\ r <= EventMax(E) - 1 /\ r <= CpuMax[CpuDomain[c]]}
    \ CoresUse(Cluster[c])

\* "CORES in the same cluster/numa node share RMID"
RmidOf(c, E) == Lowest(FreeForCore(c, E))
TaggedCores(S, E) == [c \in Core |-> IF c \in S THEN RmidOf(c, E) ELSE assoc[c]]
CoreContexts(S, E) == {[domain |-> CpuDomain[c], rmid |-> RmidOf(c, E)] : c \in S}

\* mmio_mon_start_cores() on cores S for events E: performance counters first,
\* then RMIDs.  When some event asked for is none that can be started here the
\* call fails, the counters are stopped, and the RMIDs stay.
mmio_mon_start_cores(g, S, E) ==
  LET valid == Idle(S) /\ Listed(E)
      want  == E \cap MmioEvents
      found == \A c \in S : FreeForCore(c, want) # {}
      all   == E \subseteq MmioEvents \cup {"pmu"}
  IN /\ up /\ g \notin Live
     /\ UNCHANGED <<chan, io, snc, cap, up>>
     /\ \/ /\ ~valid
           /\ UNCHANGED <<assoc, pmu, group, lost>>
        \/ /\ valid /\ ~found
           /\ pmu' = PmuStopped(S, {}, E)
           /\ UNCHANGED <<assoc, group, lost>>
        \/ /\ valid /\ found /\ ~all
           /\ assoc' = TaggedCores(S, want)
           /\ pmu' = PmuStopped(S, {}, E)
           /\ lost' = lost \cup S
           /\ UNCHANGED group
        \/ /\ valid /\ found /\ all
           /\ assoc' = TaggedCores(S, want)
           /\ pmu' = pmu \cup WithPmu(S, E)
           /\ group' = [group EXCEPT ![g] = [cores |-> S, channels |-> {}, event |-> E,
                                            ctx |-> CoreContexts(S, want)]]
           /\ UNCHANGED lost

\* A register does not respond: every core is given RMID0 again, on the cores
\* that respond.
mmio_mon_start_cores_fails(S, E) ==
  /\ up /\ Live # Group /\ Can("msr") /\ Idle(S) /\ Listed(E)
  /\ \E U \in SUBSET S, P \in SUBSET WithPmu(S, E) :
       /\ U # S
       /\ U # {} => \A c \in S : FreeForCore(c, E \cap MmioEvents) # {}
       /\ assoc' = TaggedCores(U, E \cap MmioEvents)
       /\ pmu' = (pmu \ WithPmu(S, E)) \cup P
       /\ lost' = lost \cup U \cup P
  /\ UNCHANGED <<chan, io, snc, cap, up, group>>

-----------------------------------------------------------------------------
(***************************************************************************)
(* Channels.                                                               *)
(***************************************************************************)
\* get_dev_rmid_list(): the channels of a device domain that can be tagged.
\* Their registers are read one after the other, and the search ends with
\* the first that cannot be.
ChannelsOf(d) == {h \in Tagging : DevDomain[h] = d}
DomainUnreadable(d) == \E h \in ChannelsOf(d) : chan[h] = Off

\* Mutant: the search starts with the RMID of everything that is not monitored
\* and forgets what the registers hold.
M_FreeForDomain(d) == 1 .. DevMax[d]
FreeForDomain(d) == (1 .. DevMax[d]) \ {chan[h] : h \in ChannelsOf(d)}

\* The channel registers of a start that succeeds on the channels H.
TaggedIn(H) ==
  [h \in Chan |-> IF h \in H THEN Lowest(FreeForDomain(DevDomain[h])) ELSE chan[h]]

\* Mutant: the channels written before the error keep their RMID.
M_returned_channels(H, U) ==
  LET written == {h \in H : DevDomain[h] # NoPlace /\ FreeForDomain(DevDomain[h]) # {}}
  IN TaggedIn(written)
\* "Assign channels back to RMID0"; those of U do not respond.
returned_channels(H, U) ==
  [h \in Chan |-> IF h \in H \ U THEN Cleared(h) ELSE TaggedIn(U)[h]]

\* mmio_mon_start_channels() on channels H.  Counters of the cores are refused
\* one at a time; a combination of them is let through.
mmio_mon_start_channels(g, H, E) ==
  LET refused == (Cardinality(E) = 1 /\ E \subseteq CounterEvents) \/ ~cap.iordt_on
      valid   == ~refused /\ H \subseteq Tagging /\ IdleChannels(H)
      domains == {DevDomain[h] : h \in H}
      found   == /\ NoPlace \notin domains
                 /\ \A d \in domains : ~DomainUnreadable(d) /\ FreeForDomain(d) # {}
  IN /\ up /\ g \notin Live
     /\ UNCHANGED <<assoc, pmu, io, snc, cap, up>>
     /\ \/ /\ ~valid \/ Can("mmio")
           /\ UNCHANGED <<chan, group, lost>>
        \/ \E U \in SUBSET H :
           /\ valid
           /\ Can("mmio") \/ ~found
           /\ U # {} => Can("mmio") /\ found /\ U # H
           /\ chan' = returned_channels(H, U)
           /\ lost' = lost \cup U
           /\ UNCHANGED group
        \/ /\ valid /\ found
           /\ chan' = TaggedIn(H)
           /\ group' = [group EXCEPT ![g] =
                [cores |-> {}, channels |-> H, event |-> E,
                 ctx |-> {[domain |-> d, rmid |-> Lowest(FreeForDomain(d))] : d \in domains}]]
           /\ UNCHANGED lost

-----------------------------------------------------------------------------
\* mmio_mon_stop(): "Associate cores from the group back with RMID0", going on
\* when one of them, F, or one of the channels, G, does not respond.
mmio_mon_stop(g) ==
  /\ up /\ g \in Live
  /\ \E F \in SUBSET group[g].cores, G \in SUBSET group[g].channels :
       /\ F # {} => Can("msr")
       /\ G # {} => Can("mmio")
       /\ assoc' = [c \in Core |-> IF c \in Returned(group[g].cores) \ F THEN RMID0 ELSE assoc[c]]
       /\ chan' = ClearedAll(group[g].channels \ G)
       /\ pmu' = PmuStopped(group[g].cores, F, group[g].event)
       /\ lost' = lost \cup F \cup G
  /\ group' = [group EXCEPT ![g] = NoGroup]
  /\ UNCHANGED <<io, snc, cap, up>>

\* The process dies, perhaps between two registers of a group it starts.
MmioDie ==
  /\ up /\ Can("crash")
  /\ \E S \in SUBSET Core : assoc' = [c \in Core |->
       IF c \in S /\ assoc[c] = RMID0 /\ FreeForCore(c, {}) # {} THEN RmidOf(c, {}) ELSE assoc[c]]
  /\ lost' = {c \in Core : assoc'[c] # RMID0 \/ c \in pmu}
                \cup {h \in Chan : chan[h] \notin {RMID0, Off}}
  /\ up' = FALSE
  /\ group' = [g \in Group |-> NoGroup]
  /\ UNCHANGED <<pmu, chan, io, snc, cap>>

MmioNext ==
  \/ \E S \in (SUBSET Core) \ {{}}, E \in Asked :
       \/ \E g \in Group : mmio_mon_start_cores(g, S, E)
       \/ mmio_mon_start_cores_fails(S, E)
  \/ \E g \in Group, H \in (SUBSET Chan) \ {{}}, E \in Asked : mmio_mon_start_channels(g, H, E)
  \/ \E g \in Group : mmio_mon_stop(g)
  \/ \E cfg \in Configs : mon_reset(cfg)
  \/ MmioDie
  \/ pqos_init

MmioSpec == Init /\ [][MmioNext]_vars

-----------------------------------------------------------------------------
(***************************************************************************)
(* Properties.                                                             *)
(***************************************************************************)
\* Two groups monitored at the same time never count under the same RMID of a
\* domain, although a start only looks at the registers of the moment and
\* though a start before it may have failed between two registers.  A domain
\* of ERDT may have both cores and devices, each with counters of their own.
DomainRmidExclusive ==
  \A g, h \in Live :
    g # h /\ (group[g].cores = {} <=> group[h].cores = {}) =>
      group[g].ctx \cap group[h].ctx = {}

\* Every core and channel of a group carries the RMID that the group polls in
\* the domain of that core or channel, and nothing else carries it there: what
\* is counted is the group, all of it and only it.
CountedExactly ==
  \A g \in Live : \A x \in group[g].ctx :
    /\ \A c \in group[g].cores : CpuDomain[c] = x.domain => assoc[c] = x.rmid
    /\ \A h \in group[g].channels : DevDomain[h] = x.domain => chan[h] = x.rmid
    /\ \A c \in Core : group[g].cores # {} /\ CpuDomain[c] = x.domain /\ assoc[c] = x.rmid =>
         c \in group[g].cores
    /\ \A h \in Tagging : group[g].channels # {} /\ DevDomain[h] = x.domain /\ chan[h] = x.rmid =>
         h \in group[g].channels

\* A core or channel is tagged only for a group that is monitored, unless a
\* process died, a register failed, or a start met an event that cannot be
\* started (the RMIDs it wrote stay).  An error in starting channels returns
\* all of them.
NothingLeftTagged ==
  /\ \A c \in Core : assoc[c] # RMID0 \/ c \in pmu =>
       c \in lost \/ \E g \in Live : c \in group[g].cores
  /\ cap.iordt_on => \A h \in Tagging : chan[h] \in {RMID0, Off} \/
       h \in lost \/ \E g \in Live : h \in group[g].channels

\* The RMID of a group is one the domain has, for cores also one that every
\* event of the group has.
RmidInDomain ==
  \A g \in Live : \A x \in group[g].ctx :
    /\ group[g].cores # {} => /\ x.rmid \in 1 .. CpuMax[x.domain]
                              /\ \A e \in group[g].event \cap MmioEvents : x.rmid < MaxRmid[e]
    /\ group[g].channels # {} => x.rmid \in 1 .. DevMax[x.domain]

\* A group of the MMIO interface counts itself only: it has RMIDs of its own,
\* which exist in their domains, and every core and channel of it and no other
\* carries them.
CountsItself == MmioTypeOK /\ DomainRmidExclusive /\ CountedExactly /\ RmidInDomain

=============================================================================
