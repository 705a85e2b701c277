------------------------------- MODULE HwMon -------------------------------
(***************************************************************************)
(* Monitoring groups on the MSR interface: lib/hw_monitoring.c,            *)
(* lib/common_monitoring.c, the RMID tables of lib/iordt.c and the         *)
(* pqos_mon_start/stop/reset entries of lib/api.c.                         *)
(*                                                                         *)
(* A group of cores, or of I/O channels, is monitored by tagging it with a *)
(* resource monitoring id (RMID).  No table of the library says which      *)
(* RMIDs are in use: every start reads the registers of the cluster and    *)
(* takes the lowest RMID it does not find there.  So what keeps two groups *)
(* apart is that the registers stay what the groups believe they are.      *)
(* Every call holds the API lock and is one step; the order of the lists   *)
(* an application passes matters only where a call stops half way, which   *)
(* is modelled as any subset of the list having been written.              *)
(***************************************************************************)
EXTENDS Integers, FiniteSets

CONSTANTS
  Core,       \* logical cores
  Cluster,    \* Cluster[c]: id of the L3 cluster, and socket, of core c
  Numa,       \* Numa[c]: NUMA node of core c within its socket
  SncNum,     \* snc_num: NUMA nodes of a socket, 1 without sub-NUMA clusters
  RmidNum,    \* max_rmid: number of RMIDs
  MaxRmid,    \* MaxRmid[e]: max_rmid of each monitoring event e
  IoEvents,   \* events that can be monitored on I/O channels
  Chan,       \* I/O channels
  Tagging,    \* the channels with rmid_tagging
  Place,      \* Place[h]: socket of channel h, or NoPlace
  Ref,        \* channels whose RMID register has an enable bit
  Boot,       \* RMIDs the tables of the channels may hold at first
  Group,      \* structures pqos_mon_data of the application
  Asked,      \* the combinations of events an application asks for
  Configs,    \* the configurations an application asks a reset for
  Faults      \* the circumstances a run admits, a subset of FaultKinds

(***************************************************************************)
(* "msr"   : reading or writing a register fails (a core went offline)     *)
(* "mmio"  : mapping the table of an I/O channel fails                     *)
(* "crash" : the process dies, possibly inside pqos_mon_start()            *)
(* "live"  : pqos_mon_reset() is called while groups are monitored         *)
(***************************************************************************)
FaultKinds == {"msr", "mmio", "crash", "live"}

NoPlace == -1

\* An enable bit that is clear: the register holds no RMID.
Off == -1

RMID0 == 0

Rmid == 0 .. RmidNum - 1

Clusters == {Cluster[c] : c \in Core}

CounterEvents == {"l3", "local", "total", "remote"}

\* The RMIDs of one NUMA node.
RmidNuma == RmidNum \div SncNum

Config == [io : {"ON", "OFF", "ANY"}, snc : {"LOCAL", "TOTAL", "ANY"}]

Ctx == [cluster : Clusters, numa : 0 .. SncNum - 1, rmid : Rmid, quiet : BOOLEAN]

GroupData == [cores : SUBSET Core, channels : SUBSET Chan, event : Asked \cup {{}},
              ctx : SUBSET Ctx]

\* A structure that does not carry GROUP_VALID_MARKER: it is zero.
NoGroup == [cores |-> {}, channels |-> {}, event |-> {}, ctx |-> {}]

ASSUME TopologyAssumption ==
  /\ Core # {} /\ Core \cap Chan = {}
  /\ Cluster \in [Core -> Nat]
  /\ SncNum \in Nat \ {0}
  /\ Numa \in [Core -> 0 .. SncNum - 1]
  /\ Place \in [Chan -> Clusters \cup {NoPlace}]
  /\ Tagging \subseteq Chan /\ Ref \subseteq Chan

\* CPUID 0xf.1 gives an event at most the RMIDs that CPUID 0xf.0 announces.
ASSUME RmidAssumption ==
  /\ RmidNum \in Nat \ {0}
  /\ \A e \in DOMAIN MaxRmid : MaxRmid[e] \in 1 .. RmidNum
  /\ IoEvents \subseteq DOMAIN MaxRmid
  /\ Boot \subseteq Rmid

ASSUME InputAssumption ==
  /\ {} \notin Asked
  /\ Configs \subseteq Config /\ Faults \subseteq FaultKinds

VARIABLES
  assoc,     \* RMID field of the PQR_ASSOC register of each core
  pmu,       \* cores whose IA32 performance counters are enabled
  chan,      \* RMID register of each I/O channel
  io,        \* clusters whose I/O monitoring enable bit is set
  snc,       \* sockets whose SNC bit is set: monitoring of the local node
  cap,       \* cached capabilities: iordt_on, snc_mode
  up,        \* the library is initialised
  group,     \* the monitoring groups
  lost       \* cores and channels a dead process or a failed call left tagged

vars == <<assoc, pmu, chan, io, snc, cap, up, group, lost>>

hw == <<assoc, pmu, chan, io, snc>>

Live == {g \in Group : group[g] # NoGroup}

TypeOK ==
  /\ assoc \in [Core -> Rmid]
  /\ pmu \subseteq Core
  /\ chan \in [Chan -> Rmid \cup {Off}]
  /\ \A h \in Chan \ Ref : chan[h] # Off
  /\ io \subseteq Clusters /\ snc \subseteq Clusters
  /\ cap \in [iordt_on : BOOLEAN, snc_mode : {"LOCAL", "TOTAL"}]
  /\ up \in BOOLEAN
  /\ group \in [Group -> GroupData]
  /\ lost \subseteq Core \cup Chan

\* A machine after power on.  The tables of the channels are memory whose
\* content is not specified.
Init ==
  /\ assoc = [c \in Core |-> RMID0]
  /\ pmu = {}
  /\ chan \in {f \in [Chan -> Boot \cup {Off}] : \A h \in Chan \ Ref : f[h] # Off}
  /\ io = {}
  /\ snc \in {{}, Clusters}
  /\ cap = [iordt_on |-> FALSE, snc_mode |-> "LOCAL"]
  /\ up = FALSE
  /\ group = [g \in Group |-> NoGroup]
  /\ lost = {}

Can(fault) == fault \in Faults

(***************************************************************************)
(* A definition named M_... is a mutated form of the one after it: a bug   *)
(* the code could have had, used to show that a property would notice.     *)
(***************************************************************************)
-----------------------------------------------------------------------------
(* RMIDs *)

\* hw_mon_start_counter(): ctx_event, what the RMID is needed for.
CtxEvent(E) ==
  (E \cap CounterEvents) \cup (IF "remote" \in E THEN {"local", "total"} ELSE {})

\* rmid_get_event_max(): the fewest RMIDs any of the events has.
EventMax(E) ==
  LET all == {RmidNum} \cup {MaxRmid[e] : e \in E \cap DOMAIN MaxRmid}
  IN CHOOSE m \in all : \A n \in all : m <= n

\* The channels whose RMIDs count in a cluster: a channel without NUMA node
\* counts everywhere.
ChannelsAt(k) == {h \in Tagging : Place[h] \in {k, NoPlace}}

\* Mutant: only the RMIDs of cores are collected.
M_UsedRmids(k) == {assoc[c] : c \in {d \in Core : Cluster[d] = k}}

\* hw_mon_assoc_unused(): the RMIDs found in the registers of a cluster.
UsedRmids(k) ==
  {assoc[c] : c \in {d \in Core : Cluster[d] = k}}
    \cup (IF cap.iordt_on THEN {chan[h] : h \in ChannelsAt(k)} ELSE {})

\* iordt_mon_assoc_read() of a channel whose enable bit is clear fails, and
\* with it the whole search.
Unreadable(k) == cap.iordt_on /\ \E h \in ChannelsAt(k) : chan[h] = Off

\* The RMIDs hw_mon_assoc_unused() may hand out between lo and hi.
FreeRmids(k, E, lo, hi) ==
  {r \in Rmid : 1 <= r /\ lo <= r /\ r <= hi /\ r <= EventMax(E) - 1} \ UsedRmids(k)

Lowest(S) == CHOOSE r \in S : \A q \in S : r <= q

\* hw_mon_start_counter(): "When SNC in default mode RMID's are assigned on
\* numa node basis".
ByNuma == SncNum > 1 /\ cap.snc_mode = "LOCAL"

NodeOf(c) == IF ByNuma THEN Numa[c] ELSE 0

Lo(n) == RmidNuma * n + 1

Hi(n) == RmidNuma * (n + 1) - 1

\* The (cluster, node) pairs of a set of cores: each gets one RMID.
KeysOf(S) == {[cluster |-> Cluster[c], numa |-> NodeOf(c)] : c \in S}

FreeFor(key, E) == FreeRmids(key.cluster, E, Lo(key.numa), Hi(key.numa))

RmidFor(key, E) == Lowest(FreeFor(key, E))

\* The poll contexts: one for each pair and, "In shared mode - monitor all
\* numa nodes", one more for each further node.
Contexts(S, E) ==
  {[cluster |-> k.cluster, numa |-> k.numa,
    rmid |-> RmidFor(k, E) + n * RmidNuma, quiet |-> n > 0] :
     k \in KeysOf(S), n \in IF cap.snc_mode = "TOTAL" THEN 0 .. SncNum - 1 ELSE {0}}

\* core2rmid[]
CoreRmid(c, E) == RmidFor([cluster |-> Cluster[c], numa |-> NodeOf(c)], E)

Tagged(S, E) == [c \in Core |-> IF c \in S THEN CoreRmid(c, E) ELSE assoc[c]]

-----------------------------------------------------------------------------
(* Starting and stopping *)

\* hw_mon_events_valid(): the capabilities list the events.
Listed(E) == E \subseteq DOMAIN MaxRmid

\* "If not RMID0 then it is already monitored"
Idle(S) == \A c \in S : assoc[c] = RMID0

WithPmu(S, E) == IF "pmu" \in E THEN S ELSE {}

\* Mutant: the RMID is written to one core of each cluster only.
M_Associate(S, E) ==
  LET heads == {c \in S : \A d \in S : Cluster[d] = Cluster[c] => c <= d}
  IN assoc' = Tagged(heads, E)

\* "Associate requested cores with the allocated RMID"
Associate(S, E) == assoc' = Tagged(S, E)

\* The counters of S after mon_stop_perf() when the cores F do not respond.
PmuStopped(S, F, E) == IF "pmu" \in E THEN pmu \ (S \ F) ELSE pmu

\* pqos_mon_start(), pqos_mon_start_cores(): hw_mon_start_cores() on cores S
\* for events E.
mon_start_cores(g, S, E) ==
  LET valid  == Idle(S) /\ Listed(E)
      usable == \A k \in KeysOf(S) : ~Unreadable(k.cluster)
      found  == \A k \in KeysOf(S) : FreeFor(k, CtxEvent(E)) # {}
  IN /\ up /\ g \notin Live
     /\ \/ /\ ~valid               \* PARAM or RESOURCE
           /\ UNCHANGED vars
        \/ /\ valid /\ ~(usable /\ found)  \* the counters are stopped again
           /\ pmu' = PmuStopped(S, {}, E)
           /\ UNCHANGED <<assoc, chan, io, snc, cap, up, group, lost>>
        \/ /\ valid /\ usable /\ found
           /\ Associate(S, CtxEvent(E))
           /\ pmu' = pmu \cup WithPmu(S, E)
           /\ group' = [group EXCEPT ![g] =
                [cores |-> S, channels |-> {}, event |-> E,
                 ctx |-> Contexts(S, CtxEvent(E))]]
           /\ UNCHANGED <<chan, io, snc, cap, up, lost>>

\* Register accesses of hw_mon_start_cores() fail.  What was written is set
\* back "(void)", on the cores that respond: U keep their RMID, and P are left
\* with counters enabled.  Counters that could not all be started are not
\* stopped at all.
mon_start_cores_fails(S, E) ==
  /\ up /\ Live # Group /\ Can("msr") /\ Idle(S) /\ Listed(E)
  /\ \E U \in SUBSET S, P \in SUBSET WithPmu(S, E) :
       /\ U # S
       /\ U # {} => \A k \in KeysOf(S) : /\ ~Unreadable(k.cluster)
                                         /\ FreeFor(k, CtxEvent(E)) # {}
       /\ assoc' = Tagged(U, CtxEvent(E))
       /\ pmu' = (pmu \ WithPmu(S, E)) \cup P
       /\ lost' = lost \cup U \cup P
  /\ UNCHANGED <<chan, io, snc, cap, up, group>>

\* The register of a channel that is given RMID0.
Cleared(h) == IF h \in Ref THEN Off ELSE RMID0

ClearedAll(H) == [h \in Chan |-> IF h \in H THEN Cleared(h) ELSE chan[h]]

\* The search of hw_mon_start_channels() at a socket.
FreeAt(k, E) == FreeRmids(k, E, 0, RmidNum)

IdleChannels(H) == \A h \in H : chan[h] = RMID0

TaggedChannels(H, E) ==
  [h \in Chan |-> IF h \in H THEN Lowest(FreeAt(Place[h], E)) ELSE chan[h]]

\* pqos_mon_start_channels(), pqos_mon_start_dev(): hw_mon_start_channels() on
\* channels H.
mon_start_channels(g, H, E) ==
  LET legal   == cap.iordt_on /\ E \subseteq IoEvents
      valid   == legal /\ H \subseteq Tagging /\ IdleChannels(H)
      sockets == {Place[h] : h \in H}
      placed  == NoPlace \notin sockets
      usable  == placed /\ \A k \in sockets : ~Unreadable(k)
      found   == usable /\ \A k \in sockets : FreeAt(k, E) # {}
  IN /\ up /\ g \notin Live /\ E \subseteq CounterEvents
     /\ \/ /\ ~valid \/ Can("mmio")
           /\ UNCHANGED vars
        \* "Assign channels back to RMID0"; those of U do not respond
        \/ \E U \in SUBSET H :
           /\ valid
           /\ Can("mmio") \/ ~found
           /\ U # {} => Can("mmio") /\ found /\ U # H
           /\ chan' = [h \in Chan |-> IF h \in H \ U THEN Cleared(h)
                                     ELSE TaggedChannels(U, E)[h]]
           /\ lost' = lost \cup U
           /\ UNCHANGED <<assoc, pmu, io, snc, cap, up, group>>
        \/ /\ valid /\ found
           /\ chan' = TaggedChannels(H, E)
           /\ group' = [group EXCEPT ![g] =
                [cores |-> {}, channels |-> H, event |-> E,
                 ctx |-> {[cluster |-> k, numa |-> 0, rmid |-> Lowest(FreeAt(k, E)),
                           quiet |-> FALSE] : k \in sockets}]]
           /\ UNCHANGED <<assoc, pmu, io, snc, cap, up, lost>>

\* Mutant: only the cores of the poll contexts, one for each cluster, are
\* given back.
M_Returned(S) ==
  {c \in S : \A d \in S : Cluster[d] = Cluster[c] => c <= d}

\* "Associate cores from the group back with RMID0"
Returned(S) == S

\* pqos_mon_stop() / hw_mon_stop().  The cores F and the channels G do not
\* respond (a core of a poll context that does not ends the call before it
\* wrote anything); the group is gone all the same.
mon_stop(g) ==
  /\ up /\ g \in Live
  /\ \E F \in SUBSET group[g].cores, G \in SUBSET group[g].channels :
       /\ F # {} => Can("msr")
       /\ G # {} => Can("mmio")
       /\ assoc' = [c \in Core |-> IF c \in Returned(group[g].cores) \ F THEN RMID0 ELSE assoc[c]]
       /\ chan' = ClearedAll(group[g].channels \ G)
       /\ pmu' = PmuStopped(group[g].cores, F, group[g].event)
       /\ lost' = lost \cup F \cup G
  /\ group' = [group EXCEPT ![g] = NoGroup]
  /\ UNCHANGED <<io, snc, cap, up>>

-----------------------------------------------------------------------------
(* Reset, loss of the process and initialisation *)

\* pqos_mon_reset_config(): the setting a configuration asks for.
WantIo(cfg) == CASE cfg.io = "ON" -> TRUE [] cfg.io = "OFF" -> FALSE
                 [] OTHER -> cap.iordt_on

\* The registers after the first loops of mon_reset(), but for the cores F and
\* the channels G that do not respond.
Reset(F, G) ==
  /\ assoc' = [c \in Core |-> IF c \in F THEN assoc[c] ELSE RMID0]
  /\ chan' = IF cap.iordt_on THEN ClearedAll(Tagging \ G) ELSE chan

\* A reset that ends there.
mon_reset_assoc_fails ==
  \E F \in SUBSET Core, G \in SUBSET Tagging :
    /\ F \cup G # {}
    /\ F # {} => Can("msr")
    /\ G # {} => Can("mmio") /\ cap.iordt_on
    /\ Reset(F, G)
    /\ lost' = lost \cap (F \cup G \cup pmu \cup (IF cap.iordt_on THEN {} ELSE Chan))
    /\ UNCHANGED <<pmu, io, snc, cap>>

\* mon_reset_iordt() fails after the clusters B; the capability is not changed.
mon_reset_iordt_fails(cfg) ==
  /\ Can("msr") /\ WantIo(cfg) # cap.iordt_on
  /\ \E B \in SUBSET Clusters : io' = IF WantIo(cfg) THEN io \cup B ELSE io \ B
  /\ Reset({}, {})
  /\ lost' = lost \cap pmu
  /\ UNCHANGED <<pmu, snc, cap>>

\* mon_reset_iordt() and "reset channel assoc - initialize mmio tables", but
\* for the channels G.
SwitchIo(cfg, G) ==
  /\ io' = IF WantIo(cfg) = cap.iordt_on THEN io ELSE IF WantIo(cfg) THEN Clusters ELSE {}
  /\ assoc' = [c \in Core |-> RMID0]
  /\ chan' = IF cap.iordt_on \/ WantIo(cfg) THEN ClearedAll(Tagging \ G) ELSE chan

\* Mutant: the request is taken for the mode whatever it is.
M_SncMode(cfg, B) == cfg.snc

\* _pqos_cap_mon_snc_change(): the cached mode after mon_set_snc_mode() reached
\* the sockets B.
SncMode(cfg, B) == IF B = Clusters THEN cfg.snc ELSE cap.snc_mode

\* The rest of mon_reset(): G is the channels whose tables could not be
\* initialised, B the sockets mon_set_snc_mode() reached.  An error with G is
\* forgotten when an SNC mode is set as well.
mon_reset_configures(cfg) ==
  \E G \in SUBSET Tagging, B \in SUBSET Clusters :
    LET local == cfg.snc = "LOCAL"
        fails == cfg.snc # "ANY" /\ SncNum > 1 /\ B # Clusters
    IN /\ G # {} => Can("mmio") /\ WantIo(cfg) /\ ~cap.iordt_on
       /\ fails => Can("msr")
       /\ cfg.snc = "ANY" \/ SncNum = 1 => B = {}
       /\ SwitchIo(cfg, G)
       /\ snc' = IF local THEN snc \cup B ELSE snc \ B
       /\ cap' = [iordt_on |-> WantIo(cfg),
                  snc_mode |-> SncMode(cfg, B)]
       /\ lost' = (lost \cap pmu) \cup G
       /\ UNCHANGED pmu

\* pqos_mon_reset(), pqos_mon_reset_config(): mon_reset().  Groups that are
\* being monitored are not told.  A platform without I/O monitoring refuses to
\* enable it before anything is written.
mon_reset(cfg) ==
  /\ up
  /\ Live = {} \/ Can("live")
  /\ cfg.io = "ON" => IoEvents # {}
  /\ \/ mon_reset_assoc_fails
     \/ mon_reset_iordt_fails(cfg)
     \/ mon_reset_configures(cfg)
  /\ UNCHANGED <<up, group>>

\* The process dies, perhaps while it tags the cores S of a new group.  The
\* registers stay as they are, the groups are forgotten.
Die ==
  /\ up /\ Can("crash")
  /\ \E S \in SUBSET Core, E \in Asked :
       /\ S # {} => /\ Idle(S) /\ Listed(E)
                    /\ \A k \in KeysOf(S) : /\ ~Unreadable(k.cluster)
                                            /\ FreeFor(k, CtxEvent(E)) # {}
       /\ assoc' = Tagged(S, CtxEvent(E))
       /\ pmu' = pmu \cup WithPmu(S, E)
  /\ lost' = {c \in Core : assoc'[c] # RMID0 \/ c \in pmu'}
                \cup {h \in Chan : chan[h] \notin {RMID0, Off}}
  /\ up' = FALSE
  /\ group' = [g \in Group |-> NoGroup]
  /\ UNCHANGED <<chan, io, snc, cap>>

\* pqos_init(): hw_cap_mon_iordt() and hw_cap_mon_snc_state() refuse registers
\* that differ between the clusters.
pqos_init ==
  LET same == {io, snc} \subseteq {{}, Clusters}
  IN /\ ~up
     /\ up' = same
     /\ cap' = IF ~same THEN cap
               ELSE [iordt_on |-> IoEvents # {} /\ io # {},
                     snc_mode |-> IF SncNum = 1 \/ snc # {} THEN "LOCAL" ELSE "TOTAL"]
     /\ UNCHANGED <<hw, group, lost>>

Next ==
  \/ \E S \in (SUBSET Core) \ {{}}, E \in Asked :
       \/ \E g \in Group : mon_start_cores(g, S, E)
       \/ mon_start_cores_fails(S, E)
  \/ \E g \in Group, H \in (SUBSET Chan) \ {{}}, E \in Asked : mon_start_channels(g, H, E)
  \/ \E g \in Group : mon_stop(g)
  \/ \E cfg \in Configs : mon_reset(cfg)
  \/ Die
  \/ pqos_init

Spec == Init /\ [][Next]_vars

-----------------------------------------------------------------------------
(* Properties *)

\* Of two poll contexts, one of which may be quiet only if both groups are of
\* cores (see RmidExclusive).
Rivals(g, h) ==
  {p \in group[g].ctx \X group[h].ctx :
     /\ p[1].cluster = p[2].cluster
     /\ p[1].quiet \/ p[2].quiet => group[g].channels \cup group[h].channels = {}}

\* Two groups that are monitored at the same time never count under the same
\* RMID in a cluster, though each start only looked at the registers: else
\* each would report the other's cache occupancy and bandwidth as its own.
\* The extra RMIDs of a group in SNC total mode are in no register, so only
\* groups of cores, which stay below RmidNuma, are kept from them.
RmidExclusive ==
  \A g, h \in Live : g # h => \A p \in Rivals(g, h) : p[1].rmid # p[2].rmid

\* Every core and channel of a monitored group carries the RMID that the group
\* polls for it: nothing moved it away behind the group's back.
GroupFollowed ==
  \A g \in Live :
    /\ \A c \in group[g].cores :
         \E x \in group[g].ctx : /\ ~x.quiet
                                /\ x.cluster = Cluster[c] /\ x.numa = NodeOf(c)
                                /\ assoc[c] = x.rmid
    /\ \A h \in group[g].channels :
         \E x \in group[g].ctx : x.cluster = Place[h] /\ chan[h] = x.rmid
    /\ WithPmu(group[g].cores, group[g].event) \subseteq pmu

\* A core or channel is tagged, or a core counts, only for a group that is
\* monitored, unless a process died or a call failed on a register.  Such a
\* core could not be monitored again before a reset.
NothingStray ==
  /\ \A c \in Core : assoc[c] # RMID0 \/ c \in pmu =>
       c \in lost \/ \E g \in Live : c \in group[g].cores
  /\ cap.iordt_on => \A h \in Tagging : chan[h] \in {RMID0, Off} \/
       h \in lost \/ \E g \in Live : h \in group[g].channels

\* The cached SNC mode is the one of the hardware, as it is until a reset fails
\* between two sockets.
SncAgrees == snc = IF cap.snc_mode = "LOCAL" THEN Clusters ELSE {}

\* The RMID of a group exists for every event of the group, and where the
\* hardware counts by NUMA node it is one of the node the core is in.
RmidUsable ==
  \A g \in Live : \A x \in group[g].ctx :
    /\ x.rmid # RMID0
    /\ ~x.quiet => \A e \in group[g].event \cap CounterEvents : x.rmid < MaxRmid[e]
    /\ SncNum > 1 /\ SncAgrees /\ ~x.quiet =>
         \A c \in group[g].cores : assoc[c] = x.rmid /\ Cluster[c] = x.cluster =>
           x.rmid \div RmidNuma = IF x.cluster \in snc THEN Numa[c] ELSE 0

\* A group can count: its cores and channels carry the RMIDs it polls
\* (hw_mon_start_cores()), and these are RMIDs all its events have.
GroupSound == GroupFollowed /\ RmidUsable

=============================================================================
