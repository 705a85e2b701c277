---------------------------- MODULE HwMonProofs ----------------------------
(***************************************************************************)
(* Proofs about HwMon for every platform: any number of cores, clusters,   *)
(* NUMA nodes, RMIDs and channels, any groups an application keeps; then   *)
(* about MmioMon, for every ERDT table that meets DomainAssumption.  What  *)
(* the two interfaces share (reset, the end of a process, initialisation)  *)
(* is proved about once.                                                   *)
(***************************************************************************)
EXTENDS MmioMon, TLAPS, WellFoundedInduction

-----------------------------------------------------------------------------
(* The search for an RMID *)

\* A set of natural numbers that is not empty has a least element.
LEMMA LeastExists ==
  ASSUME NEW S \in SUBSET Nat, S # {}
  PROVE  \E m \in S : \A n \in S : m <= n
<1>1. PICK m \in S : \A n \in S : ~(<<n, m>> \in OpToRel(<, Nat))
  BY NatLessThanWellFounded, WFMin
<1>2. ASSUME NEW n \in S
      PROVE  m <= n
  <2>1. ~(n < m)
    BY <1>1 DEF OpToRel
  <2> QED
    BY <2>1
<1> QED
  BY <1>2

LEMMA LowestIsLeast ==
  ASSUME NEW S \in SUBSET Nat, S # {}
  PROVE  Lowest(S) \in S /\ \A q \in S : Lowest(S) <= q
  BY LeastExists DEF Lowest

\* rmid_get_event_max() is a bound of every event.
LEMMA EventMaxBounds ==
  ASSUME NEW E
  PROVE  /\ EventMax(E) \in 1 .. RmidNum
         /\ \A e \in E \cap DOMAIN MaxRmid : EventMax(E) <= MaxRmid[e]
<1> DEFINE all == {RmidNum} \cup {MaxRmid[e] : e \in E \cap DOMAIN MaxRmid}
<1>1. all \in SUBSET (1 .. RmidNum) /\ all # {}
  BY RmidAssumption
<1> HIDE DEF all
<1>2. \E m \in all : \A n \in all : m <= n
  <2>1. all \in SUBSET Nat
    BY <1>1
  <2> QED
    BY <1>1, <2>1, LeastExists
<1>3. EventMax(E) \in all /\ \A n \in all : EventMax(E) <= n
  BY <1>2 DEF EventMax, all
<1>4. \A e \in E \cap DOMAIN MaxRmid : MaxRmid[e] \in all
  BY DEF all
<1> QED
  BY <1>1, <1>3, <1>4

\* The RMIDs of the NUMA nodes are within those the platform has.
LEMMA NodesFit ==
  /\ RmidNuma \in Nat
  /\ SncNum * RmidNuma <= RmidNum
<1>1. RmidNum \in Nat /\ SncNum \in Nat /\ SncNum > 0
  BY RmidAssumption, TopologyAssumption
<1> QED
  BY <1>1 DEF RmidNuma

\* What the search of hw_mon_assoc_unused() hands out.
LEMMA FreeIs ==
  ASSUME NEW k, NEW E, NEW lo, NEW hi, FreeRmids(k, E, lo, hi) # {}
  PROVE  LET r == Lowest(FreeRmids(k, E, lo, hi))
         IN /\ r \in Rmid /\ r \in Nat /\ 1 <= r
            /\ lo <= r /\ r <= hi
            /\ r \notin UsedRmids(k)
            /\ \A e \in E \cap DOMAIN MaxRmid : r < MaxRmid[e]
<1>1. FreeRmids(k, E, lo, hi) \in SUBSET Nat
  BY RmidAssumption DEF FreeRmids, Rmid
<1>2. Lowest(FreeRmids(k, E, lo, hi)) \in FreeRmids(k, E, lo, hi)
  BY <1>1, LowestIsLeast
<1>3. \A e \in E \cap DOMAIN MaxRmid : EventMax(E) <= MaxRmid[e] /\ MaxRmid[e] \in Int
  BY EventMaxBounds, RmidAssumption
<1>4. EventMax(E) \in Int /\ RmidNum \in Int
  BY EventMaxBounds, RmidAssumption
<1> QED
  BY <1>2, <1>3, <1>4 DEF FreeRmids, Rmid

\* The quiet contexts of a group in SNC total mode are RMIDs of the platform.
LEMMA QuietFits ==
  ASSUME NEW r \in Nat, 1 <= r, r <= Hi(0), NEW n \in 0 .. SncNum - 1
  PROVE  r + n * RmidNuma \in Rmid
<1>1. RmidNuma \in Nat /\ SncNum * RmidNuma <= RmidNum
  BY NodesFit
<1>2. SncNum \in Nat /\ RmidNum \in Nat /\ n \in Nat /\ n <= SncNum - 1
  BY TopologyAssumption, RmidAssumption
<1>3. n * RmidNuma \in Nat /\ n * RmidNuma <= (SncNum - 1) * RmidNuma
  BY <1>1, <1>2
<1>4. (SncNum - 1) * RmidNuma = SncNum * RmidNuma - RmidNuma
  BY <1>1, <1>2
<1>5. r <= RmidNuma - 1
  BY <1>1 DEF Hi
<1> QED
  BY <1>1, <1>2, <1>3, <1>4, <1>5 DEF Rmid


-----------------------------------------------------------------------------
(* Type correctness *)

LEMMA NodeTyped ==
  ASSUME NEW c \in Core
  PROVE  NodeOf(c) \in 0 .. SncNum - 1
<1>1. Numa[c] \in 0 .. SncNum - 1 /\ SncNum \in Nat \ {0}
  BY TopologyAssumption
<1> QED
  BY <1>1 DEF NodeOf

\* The RMID a start gives to a core, when there is one for its (cluster,
\* node) pair.
LEMMA CoreRmidIs ==
  ASSUME NEW S \in SUBSET Core, NEW E, \A k \in KeysOf(S) : FreeFor(k, E) # {},
         NEW c \in S
  PROVE  LET r == CoreRmid(c, E)
         IN /\ r \in Rmid /\ r \in Nat /\ 1 <= r
            /\ Lo(NodeOf(c)) <= r /\ r <= Hi(NodeOf(c))
            /\ r \notin UsedRmids(Cluster[c])
            /\ \A e \in E \cap DOMAIN MaxRmid : r < MaxRmid[e]
<1> DEFINE key == [cluster |-> Cluster[c], numa |-> NodeOf(c)]
<1>1. FreeFor(key, E) # {}
  BY DEF KeysOf
<1>2. FreeRmids(Cluster[c], E, Lo(NodeOf(c)), Hi(NodeOf(c))) # {}
  BY <1>1 DEF FreeFor
<1>3. CoreRmid(c, E) = Lowest(FreeRmids(Cluster[c], E, Lo(NodeOf(c)), Hi(NodeOf(c))))
  BY DEF CoreRmid, RmidFor, FreeFor
<1> QED
  BY <1>2, <1>3, FreeIs

LEMMA TaggedTyped ==
  ASSUME TypeOK, NEW S \in SUBSET Core, NEW E,
         \A k \in KeysOf(S) : FreeFor(k, E) # {}
  PROVE  Tagged(S, E) \in [Core -> Rmid]
<1>1. \A c \in S : CoreRmid(c, E) \in Rmid
  BY CoreRmidIs
<1> QED
  BY <1>1 DEF Tagged, TypeOK

\* Every context of a start is that of a core, or that of a core in another
\* node of its socket.
LEMMA ContextsAre ==
  ASSUME NEW S, NEW E, NEW x \in Contexts(S, E)
  PROVE  \E c \in S, n \in IF cap.snc_mode = "TOTAL" THEN 0 .. SncNum - 1 ELSE {0} :
           x = [cluster |-> Cluster[c], numa |-> NodeOf(c),
                rmid |-> CoreRmid(c, E) + n * RmidNuma, quiet |-> n > 0]
  BY DEF Contexts, KeysOf, CoreRmid

LEMMA ContextsTyped ==
  ASSUME TypeOK, NEW S \in SUBSET Core, NEW E,
         \A k \in KeysOf(S) : FreeFor(k, E) # {}
  PROVE  Contexts(S, E) \in SUBSET Ctx
<1> SUFFICES ASSUME NEW x \in Contexts(S, E)
             PROVE  x \in Ctx
  OBVIOUS
<1>1. PICK c \in S, n \in IF cap.snc_mode = "TOTAL" THEN 0 .. SncNum - 1 ELSE {0} :
        x = [cluster |-> Cluster[c], numa |-> NodeOf(c),
             rmid |-> CoreRmid(c, E) + n * RmidNuma, quiet |-> n > 0]
  BY ContextsAre
<1>2. Cluster[c] \in Clusters /\ NodeOf(c) \in 0 .. SncNum - 1
  BY NodeTyped DEF Clusters
<1>3. CoreRmid(c, E) + n * RmidNuma \in Rmid
  <2>1. CoreRmid(c, E) \in Rmid /\ CoreRmid(c, E) \in Nat /\ 1 <= CoreRmid(c, E)
        /\ CoreRmid(c, E) <= Hi(NodeOf(c))
    BY CoreRmidIs
  <2>2. CASE n = 0
    <3>1. n * RmidNuma = 0
      BY <2>2, NodesFit
    <3> QED
      BY <2>1, <3>1
  <2>3. CASE n # 0
    <3>1. cap.snc_mode = "TOTAL" /\ n \in 0 .. SncNum - 1
      BY <1>1, <2>3
    <3>2. NodeOf(c) = 0
      BY <3>1 DEF NodeOf, ByNuma
    <3> QED
      BY <2>1, <3>1, <3>2, QuietFits
  <2> QED
    BY <2>2, <2>3
<1>4. (n > 0) \in BOOLEAN
  OBVIOUS
<1> QED
  BY <1>1, <1>2, <1>3, <1>4 DEF Ctx

LEMMA FreeAtIs ==
  ASSUME NEW k, NEW E, FreeAt(k, E) # {}
  PROVE  LET r == Lowest(FreeAt(k, E))
         IN /\ r \in Rmid /\ r \in Nat /\ 1 <= r
            /\ r \notin UsedRmids(k)
            /\ \A e \in E \cap DOMAIN MaxRmid : r < MaxRmid[e]
  BY FreeIs DEF FreeAt

LEMMA ChannelsTyped ==
  ASSUME TypeOK, NEW H \in SUBSET Chan, NEW E, \A h \in H : FreeAt(Place[h], E) # {}
  PROVE  /\ TaggedChannels(H, E) \in [Chan -> Rmid \cup {Off}]
         /\ \A h \in Chan \ Ref : TaggedChannels(H, E)[h] # Off
<1>1. \A h \in H : Lowest(FreeAt(Place[h], E)) \in Rmid
                   /\ Lowest(FreeAt(Place[h], E)) # Off
  BY FreeAtIs DEF Off
<1> QED
  BY <1>1 DEF TaggedChannels, TypeOK

LEMMA ClearedTyped ==
  ASSUME NEW h \in Chan
  PROVE  /\ Cleared(h) \in Rmid \cup {Off}
         /\ h \notin Ref => Cleared(h) # Off
         /\ Cleared(h) \in {RMID0, Off}
<1>1. RMID0 \in Rmid /\ RMID0 # Off
  BY RmidAssumption DEF Rmid, RMID0, Off
<1> QED
  BY <1>1 DEF Cleared

LEMMA ClearedAllTyped ==
  ASSUME TypeOK, NEW H
  PROVE  /\ ClearedAll(H) \in [Chan -> Rmid \cup {Off}]
         /\ \A h \in Chan \ Ref : ClearedAll(H)[h] # Off
  BY ClearedTyped DEF ClearedAll, TypeOK

LEMMA NoGroupTyped == NoGroup \in GroupData
  BY DEF NoGroup, GroupData

\* There is a cluster: a change of mode that reached all sockets reached one.
LEMMA SomeCluster == Clusters # {}
  BY TopologyAssumption DEF Clusters

LEMMA TypeInit == Init => TypeOK
<1> SUFFICES ASSUME Init PROVE TypeOK
  OBVIOUS
<1>1. RMID0 \in Rmid
  BY RmidAssumption DEF Rmid, RMID0
<1>2. assoc \in [Core -> Rmid] /\ group \in [Group -> GroupData]
  BY <1>1, NoGroupTyped DEF Init
<1>3. chan \in [Chan -> Rmid \cup {Off}] /\ \A h \in Chan \ Ref : chan[h] # Off
  BY RmidAssumption DEF Init
<1>4. cap \in [iordt_on : BOOLEAN, snc_mode : {"LOCAL", "TOTAL"}]
  BY DEF Init
<1>5. pmu \subseteq Core /\ io \subseteq Clusters /\ snc \subseteq Clusters
      /\ lost \subseteq Core \cup Chan /\ up \in BOOLEAN
  BY DEF Init
<1> QED
  BY <1>2, <1>3, <1>4, <1>5 DEF TypeOK

LEMMA StartCoresTyped ==
  ASSUME TypeOK, NEW g \in Group, NEW S \in (SUBSET Core) \ {{}}, NEW E \in Asked,
         mon_start_cores(g, S, E)
  PROVE  TypeOK'
<1> DEFINE valid  == Idle(S) /\ Listed(E)
           usable == \A k \in KeysOf(S) : ~Unreadable(k.cluster)
           found  == \A k \in KeysOf(S) : FreeFor(k, CtxEvent(E)) # {}
<1>1. CASE UNCHANGED vars
  BY <1>1 DEF TypeOK, vars
<1>2. CASE /\ pmu' = PmuStopped(S, {}, E)
           /\ UNCHANGED <<assoc, chan, io, snc, cap, up, group, lost>>
  BY <1>2 DEF TypeOK, PmuStopped
<1>3. CASE /\ found
           /\ Associate(S, CtxEvent(E))
           /\ pmu' = pmu \cup WithPmu(S, E)
           /\ group' = [group EXCEPT ![g] =
                [cores |-> S, channels |-> {}, event |-> E,
                 ctx |-> Contexts(S, CtxEvent(E))]]
           /\ UNCHANGED <<chan, io, snc, cap, up, lost>>
  <2>1. Contexts(S, CtxEvent(E)) \in SUBSET Ctx
    BY <1>3, ContextsTyped
  <2>2. [cores |-> S, channels |-> {}, event |-> E,
         ctx |-> Contexts(S, CtxEvent(E))] \in GroupData
    BY <2>1 DEF GroupData
  <2>3. group' \in [Group -> GroupData]
    BY <1>3, <2>2 DEF TypeOK
  <2>4. assoc' \in [Core -> Rmid]
    BY <1>3, TaggedTyped DEF Associate
  <2> QED
    BY <1>3, <2>3, <2>4 DEF TypeOK, WithPmu
<1> QED
  BY <1>1, <1>2, <1>3 DEF mon_start_cores

LEMMA StartCoresFailsTyped ==
  ASSUME TypeOK, NEW S \in (SUBSET Core) \ {{}}, NEW E \in Asked,
         mon_start_cores_fails(S, E)
  PROVE  TypeOK'
<1>1. PICK U \in SUBSET S, P \in SUBSET WithPmu(S, E) :
        /\ U # {} => \A k \in KeysOf(S) : FreeFor(k, CtxEvent(E)) # {}
        /\ assoc' = Tagged(U, CtxEvent(E))
        /\ pmu' = (pmu \ WithPmu(S, E)) \cup P
        /\ lost' = lost \cup U \cup P
  BY DEF mon_start_cores_fails
<1>2. \A k \in KeysOf(U) : FreeFor(k, CtxEvent(E)) # {}
  BY <1>1 DEF KeysOf
<1>3. assoc' \in [Core -> Rmid]
  BY <1>1, <1>2, TaggedTyped
<1>4. P \subseteq Core
  BY DEF WithPmu
<1> QED
  BY <1>1, <1>3, <1>4 DEF TypeOK, mon_start_cores_fails

LEMMA StartChannelsTyped ==
  ASSUME TypeOK, NEW g \in Group, NEW H \in (SUBSET Chan) \ {{}}, NEW E \in Asked,
         mon_start_channels(g, H, E)
  PROVE  TypeOK'
<1> DEFINE sockets == {Place[h] : h \in H}
           found == \A k \in sockets : FreeAt(k, E) # {}
<1>1. CASE UNCHANGED vars
  BY <1>1 DEF TypeOK, vars
<1>2. ASSUME NEW U \in SUBSET H, U # {} => found,
             chan' = [h \in Chan |-> IF h \in H \ U THEN Cleared(h)
                                     ELSE TaggedChannels(U, E)[h]],
             lost' = lost \cup U,
             UNCHANGED <<assoc, pmu, io, snc, cap, up, group>>
      PROVE  TypeOK'
  <2>1. \A h \in U : FreeAt(Place[h], E) # {}
    BY <1>2
  <2>2. /\ TaggedChannels(U, E) \in [Chan -> Rmid \cup {Off}]
        /\ \A h \in Chan \ Ref : TaggedChannels(U, E)[h] # Off
    BY <2>1, ChannelsTyped
  <2>3. /\ chan' \in [Chan -> Rmid \cup {Off}]
        /\ \A h \in Chan \ Ref : chan'[h] # Off
    BY <1>2, <2>2, ClearedTyped
  <2> QED
    BY <1>2, <2>3 DEF TypeOK
<1>3. CASE /\ found /\ NoPlace \notin sockets
           /\ chan' = TaggedChannels(H, E)
           /\ group' = [group EXCEPT ![g] =
                [cores |-> {}, channels |-> H, event |-> E,
                 ctx |-> {[cluster |-> k, numa |-> 0, rmid |-> Lowest(FreeAt(k, E)),
                           quiet |-> FALSE] : k \in sockets}]]
           /\ UNCHANGED <<assoc, pmu, io, snc, cap, up, lost>>
  <2>1. /\ TaggedChannels(H, E) \in [Chan -> Rmid \cup {Off}]
        /\ \A h \in Chan \ Ref : TaggedChannels(H, E)[h] # Off
    BY <1>3, ChannelsTyped
  <2>2. sockets \subseteq Clusters
    BY <1>3, TopologyAssumption
  <2>3. \A k \in sockets : [cluster |-> k, numa |-> 0, rmid |-> Lowest(FreeAt(k, E)),
                            quiet |-> FALSE] \in Ctx
    BY <1>3, <2>2, FreeAtIs, TopologyAssumption DEF Ctx
  <2>4. group' \in [Group -> GroupData]
    BY <1>3, <2>3 DEF TypeOK, GroupData
  <2> QED
    BY <1>3, <2>1, <2>4 DEF TypeOK
<1> QED
  BY <1>1, <1>2, <1>3 DEF mon_start_channels

LEMMA StopTyped ==
  ASSUME TypeOK, NEW g \in Group, mon_stop(g)
  PROVE  TypeOK'
<1>1. PICK F \in SUBSET group[g].cores, G \in SUBSET group[g].channels :
        /\ assoc' = [c \in Core |-> IF c \in Returned(group[g].cores) \ F THEN RMID0 ELSE assoc[c]]
        /\ chan' = ClearedAll(group[g].channels \ G)
        /\ pmu' = PmuStopped(group[g].cores, F, group[g].event)
        /\ lost' = lost \cup F \cup G
  BY DEF mon_stop
<1>2. RMID0 \in Rmid
  BY RmidAssumption DEF Rmid, RMID0
<1>3. assoc' \in [Core -> Rmid]
  BY <1>1, <1>2 DEF TypeOK
<1>4. group[g].cores \subseteq Core /\ group[g].channels \subseteq Chan
  BY DEF TypeOK, GroupData
<1>5. pmu' \subseteq Core /\ lost' \subseteq Core \cup Chan
  BY <1>1, <1>4 DEF TypeOK, PmuStopped
<1>6. group' \in [Group -> GroupData]
  BY NoGroupTyped DEF mon_stop, TypeOK
<1>7. /\ chan' \in [Chan -> Rmid \cup {Off}]
      /\ \A h \in Chan \ Ref : chan'[h] # Off
  BY <1>1, ClearedAllTyped
<1> QED
  BY <1>3, <1>5, <1>6, <1>7 DEF mon_stop, TypeOK

LEMMA WantIoTyped ==
  ASSUME TypeOK, NEW cfg \in Config
  PROVE  WantIo(cfg) \in BOOLEAN
<1>1. cap.iordt_on \in BOOLEAN
  BY DEF TypeOK
<1> QED
  BY <1>1 DEF WantIo, Config

\* The first loops of mon_reset(): the registers they leave.
LEMMA ResetTyped ==
  ASSUME TypeOK, NEW F, NEW G, Reset(F, G)
  PROVE  /\ assoc' \in [Core -> Rmid]
         /\ chan' \in [Chan -> Rmid \cup {Off}]
         /\ \A h \in Chan \ Ref : chan'[h] # Off
<1>1. RMID0 \in Rmid
  BY RmidAssumption DEF Rmid, RMID0
<1>2. assoc' \in [Core -> Rmid]
  BY <1>1 DEF Reset, TypeOK
<1>3. CASE cap.iordt_on
  BY <1>2, <1>3, ClearedAllTyped DEF Reset
<1>4. CASE ~cap.iordt_on
  BY <1>2, <1>4 DEF Reset, TypeOK
<1> QED
  BY <1>3, <1>4

LEMMA SncModeTyped ==
  ASSUME TypeOK, NEW cfg \in Config, NEW B,
         cfg.snc = "ANY" => B = {}
  PROVE  SncMode(cfg, B) \in {"LOCAL", "TOTAL"}
<1>1. cap.snc_mode \in {"LOCAL", "TOTAL"} /\ cfg.snc \in {"LOCAL", "TOTAL", "ANY"}
  BY DEF TypeOK, Config
<1> QED
  BY <1>1, SomeCluster DEF SncMode

LEMMA ConfiguresTyped ==
  ASSUME TypeOK, NEW cfg \in Config, mon_reset_configures(cfg), UNCHANGED <<up, group>>
  PROVE  TypeOK'
<1>1. PICK G \in SUBSET Tagging, B \in SUBSET Clusters :
        /\ cfg.snc = "ANY" \/ SncNum = 1 => B = {}
        /\ SwitchIo(cfg, G)
        /\ snc' = IF cfg.snc = "LOCAL" THEN snc \cup B ELSE snc \ B
        /\ cap' = [iordt_on |-> WantIo(cfg), snc_mode |-> SncMode(cfg, B)]
        /\ lost' = (lost \cap pmu) \cup G
        /\ UNCHANGED pmu
  BY DEF mon_reset_configures
<1>2. WantIo(cfg) \in BOOLEAN /\ SncMode(cfg, B) \in {"LOCAL", "TOTAL"}
  BY <1>1, WantIoTyped, SncModeTyped
<1>3. cap' \in [iordt_on : BOOLEAN, snc_mode : {"LOCAL", "TOTAL"}]
  BY <1>1, <1>2
<1>4. io' \subseteq Clusters /\ snc' \subseteq Clusters
  BY <1>1 DEF SwitchIo, TypeOK
<1>5. assoc' \in [Core -> Rmid]
  <2>1. RMID0 \in Rmid
    BY RmidAssumption DEF Rmid, RMID0
  <2> QED
    BY <1>1, <2>1 DEF SwitchIo
<1>6. /\ chan' \in [Chan -> Rmid \cup {Off}]
      /\ \A h \in Chan \ Ref : chan'[h] # Off
  <2>1. CASE chan' = ClearedAll(Tagging \ G)
    BY <2>1, ClearedAllTyped
  <2>2. CASE chan' = chan
    BY <2>2 DEF TypeOK
  <2> QED
    BY <1>1, <2>1, <2>2 DEF SwitchIo
<1>7. lost' \subseteq Core \cup Chan
  BY <1>1, TopologyAssumption DEF TypeOK
<1> QED
  BY <1>1, <1>3, <1>4, <1>5, <1>6, <1>7 DEF TypeOK

LEMMA MonResetTyped ==
  ASSUME TypeOK, NEW cfg \in Configs, mon_reset(cfg)
  PROVE  TypeOK'
<1>1. cfg \in Config
  BY InputAssumption
<1>2. UNCHANGED <<up, group>>
  BY DEF mon_reset
<1>3. CASE mon_reset_assoc_fails
  <2>1. PICK F \in SUBSET Core, G \in SUBSET Tagging : Reset(F, G)
    BY <1>3 DEF mon_reset_assoc_fails
  <2>2. lost' \subseteq lost /\ UNCHANGED <<pmu, io, snc, cap>>
    BY <1>3 DEF mon_reset_assoc_fails
  <2> QED
    BY <1>2, <2>1, <2>2, ResetTyped DEF TypeOK
<1>4. CASE mon_reset_iordt_fails(cfg)
  <2>1. Reset({}, {}) /\ UNCHANGED <<pmu, snc, cap>> /\ lost' \subseteq lost
    BY <1>4 DEF mon_reset_iordt_fails
  <2>2. io' \subseteq Clusters
    BY <1>4 DEF mon_reset_iordt_fails, TypeOK
  <2> QED
    BY <1>2, <2>1, <2>2, ResetTyped DEF TypeOK
<1>5. CASE mon_reset_configures(cfg)
  BY <1>1, <1>2, <1>5, ConfiguresTyped
<1> QED
  BY <1>3, <1>4, <1>5 DEF mon_reset

LEMMA DieTyped ==
  ASSUME TypeOK, Die
  PROVE  TypeOK'
<1>1. PICK S \in SUBSET Core, E \in Asked :
        /\ S # {} => \A k \in KeysOf(S) : FreeFor(k, CtxEvent(E)) # {}
        /\ assoc' = Tagged(S, CtxEvent(E))
        /\ pmu' = pmu \cup WithPmu(S, E)
  BY DEF Die
<1>2. \A k \in KeysOf(S) : FreeFor(k, CtxEvent(E)) # {}
  BY <1>1 DEF KeysOf
<1>3. assoc' \in [Core -> Rmid]
  BY <1>1, <1>2, TaggedTyped
<1>4. pmu' \subseteq Core
  BY <1>1 DEF WithPmu, TypeOK
<1>5. group' \in [Group -> GroupData]
  BY NoGroupTyped DEF Die
<1> QED
  BY <1>3, <1>4, <1>5 DEF Die, TypeOK

LEMMA InitialisedTyped ==
  ASSUME TypeOK, pqos_init
  PROVE  TypeOK'
<1>1. cap' \in [iordt_on : BOOLEAN, snc_mode : {"LOCAL", "TOTAL"}]
  BY DEF pqos_init, TypeOK
<1>2. up' \in BOOLEAN
  BY DEF pqos_init
<1> QED
  BY <1>1, <1>2 DEF pqos_init, TypeOK, hw

LEMMA TypeStep == TypeOK /\ [Next]_vars => TypeOK'
<1> SUFFICES ASSUME TypeOK, [Next]_vars PROVE TypeOK'
  OBVIOUS
<1>1. CASE UNCHANGED vars
  BY <1>1 DEF TypeOK, vars
<1>2. CASE Next
  BY <1>2, StartCoresTyped, StartCoresFailsTyped, StartChannelsTyped, StopTyped,
     MonResetTyped, DieTyped, InitialisedTyped DEF Next
<1> QED
  BY <1>1, <1>2

\* TypeOK: whatever is started, stopped and reset, in any order and with any
\* register failing, every register holds an RMID of the platform and every
\* poll context names one (hw_mon_start_cores(), hw_mon_start_channels()).
THEOREM TypeCorrect == Spec => []TypeOK
  BY TypeInit, TypeStep, PTL DEF Spec

-----------------------------------------------------------------------------
(* Groups *)

(***************************************************************************)
(* RmidExclusive and GroupFollowed are not inductive.  A start looks at    *)
(* the registers only, so a group is safe from it as long as every RMID    *)
(* the group polls is in some register the search reads (Carried), which   *)
(* for channels needs I/O monitoring to be on (OfOneKind).  The RMIDs that *)
(* a group polls quietly are in no register: they are safe because every   *)
(* group of cores stays in the band of a NUMA node (Banded, Shadowed).     *)
(***************************************************************************)
OfOneKind(d) ==
  \/ d.cores # {} /\ d.channels = {}
  \/ /\ d.cores = {} /\ d.channels # {} /\ d.channels \subseteq Tagging
     /\ cap.iordt_on /\ \A x \in d.ctx : ~x.quiet

Followed(d) ==
  /\ \A c \in d.cores : \E x \in d.ctx : /\ ~x.quiet
                                        /\ x.cluster = Cluster[c] /\ x.numa = NodeOf(c)
                                        /\ assoc[c] = x.rmid
  /\ \A h \in d.channels : \E x \in d.ctx : x.cluster = Place[h] /\ chan[h] = x.rmid
  /\ WithPmu(d.cores, d.event) \subseteq pmu

Carried(d) ==
  \A x \in d.ctx : ~x.quiet =>
    \/ \E c \in d.cores : Cluster[c] = x.cluster /\ assoc[c] = x.rmid
    \/ \E h \in d.channels : Place[h] = x.cluster /\ chan[h] = x.rmid

Banded(d) ==
  \A x \in d.ctx : ~x.quiet =>
    /\ 1 <= x.rmid
    /\ d.cores # {} => Lo(x.numa) <= x.rmid /\ x.rmid <= Hi(x.numa)
    /\ cap.snc_mode = "TOTAL" => x.numa = 0
    /\ \A e \in d.event \cap CounterEvents : x.rmid < MaxRmid[e]

Shadowed(d) ==
  \A x \in d.ctx : x.quiet =>
    /\ cap.snc_mode = "TOTAL"
    /\ \E y \in d.ctx, n \in 1 .. SncNum - 1 :
         ~y.quiet /\ y.cluster = x.cluster /\ x.rmid = y.rmid + n * RmidNuma

GroupOK(d) == OfOneKind(d) /\ Followed(d) /\ Carried(d) /\ Banded(d) /\ Shadowed(d)

GroupsOK == \A g \in Live : GroupOK(group[g])

\* RmidExclusive for the RMIDs that are in registers.
Apart ==
  \A g, h \in Live : g # h =>
    \A x \in group[g].ctx, y \in group[h].ctx :
      ~x.quiet /\ ~y.quiet /\ x.cluster = y.cluster => x.rmid # y.rmid

\* The registers of a group after a step that does not touch them.
Kept(d) ==
  /\ \A c \in d.cores : assoc'[c] = assoc[c]
  /\ \A h \in d.channels : chan'[h] = chan[h]
  /\ WithPmu(d.cores, d.event) \cap pmu \subseteq pmu'

LEMMA KeptIsOK ==
  ASSUME NEW d, GroupOK(d), Kept(d), cap' = cap
  PROVE  GroupOK(d)'
<1>1. OfOneKind(d)'
  BY DEF GroupOK, OfOneKind
<1>2. Followed(d)'
  <2>1. \A c \in d.cores : \E x \in d.ctx : /\ ~x.quiet
                                           /\ x.cluster = Cluster[c] /\ x.numa = NodeOf(c)'
                                           /\ assoc'[c] = x.rmid
    BY DEF GroupOK, Followed, Kept, NodeOf, ByNuma
  <2>2. \A h \in d.channels : \E x \in d.ctx : x.cluster = Place[h] /\ chan'[h] = x.rmid
    BY DEF GroupOK, Followed, Kept
  <2>3. WithPmu(d.cores, d.event) \subseteq pmu'
    BY DEF GroupOK, Followed, Kept
  <2> QED
    BY <2>1, <2>2, <2>3 DEF Followed, WithPmu
<1>3. Carried(d)'
  BY DEF GroupOK, Carried, Kept
<1>4. Banded(d)'
  BY DEF GroupOK, Banded
<1>5. Shadowed(d)'
  BY DEF GroupOK, Shadowed
<1> QED
  BY <1>1, <1>2, <1>3, <1>4, <1>5 DEF GroupOK

\* Groups stay sound when a step takes none of their registers, though it may
\* end some of them.
LEMMA GroupsKept ==
  ASSUME TypeOK, GroupsOK, Apart, cap' = cap,
         \A g \in Group : group'[g] = group[g] \/ group'[g] = NoGroup,
         \A g \in Live : group'[g] = group[g] => Kept(group[g])
  PROVE  GroupsOK' /\ Apart'
<1>1. \A g \in Live' : g \in Live /\ group'[g] = group[g]
  BY DEF Live
<1>2. ASSUME NEW g \in Live'
      PROVE  GroupOK(group[g])'
  <2>1. PICK d : d = group[g]
    OBVIOUS
  <2>2. g \in Live /\ group'[g] = d
    BY <1>1, <2>1
  <2>3. GroupOK(d) /\ Kept(d)
    BY <2>1, <2>2 DEF GroupsOK
  <2>4. GroupOK(d)'
    BY <2>3, KeptIsOK
  <2> QED
    BY <2>2, <2>4
<1>3. Apart'
  BY <1>1 DEF Apart
<1> QED
  BY <1>2, <1>3 DEF GroupsOK

\* They stay sound when a sound group joins them under RMIDs of its own.
LEMMA GroupJoins ==
  ASSUME TypeOK, GroupsOK, Apart, cap' = cap,
         NEW g \in Group, g \notin Live, NEW d,
         group' = [group EXCEPT ![g] = d],
         \A h \in Live : Kept(group[h]),
         GroupOK(d)',
         \A h \in Live : \A x \in d.ctx, y \in group[h].ctx :
           ~x.quiet /\ ~y.quiet /\ x.cluster = y.cluster => x.rmid # y.rmid
  PROVE  GroupsOK' /\ Apart'
<1>1. \A h \in Group : group'[h] = IF h = g THEN d ELSE group[h]
  BY DEF TypeOK
<1>2. \A h \in Live' : h = g \/ (h \in Live /\ group'[h] = group[h])
  BY <1>1 DEF Live
<1>3. ASSUME NEW h \in Live'
      PROVE  GroupOK(group[h])'
  <2>1. CASE h = g
    BY <1>1, <2>1
  <2>2. CASE h # g
    <3>1. PICK e : e = group[h]
      OBVIOUS
    <3>2. h \in Live /\ group'[h] = e
      BY <1>2, <2>2, <3>1
    <3>3. GroupOK(e) /\ Kept(e)
      BY <3>1, <3>2 DEF GroupsOK
    <3>4. GroupOK(e)'
      BY <3>3, KeptIsOK
    <3> QED
      BY <3>2, <3>4
  <2> QED
    BY <2>1, <2>2
<1>4. Apart'
  <2> SUFFICES ASSUME NEW h \in Live', NEW i \in Live', h # i,
                      NEW x \in group'[h].ctx, NEW y \in group'[i].ctx,
                      ~x.quiet, ~y.quiet, x.cluster = y.cluster
               PROVE  x.rmid # y.rmid
    BY DEF Apart
  <2>1. h \in Group /\ i \in Group
    BY DEF Live
  <2>2. CASE h = g
    <3>1. i \in Live /\ group'[i] = group[i] /\ group'[h] = d
      BY <1>1, <1>2, <2>1, <2>2
    <3> QED
      BY <3>1
  <2>3. CASE i = g
    <3>1. h \in Live /\ group'[h] = group[h] /\ group'[i] = d
      BY <1>1, <1>2, <2>1, <2>3
    <3>2. y.rmid # x.rmid
      BY <3>1
    <3> QED
      BY <3>2
  <2>4. CASE h # g /\ i # g
    <3>1. h \in Live /\ i \in Live /\ group'[h] = group[h] /\ group'[i] = group[i]
      BY <1>2, <2>4
    <3> QED
      BY <3>1 DEF Apart
  <2> QED
    BY <2>2, <2>3, <2>4
<1> QED
  BY <1>3, <1>4 DEF GroupsOK

-----------------------------------------------------------------------------
(* What groups hold, and the steps of cores and channels *)

\* The search finds every RMID that a monitored group polls.
LEMMA UsedByGroup ==
  ASSUME TypeOK, GroupsOK, NEW g \in Live, NEW x \in group[g].ctx, ~x.quiet
  PROVE  x.rmid \in UsedRmids(x.cluster)
<1>1. OfOneKind(group[g]) /\ Carried(group[g])
  BY DEF GroupsOK, GroupOK
<1>2. group[g].cores \subseteq Core
  BY DEF TypeOK, GroupData, Live
<1>3. CASE \E c \in group[g].cores : Cluster[c] = x.cluster /\ assoc[c] = x.rmid
  BY <1>2, <1>3 DEF UsedRmids
<1>4. CASE \E h \in group[g].channels : Place[h] = x.cluster /\ chan[h] = x.rmid
  <2>1. PICK h \in group[g].channels : Place[h] = x.cluster /\ chan[h] = x.rmid
    BY <1>4
  <2>2. cap.iordt_on /\ h \in Tagging
    BY <1>1, <2>1 DEF OfOneKind
  <2>3. h \in ChannelsAt(x.cluster)
    BY <2>1, <2>2 DEF ChannelsAt
  <2> QED
    BY <2>1, <2>2, <2>3 DEF UsedRmids
<1> QED
  BY <1>1, <1>3, <1>4 DEF Carried

\* No core or channel of a group looks idle, nor belongs to a second group.
LEMMA MembersTagged ==
  ASSUME TypeOK, GroupsOK, NEW g \in Live
  PROVE  /\ \A c \in group[g].cores : assoc[c] # RMID0
         /\ \A h \in group[g].channels : chan[h] # RMID0
<1>1. OfOneKind(group[g]) /\ Followed(group[g]) /\ Banded(group[g])
  BY DEF GroupsOK, GroupOK
<1>2. \A x \in group[g].ctx : ~x.quiet => x.rmid # RMID0
  BY <1>1 DEF Banded, RMID0
<1>3. \A c \in group[g].cores : assoc[c] # RMID0
  BY <1>1, <1>2 DEF Followed
<1>4. \A h \in group[g].channels : chan[h] # RMID0
  BY <1>1, <1>2 DEF Followed, OfOneKind
<1> QED
  BY <1>3, <1>4

LEMMA MembersApart ==
  ASSUME TypeOK, GroupsOK, Apart, NEW g \in Live, NEW h \in Live, g # h
  PROVE  /\ group[g].cores \cap group[h].cores = {}
         /\ group[g].channels \cap group[h].channels = {}
<1>1. /\ OfOneKind(group[g]) /\ Followed(group[g])
      /\ OfOneKind(group[h]) /\ Followed(group[h])
  BY DEF GroupsOK, GroupOK
<1>2. ASSUME NEW c \in group[g].cores, c \in group[h].cores
      PROVE  FALSE
  <2>1. PICK x \in group[g].ctx : ~x.quiet /\ x.cluster = Cluster[c] /\ assoc[c] = x.rmid
    BY <1>1, <1>2 DEF Followed
  <2>2. PICK y \in group[h].ctx : ~y.quiet /\ y.cluster = Cluster[c] /\ assoc[c] = y.rmid
    BY <1>1, <1>2 DEF Followed
  <2> QED
    BY <2>1, <2>2 DEF Apart
<1>3. ASSUME NEW c \in group[g].channels, c \in group[h].channels
      PROVE  FALSE
  <2>1. PICK x \in group[g].ctx : ~x.quiet /\ x.cluster = Place[c] /\ chan[c] = x.rmid
    BY <1>1, <1>3 DEF Followed, OfOneKind
  <2>2. PICK y \in group[h].ctx : ~y.quiet /\ y.cluster = Place[c] /\ chan[c] = y.rmid
    BY <1>1, <1>3 DEF Followed, OfOneKind
  <2> QED
    BY <2>1, <2>2 DEF Apart
<1> QED
  BY <1>2, <1>3

\* A step that writes idle cores or channels only takes nothing of a group.
LEMMA IdleIsKept ==
  ASSUME TypeOK, GroupsOK, NEW S \in SUBSET Core, NEW H \in SUBSET Chan,
         Idle(S), IdleChannels(H),
         \A c \in Core \ S : assoc'[c] = assoc[c],
         \A h \in Chan \ H : chan'[h] = chan[h],
         pmu \ S \subseteq pmu',
         NEW g \in Live
  PROVE  Kept(group[g])
<1>1. group[g].cores \cap S = {} /\ group[g].channels \cap H = {}
  BY MembersTagged DEF Idle, IdleChannels
<1>2. group[g].cores \subseteq Core /\ group[g].channels \subseteq Chan
  BY DEF TypeOK, GroupData, Live
<1>3. WithPmu(group[g].cores, group[g].event) \subseteq group[g].cores
  BY DEF WithPmu
<1> QED
  BY <1>1, <1>2, <1>3 DEF Kept

LEMMA StartCoresGroups ==
  ASSUME TypeOK, GroupsOK, Apart,
         NEW g \in Group, NEW S \in (SUBSET Core) \ {{}}, NEW E \in Asked,
         mon_start_cores(g, S, E)
  PROVE  GroupsOK' /\ Apart'
<1> DEFINE valid  == Idle(S) /\ Listed(E)
           usable == \A k \in KeysOf(S) : ~Unreadable(k.cluster)
           found  == \A k \in KeysOf(S) : FreeFor(k, CtxEvent(E)) # {}
           W      == CtxEvent(E)
<1>a. IdleChannels({}) /\ S \in SUBSET Core /\ g \notin Live
  BY DEF IdleChannels, mon_start_cores
<1>1. CASE UNCHANGED vars
  <2>1. \A h \in Live : Kept(group[h])
    BY <1>1 DEF Kept, vars
  <2> QED
    BY <1>1, <2>1, GroupsKept DEF vars
<1>2. CASE /\ valid /\ pmu' = PmuStopped(S, {}, E)
           /\ UNCHANGED <<assoc, chan, io, snc, cap, up, group, lost>>
  <2>1. pmu \ S \subseteq pmu'
    BY <1>2 DEF PmuStopped
  <2>2. \A h \in Live : Kept(group[h])
    BY <1>a, <1>2, <2>1, IdleIsKept
  <2> QED
    BY <1>2, <2>2, GroupsKept
<1>3. CASE /\ valid /\ usable /\ found
           /\ Associate(S, CtxEvent(E))
           /\ pmu' = pmu \cup WithPmu(S, E)
           /\ group' = [group EXCEPT ![g] =
                [cores |-> S, channels |-> {}, event |-> E, ctx |-> Contexts(S, W)]]
           /\ UNCHANGED <<chan, io, snc, cap, up, lost>>
  <2>a. PICK d : d = [cores |-> S, channels |-> {}, event |-> E, ctx |-> Contexts(S, W)]
    OBVIOUS
  <2>d. /\ d.cores = S /\ d.channels = {} /\ d.event = E /\ d.ctx = Contexts(S, W)
        /\ group' = [group EXCEPT ![g] = d]
    BY <1>3, <2>a
  <2>1. \A c \in Core : assoc'[c] = IF c \in S THEN CoreRmid(c, W) ELSE assoc[c]
    BY <1>3 DEF Associate, Tagged
  <2>2. \A h \in Live : Kept(group[h])
    BY <1>a, <1>3, <2>1, IdleIsKept
  <2>3. \A c \in S : LET r == CoreRmid(c, W)
                     IN /\ r \in Nat /\ 1 <= r
                        /\ Lo(NodeOf(c)) <= r /\ r <= Hi(NodeOf(c))
                        /\ r \notin UsedRmids(Cluster[c])
                        /\ \A e \in W \cap DOMAIN MaxRmid : r < MaxRmid[e]
    BY <1>3, CoreRmidIs
  <2>4. ASSUME NEW x \in Contexts(S, W)
        PROVE  \E c \in S, n \in 0 .. SncNum - 1 :
                 /\ n # 0 => cap.snc_mode = "TOTAL"
                 /\ x.cluster = Cluster[c] /\ x.numa = NodeOf(c) /\ (x.quiet <=> n > 0)
                 /\ x.rmid = CoreRmid(c, W) + n * RmidNuma
                 /\ ~x.quiet => x.rmid = CoreRmid(c, W)
    <3>1. PICK c \in S, n \in IF cap.snc_mode = "TOTAL" THEN 0 .. SncNum - 1 ELSE {0} :
            x = [cluster |-> Cluster[c], numa |-> NodeOf(c),
                 rmid |-> CoreRmid(c, W) + n * RmidNuma, quiet |-> n > 0]
      BY ContextsAre
    <3>2. n \in 0 .. SncNum - 1 /\ (n # 0 => cap.snc_mode = "TOTAL")
      BY <3>1, TopologyAssumption
    <3>3. n = 0 => CoreRmid(c, W) + n * RmidNuma = CoreRmid(c, W)
      BY <2>3, NodesFit
    <3>4. x.quiet <=> n > 0
      BY <3>1
    <3>5. ~x.quiet => n = 0
      BY <3>2, <3>4
    <3>6. x.cluster = Cluster[c] /\ x.numa = NodeOf(c)
          /\ x.rmid = CoreRmid(c, W) + n * RmidNuma
      BY <3>1
    <3> QED
      BY <3>2, <3>3, <3>4, <3>5, <3>6
  <2>5. \A c \in S : [cluster |-> Cluster[c], numa |-> NodeOf(c),
                      rmid |-> CoreRmid(c, W), quiet |-> FALSE] \in Contexts(S, W)
    <3> SUFFICES ASSUME NEW c \in S
                 PROVE  [cluster |-> Cluster[c], numa |-> NodeOf(c),
                         rmid |-> CoreRmid(c, W), quiet |-> FALSE] \in Contexts(S, W)
      OBVIOUS
    <3> DEFINE k == [cluster |-> Cluster[c], numa |-> NodeOf(c)]
    <3>1. k \in KeysOf(S)
      BY DEF KeysOf
    <3>2. 0 \in IF cap.snc_mode = "TOTAL" THEN 0 .. SncNum - 1 ELSE {0}
      BY TopologyAssumption
    <3>3. CoreRmid(c, W) + 0 * RmidNuma = CoreRmid(c, W) /\ (0 > 0) = FALSE
      BY <2>3, NodesFit
    <3>4. [cluster |-> k.cluster, numa |-> k.numa,
           rmid |-> RmidFor(k, W) + 0 * RmidNuma, quiet |-> 0 > 0] \in Contexts(S, W)
      BY <3>1, <3>2 DEF Contexts
    <3> QED
      BY <3>3, <3>4 DEF CoreRmid
  <2>6. \A c \in S : NodeOf(c)' = NodeOf(c)
    BY <1>3 DEF NodeOf, ByNuma
  <2>7. GroupOK(d)'
    <3>1. OfOneKind(d)'
      BY <2>d DEF OfOneKind
    <3>2. Followed(d)'
      <4>1. \A c \in S : \E x \in d.ctx :
                           /\ ~x.quiet
                           /\ x.cluster = Cluster[c] /\ x.numa = NodeOf(c)'
                           /\ assoc'[c] = x.rmid
        <5> TAKE c \in S
        <5> DEFINE x == [cluster |-> Cluster[c], numa |-> NodeOf(c),
                         rmid |-> CoreRmid(c, W), quiet |-> FALSE]
        <5>1. x \in d.ctx
          BY <2>5, <2>d
        <5>2. assoc'[c] = x.rmid /\ x.numa = NodeOf(c)'
          BY <2>1, <2>6
        <5> QED
          BY <5>1, <5>2
      <4>2. WithPmu(S, E) \subseteq pmu'
        BY <1>3
      <4> QED
        BY <2>d, <4>1, <4>2 DEF Followed, WithPmu
    <3>3. Carried(d)'
      <4>1. \A x \in d.ctx : ~x.quiet =>
              \E c \in S : Cluster[c] = x.cluster /\ assoc'[c] = x.rmid
        BY <2>1, <2>4, <2>d
      <4> QED
        BY <2>d, <4>1 DEF Carried
    <3>4. Banded(d)'
      <4>1. \A e \in E \cap CounterEvents : e \in W \cap DOMAIN MaxRmid
        BY <1>3 DEF Listed, CtxEvent
      <4>2. cap.snc_mode = "TOTAL" => \A c \in S : NodeOf(c) = 0
        BY DEF NodeOf, ByNuma
      <4>3. ASSUME NEW x \in d.ctx, ~x.quiet
            PROVE  /\ 1 <= x.rmid
                   /\ Lo(x.numa) <= x.rmid /\ x.rmid <= Hi(x.numa)
                   /\ cap.snc_mode = "TOTAL" => x.numa = 0
                   /\ \A e \in E \cap CounterEvents : x.rmid < MaxRmid[e]
        <5>1. PICK c \in S : x.numa = NodeOf(c) /\ x.rmid = CoreRmid(c, W)
          BY <2>4, <2>d, <4>3
        <5> QED
          BY <2>3, <4>1, <4>2, <5>1
      <4> QED
        BY <1>3, <2>d, <4>3 DEF Banded
    <3>5. Shadowed(d)'
      <4> SUFFICES ASSUME NEW x \in d.ctx, x.quiet
                   PROVE  /\ cap'.snc_mode = "TOTAL"
                          /\ \E y \in d.ctx, n \in 1 .. SncNum - 1 :
                               /\ ~y.quiet /\ y.cluster = x.cluster
                               /\ x.rmid = y.rmid + n * RmidNuma
        BY <1>3, <2>d DEF Shadowed
      <4>1. PICK c \in S, n \in 0 .. SncNum - 1 :
              /\ n # 0 => cap.snc_mode = "TOTAL"
              /\ x.cluster = Cluster[c] /\ (x.quiet <=> n > 0)
              /\ x.rmid = CoreRmid(c, W) + n * RmidNuma
        BY <2>4, <2>d
      <4>2. n \in 1 .. SncNum - 1
        BY <4>1, TopologyAssumption
      <4> DEFINE y == [cluster |-> Cluster[c], numa |-> NodeOf(c),
                       rmid |-> CoreRmid(c, W), quiet |-> FALSE]
      <4>3. y \in d.ctx /\ ~y.quiet /\ y.cluster = x.cluster
            /\ x.rmid = y.rmid + n * RmidNuma
        BY <2>5, <2>d, <4>1
      <4> QED
        BY <1>3, <4>1, <4>2, <4>3
    <3> QED
      BY <3>1, <3>2, <3>3, <3>4, <3>5 DEF GroupOK
  <2>8. \A h \in Live : \A x \in d.ctx, y \in group[h].ctx :
          ~x.quiet /\ ~y.quiet /\ x.cluster = y.cluster => x.rmid # y.rmid
    BY <2>3, <2>4, <2>d, UsedByGroup
  <2> QED
    BY <1>a, <1>3, <2>2, <2>7, <2>8, <2>d, GroupJoins
<1> QED
  BY <1>1, <1>2, <1>3 DEF mon_start_cores

LEMMA StartCoresFailsGroups ==
  ASSUME TypeOK, GroupsOK, Apart, NEW S \in (SUBSET Core) \ {{}}, NEW E \in Asked,
         mon_start_cores_fails(S, E)
  PROVE  GroupsOK' /\ Apart'
<1>1. PICK U \in SUBSET S, P \in SUBSET WithPmu(S, E) :
        /\ assoc' = Tagged(U, CtxEvent(E))
        /\ pmu' = (pmu \ WithPmu(S, E)) \cup P
  BY DEF mon_start_cores_fails
<1>2. Idle(S) /\ IdleChannels({}) /\ UNCHANGED <<chan, cap, group>>
  BY DEF mon_start_cores_fails, IdleChannels
<1>3. \A c \in Core \ S : assoc'[c] = assoc[c]
  BY <1>1 DEF Tagged
<1>4. pmu \ S \subseteq pmu'
  BY <1>1 DEF WithPmu
<1>5. \A h \in Live : Kept(group[h])
  BY <1>2, <1>3, <1>4, IdleIsKept
<1> QED
  BY <1>2, <1>5, GroupsKept

LEMMA StartChannelsGroups ==
  ASSUME TypeOK, GroupsOK, Apart,
         NEW g \in Group, NEW H \in (SUBSET Chan) \ {{}}, NEW E \in Asked,
         mon_start_channels(g, H, E)
  PROVE  GroupsOK' /\ Apart'
<1> DEFINE sockets == {Place[h] : h \in H}
           valid == cap.iordt_on /\ E \subseteq IoEvents /\ H \subseteq Tagging /\ IdleChannels(H)
           found == \A k \in sockets : FreeAt(k, E) # {}
           C == {[cluster |-> k, numa |-> 0, rmid |-> Lowest(FreeAt(k, E)),
                  quiet |-> FALSE] : k \in sockets}
<1>a. Idle({}) /\ H \in SUBSET Chan /\ g \notin Live
  BY DEF Idle, mon_start_channels
<1>1. CASE UNCHANGED vars
  <2>1. \A h \in Live : Kept(group[h])
    BY <1>1 DEF Kept, vars
  <2> QED
    BY <1>1, <2>1, GroupsKept DEF vars
<1>2. ASSUME NEW U \in SUBSET H, IdleChannels(H),
             chan' = [h \in Chan |-> IF h \in H \ U THEN Cleared(h)
                                     ELSE TaggedChannels(U, E)[h]],
             UNCHANGED <<assoc, pmu, io, snc, cap, up, group>>
      PROVE  GroupsOK' /\ Apart'
  <2>1. \A h \in Chan \ H : chan'[h] = chan[h]
    BY <1>2 DEF TaggedChannels
  <2>2. \A h \in Live : Kept(group[h])
    BY <1>a, <1>2, <2>1, IdleIsKept
  <2> QED
    BY <1>2, <2>2, GroupsKept
<1>3. CASE /\ valid /\ found
           /\ chan' = TaggedChannels(H, E)
           /\ group' = [group EXCEPT ![g] =
                [cores |-> {}, channels |-> H, event |-> E, ctx |-> C]]
           /\ UNCHANGED <<assoc, pmu, io, snc, cap, up, lost>>
  <2>a. PICK d : d = [cores |-> {}, channels |-> H, event |-> E, ctx |-> C]
    OBVIOUS
  <2>d. /\ d.cores = {} /\ d.channels = H /\ d.event = E /\ d.ctx = C
        /\ group' = [group EXCEPT ![g] = d]
    BY <1>3, <2>a
  <2>1. \A h \in Chan : chan'[h] = IF h \in H THEN Lowest(FreeAt(Place[h], E)) ELSE chan[h]
    BY <1>3 DEF TaggedChannels
  <2>2. \A h \in Live : Kept(group[h])
    BY <1>a, <1>3, <2>1, IdleIsKept
  <2>3. \A k \in sockets : LET r == Lowest(FreeAt(k, E))
                           IN /\ r \in Nat /\ 1 <= r /\ r \notin UsedRmids(k)
                              /\ \A e \in E \cap DOMAIN MaxRmid : r < MaxRmid[e]
    BY <1>3, FreeAtIs
  <2>4. \A x \in d.ctx : \E h \in H :
          /\ x.cluster = Place[h] /\ x.numa = 0 /\ ~x.quiet
          /\ x.rmid = Lowest(FreeAt(Place[h], E))
    BY <2>d
  <2>5. \A h \in H : \E x \in d.ctx : x.cluster = Place[h]
                                      /\ x.rmid = Lowest(FreeAt(Place[h], E))
    <3> TAKE h \in H
    <3> DEFINE x == [cluster |-> Place[h], numa |-> 0,
                     rmid |-> Lowest(FreeAt(Place[h], E)), quiet |-> FALSE]
    <3>1. x \in d.ctx
      BY <2>d
    <3> QED
      BY <3>1
  <2>6. GroupOK(d)'
    <3>1. OfOneKind(d)'
      BY <1>3, <2>d, <2>4 DEF OfOneKind
    <3>2. Followed(d)'
      <4>1. \A h \in H : \E x \in d.ctx : x.cluster = Place[h] /\ chan'[h] = x.rmid
        BY <2>1, <2>5
      <4> QED
        BY <2>d, <4>1 DEF Followed, WithPmu
    <3>3. Carried(d)'
      <4>1. \A x \in d.ctx : \E h \in H : Place[h] = x.cluster /\ chan'[h] = x.rmid
        BY <2>1, <2>4
      <4> QED
        BY <2>d, <4>1 DEF Carried
    <3>4. Banded(d)'
      <4>1. E \subseteq DOMAIN MaxRmid
        BY <1>3, RmidAssumption
      <4>2. ASSUME NEW x \in d.ctx
            PROVE  /\ 1 <= x.rmid /\ x.numa = 0
                   /\ \A e \in E : x.rmid < MaxRmid[e]
        <5>1. PICK h \in H : x.numa = 0 /\ x.rmid = Lowest(FreeAt(Place[h], E))
          BY <2>4
        <5> QED
          BY <2>3, <4>1, <5>1
      <4> QED
        BY <2>d, <4>2 DEF Banded
    <3>5. Shadowed(d)'
      BY <2>4 DEF Shadowed
    <3> QED
      BY <3>1, <3>2, <3>3, <3>4, <3>5 DEF GroupOK
  <2>7. \A h \in Live : \A x \in d.ctx, y \in group[h].ctx :
          ~x.quiet /\ ~y.quiet /\ x.cluster = y.cluster => x.rmid # y.rmid
    BY <2>3, <2>4, UsedByGroup
  <2> QED
    BY <1>a, <1>3, <2>2, <2>6, <2>7, <2>d, GroupJoins
<1> QED
  BY <1>1, <1>2, <1>3 DEF mon_start_channels

LEMMA StopGroups ==
  ASSUME TypeOK, GroupsOK, Apart, NEW g \in Group, mon_stop(g)
  PROVE  GroupsOK' /\ Apart'
<1>1. PICK F \in SUBSET group[g].cores, G \in SUBSET group[g].channels :
        /\ assoc' = [c \in Core |-> IF c \in Returned(group[g].cores) \ F THEN RMID0 ELSE assoc[c]]
        /\ chan' = ClearedAll(group[g].channels \ G)
        /\ pmu' = PmuStopped(group[g].cores, F, group[g].event)
  BY DEF mon_stop
<1>2. g \in Live /\ cap' = cap /\ group' = [group EXCEPT ![g] = NoGroup]
  BY DEF mon_stop
<1>3. \A h \in Group : group'[h] = IF h = g THEN NoGroup ELSE group[h]
  BY <1>2 DEF TypeOK
<1>4. ASSUME NEW h \in Live, group'[h] = group[h]
      PROVE  Kept(group[h])
  <2>1. h # g /\ h \in Group
    BY <1>2, <1>3, <1>4 DEF Live
  <2>2. /\ group[g].cores \cap group[h].cores = {}
        /\ group[g].channels \cap group[h].channels = {}
    BY <1>2, <2>1, MembersApart
  <2>3. group[h].cores \subseteq Core /\ group[h].channels \subseteq Chan
    BY <2>1 DEF TypeOK, GroupData
  <2>4. WithPmu(group[h].cores, group[h].event) \subseteq group[h].cores
    BY DEF WithPmu
  <2>5. \A c \in group[h].cores : assoc'[c] = assoc[c]
    BY <1>1, <2>2, <2>3 DEF Returned
  <2>6. \A c \in group[h].channels : chan'[c] = chan[c]
    BY <1>1, <2>2, <2>3 DEF ClearedAll
  <2>7. pmu \ group[g].cores \subseteq pmu'
    BY <1>1 DEF PmuStopped
  <2> QED
    BY <2>2, <2>4, <2>5, <2>6, <2>7 DEF Kept
<1> QED
  BY <1>2, <1>3, <1>4, GroupsKept

\* Where no group is monitored there is nothing to keep apart.
LEMMA NoneLive ==
  ASSUME Live' = {}
  PROVE  GroupsOK' /\ Apart'
  BY DEF GroupsOK, Apart

-----------------------------------------------------------------------------
(* A process that is not there monitors nothing *)

\* Before pqos_init() no group is monitored, and the channels whose state the
\* library would find enabled are clear or known to be left over.
DownIdle ==
  ~up => /\ Live = {}
         /\ io = {} \/ \A h \in Tagging : chan[h] \in {RMID0, Off} \/ h \in lost

GroupInv == TypeOK /\ GroupsOK /\ Apart /\ DownIdle

LEMMA GroupInit == Init => GroupInv
<1> SUFFICES ASSUME Init PROVE GroupInv
  OBVIOUS
<1>1. Live = {}
  BY DEF Init, Live
<1>2. GroupsOK /\ Apart /\ DownIdle
  BY <1>1 DEF GroupsOK, Apart, DownIdle, Init
<1> QED
  BY <1>2, TypeInit DEF GroupInv

LEMMA GroupStep ==
  ASSUME "live" \notin Faults, GroupInv, [Next]_vars
  PROVE  GroupInv'
<1>1. TypeOK'
  BY TypeStep DEF GroupInv
<1> SUFFICES GroupsOK' /\ Apart' /\ DownIdle'
  BY <1>1 DEF GroupInv
<1> USE DEF GroupInv
<1>2. ASSUME NEW S \in (SUBSET Core) \ {{}}, NEW E \in Asked, NEW g \in Group,
             mon_start_cores(g, S, E)
      PROVE  GroupsOK' /\ Apart' /\ DownIdle'
  <2>1. up'
    BY <1>2 DEF mon_start_cores, vars
  <2> QED
    BY <1>2, <2>1, StartCoresGroups DEF DownIdle
<1>3. ASSUME NEW S \in (SUBSET Core) \ {{}}, NEW E \in Asked, mon_start_cores_fails(S, E)
      PROVE  GroupsOK' /\ Apart' /\ DownIdle'
  <2>1. up'
    BY <1>3 DEF mon_start_cores_fails
  <2> QED
    BY <1>3, <2>1, StartCoresFailsGroups DEF DownIdle
<1>4. ASSUME NEW g \in Group, NEW H \in (SUBSET Chan) \ {{}}, NEW E \in Asked,
             mon_start_channels(g, H, E)
      PROVE  GroupsOK' /\ Apart' /\ DownIdle'
  <2>1. up'
    BY <1>4 DEF mon_start_channels, vars
  <2> QED
    BY <1>4, <2>1, StartChannelsGroups DEF DownIdle
<1>5. ASSUME NEW g \in Group, mon_stop(g)
      PROVE  GroupsOK' /\ Apart' /\ DownIdle'
  <2>1. up'
    BY <1>5 DEF mon_stop
  <2> QED
    BY <1>5, <2>1, StopGroups DEF DownIdle
<1>6. ASSUME NEW cfg \in Configs, mon_reset(cfg)
      PROVE  GroupsOK' /\ Apart' /\ DownIdle'
  <2>1. up' /\ Live' = {}
    BY <1>6 DEF mon_reset, Can, Live
  <2> QED
    BY <2>1, NoneLive DEF DownIdle
<1>7. CASE Die
  <2>1. Live' = {}
    BY <1>7 DEF Die, Live
  <2>2. \A h \in Chan : chan'[h] \in {RMID0, Off} \/ h \in lost'
    BY <1>7 DEF Die
  <2>3. Tagging \subseteq Chan
    BY TopologyAssumption
  <2> QED
    BY <2>1, <2>2, <2>3, NoneLive DEF DownIdle
<1>8. CASE pqos_init
  <2>1. Live' = {}
    BY <1>8 DEF pqos_init, DownIdle, Live
  <2>2. UNCHANGED <<io, chan, lost>> /\ ~up
    BY <1>8 DEF pqos_init, hw
  <2> QED
    BY <2>1, <2>2, NoneLive DEF DownIdle
<1>9. CASE UNCHANGED vars
  <2>1. \A h \in Live : Kept(group[h])
    BY <1>9 DEF Kept, vars
  <2>2. GroupsOK' /\ Apart'
    BY <1>9, <2>1, GroupsKept DEF vars
  <2> QED
    BY <1>9, <2>2 DEF vars, DownIdle, Live
<1> QED
  BY <1>2, <1>3, <1>4, <1>5, <1>6, <1>7, <1>8, <1>9 DEF Next

-----------------------------------------------------------------------------
(* The properties of groups *)

\* Multiples of the RMIDs of a node keep the bands of two RMIDs apart.
LEMMA BandsApart ==
  ASSUME NEW R \in Nat, NEW a \in 1 .. R - 1, NEW b \in 1 .. R - 1,
         NEW m \in Nat, NEW n \in Nat, a + m * R = b + n * R
  PROVE  a = b
<1>1. ASSUME NEW i \in Nat, NEW j \in Nat, i < j
      PROVE  i * R + R <= j * R /\ i * R \in Nat /\ j * R \in Nat
  <2>1. i + 1 <= j
    BY <1>1
  <2>2. (i + 1) * R <= j * R
    BY <2>1
  <2>3. (i + 1) * R = i * R + R
    OBVIOUS
  <2>4. i * R \in Nat /\ j * R \in Nat
    OBVIOUS
  <2> QED
    BY <2>2, <2>3, <2>4
<1>2. CASE m < n
  BY <1>1, <1>2
<1>3. CASE n < m
  BY <1>1, <1>3
<1>4. CASE m = n
  <2>1. m * R \in Nat
    OBVIOUS
  <2> QED
    BY <1>4, <2>1
<1> QED
  BY <1>2, <1>3, <1>4

LEMMA BandIsNode ==
  ASSUME NEW r \in Nat, NEW n \in Nat, Lo(n) <= r, r <= Hi(n)
  PROVE  r \div RmidNuma = n
<1>1. RmidNuma \in Nat
  BY NodesFit
<1>2. RmidNuma * n + 1 <= r /\ r <= RmidNuma * n + RmidNuma - 1
  <2>1. RmidNuma * (n + 1) = RmidNuma * n + RmidNuma
    BY <1>1
  <2>2. RmidNuma * n \in Nat
    BY <1>1
  <2> QED
    BY <1>1, <2>1, <2>2 DEF Lo, Hi
<1>3. RmidNuma > 0
  BY <1>1, <1>2
<1>4. PICK R \in Nat : R = RmidNuma
  BY <1>1
<1>5. PICK q : q = r \div R
  OBVIOUS
<1>6. q \in Int /\ R * q <= r /\ r < R * q + R
  BY <1>3, <1>4, <1>5
<1>7. CASE q < n
  <2>1. R * (q + 1) <= R * n
    BY <1>6, <1>7
  <2>2. R * (q + 1) = R * q + R
    BY <1>6
  <2> QED
    BY <1>2, <1>4, <1>6, <2>1, <2>2
<1>8. CASE n < q
  <2>1. R * (n + 1) <= R * q
    BY <1>6, <1>8
  <2>2. R * (n + 1) = R * n + R
    OBVIOUS
  <2> QED
    BY <1>2, <1>4, <1>6, <2>1, <2>2
<1> QED
  BY <1>4, <1>5, <1>6, <1>7, <1>8

LEMMA ContextTyped ==
  ASSUME TypeOK, NEW g \in Live, NEW x \in group[g].ctx
  PROVE  /\ x.rmid \in Nat /\ x.numa \in Nat /\ x.quiet \in BOOLEAN
         /\ group[g].cores \subseteq Core
<1>1. x \in Ctx /\ group[g].cores \subseteq Core
  BY DEF TypeOK, GroupData, Live
<1>2. x.rmid \in Rmid /\ x.numa \in 0 .. SncNum - 1 /\ x.quiet \in BOOLEAN
  BY <1>1 DEF Ctx
<1> QED
  BY <1>1, <1>2, RmidAssumption, TopologyAssumption DEF Rmid

\* Each RMID that a group of cores polls in total mode belongs to one in a
\* register, of the first node.
LEMMA TotalBase ==
  ASSUME TypeOK, GroupsOK, NEW g \in Live, group[g].channels = {},
         NEW x \in group[g].ctx, cap.snc_mode = "TOTAL"
  PROVE  \E y \in group[g].ctx, n \in Nat :
           /\ ~y.quiet /\ y.cluster = x.cluster
           /\ y.rmid \in 1 .. RmidNuma - 1
           /\ x.rmid = y.rmid + n * RmidNuma
<1>1. group[g].cores # {} /\ Banded(group[g]) /\ Shadowed(group[g])
  BY DEF GroupsOK, GroupOK, OfOneKind
<1>2. ASSUME NEW y \in group[g].ctx, ~y.quiet
      PROVE  y.rmid \in 1 .. RmidNuma - 1
  <2>1. 1 <= y.rmid /\ y.rmid <= Hi(0) /\ y.rmid \in Nat
    BY <1>1, <1>2, ContextTyped DEF Banded
  <2> QED
    BY <2>1, NodesFit DEF Hi
<1>3. CASE x.quiet
  <2>1. PICK y \in group[g].ctx, n \in 1 .. SncNum - 1 :
          ~y.quiet /\ y.cluster = x.cluster /\ x.rmid = y.rmid + n * RmidNuma
    BY <1>1, <1>3 DEF Shadowed
  <2>2. n \in Nat
    BY TopologyAssumption
  <2> QED
    BY <1>2, <2>1, <2>2
<1>4. CASE ~x.quiet
  <2>1. x.rmid = x.rmid + 0 * RmidNuma
    BY NodesFit, ContextTyped
  <2> QED
    BY <1>2, <1>4, <2>1
<1> QED
  BY <1>3, <1>4

LEMMA ExclusiveFollows == GroupInv => RmidExclusive
<1> SUFFICES ASSUME GroupInv, NEW g \in Live, NEW h \in Live, g # h,
                    NEW p \in Rivals(g, h), p[1].rmid = p[2].rmid
             PROVE  FALSE
  BY DEF RmidExclusive
<1> USE DEF GroupInv
<1>1. PICK x \in group[g].ctx, y \in group[h].ctx : p = <<x, y>>
  BY DEF Rivals
<1>2. x.cluster = y.cluster /\ x.rmid = y.rmid
      /\ (x.quiet \/ y.quiet => group[g].channels \cup group[h].channels = {})
  BY <1>1 DEF Rivals
<1>3. CASE ~x.quiet /\ ~y.quiet
  BY <1>2, <1>3 DEF Apart
<1>4. CASE x.quiet \/ y.quiet
  <2>1. group[g].channels = {} /\ group[h].channels = {}
    BY <1>2, <1>4
  <2>2. cap.snc_mode = "TOTAL"
    BY <1>4 DEF GroupsOK, GroupOK, Shadowed
  <2>3. PICK a \in group[g].ctx, m \in Nat :
          /\ ~a.quiet /\ a.cluster = x.cluster
          /\ a.rmid \in 1 .. RmidNuma - 1
          /\ x.rmid = a.rmid + m * RmidNuma
    BY <2>1, <2>2, TotalBase
  <2>4. PICK b \in group[h].ctx, n \in Nat :
          /\ ~b.quiet /\ b.cluster = y.cluster
          /\ b.rmid \in 1 .. RmidNuma - 1
          /\ y.rmid = b.rmid + n * RmidNuma
    BY <2>1, <2>2, TotalBase
  <2>5. a.rmid = b.rmid
    <3>1. RmidNuma \in Nat /\ a.rmid + m * RmidNuma = b.rmid + n * RmidNuma
      BY <1>2, <2>3, <2>4, NodesFit
    <3> HIDE DEF RmidNuma
    <3> QED
      BY <2>3, <2>4, <3>1, BandsApart
  <2> QED
    BY <1>2, <2>3, <2>4, <2>5 DEF Apart
<1> QED
  BY <1>3, <1>4

LEMMA UsableFollows == GroupInv => RmidUsable
<1> SUFFICES ASSUME GroupInv, NEW g \in Live, NEW x \in group[g].ctx
             PROVE  /\ x.rmid # RMID0
                    /\ ~x.quiet => \A e \in group[g].event \cap CounterEvents : x.rmid < MaxRmid[e]
                    /\ SncNum > 1 /\ SncAgrees /\ ~x.quiet =>
                         \A c \in group[g].cores : assoc[c] = x.rmid /\ Cluster[c] = x.cluster =>
                           x.rmid \div RmidNuma = IF x.cluster \in snc THEN Numa[c] ELSE 0
  BY DEF RmidUsable
<1> USE DEF GroupInv
<1>1. Followed(group[g]) /\ Banded(group[g]) /\ Shadowed(group[g])
  BY DEF GroupsOK, GroupOK
<1>2. x.rmid # RMID0
  <2>1. CASE ~x.quiet
    BY <1>1, <2>1 DEF Banded, RMID0
  <2>2. CASE x.quiet
    <3>1. PICK y \in group[g].ctx, n \in 1 .. SncNum - 1 :
            ~y.quiet /\ x.rmid = y.rmid + n * RmidNuma
      BY <1>1, <2>2 DEF Shadowed
    <3>2. 1 <= y.rmid /\ y.rmid \in Nat
      BY <1>1, <3>1, ContextTyped DEF Banded
    <3>3. n * RmidNuma \in Nat
      BY NodesFit, TopologyAssumption
    <3> QED
      BY <3>1, <3>2, <3>3 DEF RMID0
  <2> QED
    BY <2>1, <2>2
<1>3. ~x.quiet => \A e \in group[g].event \cap CounterEvents : x.rmid < MaxRmid[e]
  BY <1>1 DEF Banded
<1>4. ASSUME SncNum > 1, SncAgrees, ~x.quiet, NEW c \in group[g].cores,
             assoc[c] = x.rmid, Cluster[c] = x.cluster
      PROVE  x.rmid \div RmidNuma = IF x.cluster \in snc THEN Numa[c] ELSE 0
  <2>1. c \in Core /\ x.cluster \in Clusters
    BY <1>4, ContextTyped DEF Clusters
  <2>2. PICK y \in group[g].ctx : ~y.quiet /\ y.numa = NodeOf(c) /\ assoc[c] = y.rmid
    BY <1>1 DEF Followed
  <2>3. Lo(y.numa) <= y.rmid /\ y.rmid <= Hi(y.numa) /\ y.rmid \in Nat /\ y.numa \in Nat
    BY <1>1, <2>2, ContextTyped DEF Banded
  <2>4. x.rmid \div RmidNuma = NodeOf(c)
    BY <1>4, <2>2, <2>3, BandIsNode
  <2>5. cap.snc_mode \in {"LOCAL", "TOTAL"}
    BY DEF TypeOK
  <2>6. CASE cap.snc_mode = "LOCAL"
    <3>1. NodeOf(c) = Numa[c] /\ x.cluster \in snc
      BY <1>4, <2>1, <2>6 DEF NodeOf, ByNuma, SncAgrees
    <3> QED
      BY <2>4, <3>1
  <2>7. CASE cap.snc_mode = "TOTAL"
    <3>1. NodeOf(c) = 0 /\ x.cluster \notin snc
      BY <1>4, <2>7 DEF NodeOf, ByNuma, SncAgrees
    <3> QED
      BY <2>4, <3>1
  <2> QED
    BY <2>5, <2>6, <2>7
<1> QED
  BY <1>2, <1>3, <1>4

LEMMA SoundFollows == GroupInv => GroupSound
<1>1. GroupInv => GroupFollowed
  BY DEF GroupInv, GroupsOK, GroupOK, Followed, GroupFollowed
<1> QED
  BY <1>1, UsableFollows DEF GroupSound

LEMMA GroupInvariant ==
  ASSUME "live" \notin Faults
  PROVE  Spec => []GroupInv
  BY GroupInit, GroupStep, PTL DEF Spec

(***************************************************************************)
(* RmidExclusive, for any number of groups, clusters and RMIDs: groups     *)
(* that are monitored at the same time poll RMIDs of their own in each     *)
(* cluster, though hw_mon_assoc_unused() only reads the registers, calls   *)
(* fail half way and processes die.  The hypothesis is what an application *)
(* owes the library: it does not reset monitoring under a live group.      *)
(***************************************************************************)
THEOREM GroupsCountApart ==
  ASSUME "live" \notin Faults
  PROVE  Spec => []RmidExclusive
  BY GroupInvariant, ExclusiveFollows, PTL

\* GroupSound, under the same hypothesis: the cores and channels of a group
\* carry the RMIDs hw_mon_start_cores() and hw_mon_start_channels() told it to
\* poll, and these are RMIDs that its events, and the nodes of its cores, have.
THEOREM GroupsAreSound ==
  ASSUME "live" \notin Faults
  PROVE  Spec => []GroupSound
  BY GroupInvariant, SoundFollows, PTL

-----------------------------------------------------------------------------
(* What is left in the registers *)

\* NothingStray is not inductive either: a group only stops the counters it
\* started, so counters must be those of a group that asked for them.
PmuOwned ==
  \A c \in pmu : c \in lost \/ \E g \in Live : c \in group[g].cores /\ "pmu" \in group[g].event

StrayInv == PmuOwned /\ NothingStray

\* A core or channel that is in use after a step was in use before it for the
\* same reason, or the step accounts for it.
LEMMA StrayStep ==
  ASSUME StrayInv, cap' = cap,
         \A c \in Core : assoc'[c] # RMID0 =>
           \/ c \in lost'
           \/ \E g \in Live' : c \in group'[g].cores
           \/ assoc[c] # RMID0 /\ c \notin lost /\
              \A g \in Live : c \in group[g].cores => g \in Live' /\ group'[g] = group[g],
         \A c \in pmu' :
           \/ c \in lost'
           \/ \E g \in Live' : c \in group'[g].cores /\ "pmu" \in group'[g].event
           \/ c \in pmu /\ c \notin lost /\
              \A g \in Live : c \in group[g].cores /\ "pmu" \in group[g].event =>
                g \in Live' /\ group'[g] = group[g],
         cap.iordt_on => \A h \in Tagging :
           \/ chan'[h] \in {RMID0, Off}
           \/ h \in lost'
           \/ \E g \in Live' : h \in group'[g].channels
           \/ chan[h] \notin {RMID0, Off} /\ h \notin lost /\
              \A g \in Live : h \in group[g].channels => g \in Live' /\ group'[g] = group[g]
  PROVE  StrayInv'
<1>1. \A c \in pmu' : c \in lost' \/ \E g \in Live' : c \in group'[g].cores
                                                    /\ "pmu" \in group'[g].event
  BY DEF StrayInv, PmuOwned
<1>2. \A c \in Core : assoc'[c] # RMID0 => c \in lost' \/ \E g \in Live' : c \in group'[g].cores
  BY DEF StrayInv, NothingStray
<1>3. cap.iordt_on => \A h \in Tagging : chan'[h] \in {RMID0, Off} \/
        h \in lost' \/ \E g \in Live' : h \in group'[g].channels
  BY DEF StrayInv, NothingStray
<1> QED
  BY <1>1, <1>2, <1>3 DEF StrayInv, PmuOwned, NothingStray

LEMMA StrayStartCores ==
  ASSUME GroupInv, StrayInv,
         NEW g \in Group, NEW S \in (SUBSET Core) \ {{}}, NEW E \in Asked,
         mon_start_cores(g, S, E)
  PROVE  StrayInv'
<1> USE DEF GroupInv
<1>a. g \notin Live /\ cap' = cap /\ lost' = lost /\ chan' = chan
  BY DEF mon_start_cores, vars
<1>1. CASE UNCHANGED vars
  BY <1>1 DEF StrayInv, PmuOwned, NothingStray, Live, vars
<1>2. CASE /\ pmu' = PmuStopped(S, {}, E)
           /\ UNCHANGED <<assoc, chan, io, snc, cap, up, group, lost>>
  <2>1. pmu' \subseteq pmu
    BY <1>2 DEF PmuStopped
  <2> QED
    BY <1>2, <2>1 DEF StrayInv, PmuOwned, NothingStray, Live
<1>3. CASE /\ Associate(S, CtxEvent(E))
           /\ pmu' = pmu \cup WithPmu(S, E)
           /\ group' = [group EXCEPT ![g] =
                [cores |-> S, channels |-> {}, event |-> E,
                 ctx |-> Contexts(S, CtxEvent(E))]]
  <2>1. /\ group'[g].cores = S /\ group'[g].event = E
        /\ \A h \in Group : h # g => group'[h] = group[h]
    BY <1>3 DEF TypeOK
  <2>2. g \in Live'
    BY <2>1 DEF Live, NoGroup
  <2>3. \A h \in Live : h \in Live' /\ group'[h] = group[h]
    BY <1>a, <2>1 DEF Live
  <2>4. \A c \in Core : c \notin S => assoc'[c] = assoc[c]
    BY <1>3 DEF Associate, Tagged
  <2>5. \A c \in pmu' : c \in pmu \/ (c \in S /\ "pmu" \in E)
    BY <1>3 DEF WithPmu
  <2> QED
    BY <1>a, <2>1, <2>2, <2>3, <2>4, <2>5, StrayStep
<1> QED
  BY <1>1, <1>2, <1>3 DEF mon_start_cores

LEMMA StrayStartCoresFails ==
  ASSUME GroupInv, StrayInv, NEW S \in (SUBSET Core) \ {{}}, NEW E \in Asked,
         mon_start_cores_fails(S, E)
  PROVE  StrayInv'
<1> USE DEF GroupInv
<1>1. PICK U \in SUBSET S, P \in SUBSET WithPmu(S, E) :
        /\ assoc' = Tagged(U, CtxEvent(E))
        /\ pmu' = (pmu \ WithPmu(S, E)) \cup P
        /\ lost' = lost \cup U \cup P
  BY DEF mon_start_cores_fails
<1>2. UNCHANGED <<chan, cap, group>> /\ Live' = Live
  BY DEF mon_start_cores_fails, Live
<1>3. \A c \in Core : c \notin U => assoc'[c] = assoc[c]
  BY <1>1 DEF Tagged
<1> QED
  BY <1>1, <1>2, <1>3, StrayStep

LEMMA StrayStartChannels ==
  ASSUME GroupInv, StrayInv,
         NEW g \in Group, NEW H \in (SUBSET Chan) \ {{}}, NEW E \in Asked,
         mon_start_channels(g, H, E)
  PROVE  StrayInv'
<1> USE DEF GroupInv
<1> DEFINE C == {[cluster |-> k, numa |-> 0, rmid |-> Lowest(FreeAt(k, E)),
                  quiet |-> FALSE] : k \in {Place[h] : h \in H}}
<1>a. g \notin Live /\ UNCHANGED <<cap, assoc, pmu>>
  BY DEF mon_start_channels, vars
<1>1. CASE UNCHANGED vars
  BY <1>1 DEF StrayInv, PmuOwned, NothingStray, Live, vars
<1>2. ASSUME NEW U \in SUBSET H,
             chan' = [h \in Chan |-> IF h \in H \ U THEN Cleared(h)
                                     ELSE TaggedChannels(U, E)[h]],
             lost' = lost \cup U, group' = group
      PROVE  StrayInv'
  <2>1. \A h \in Chan : \/ h \in lost'
                        \/ chan'[h] \in {RMID0, Off}
                        \/ chan'[h] = chan[h]
    BY <1>2, ClearedTyped DEF TaggedChannels
  <2>2. Live' = Live /\ Tagging \subseteq Chan
    BY <1>2, TopologyAssumption DEF Live
  <2> QED
    BY <1>a, <1>2, <2>1, <2>2, StrayStep
<1>3. CASE /\ chan' = TaggedChannels(H, E)
           /\ group' = [group EXCEPT ![g] =
                [cores |-> {}, channels |-> H, event |-> E, ctx |-> C]]
           /\ lost' = lost
  <2>1. /\ group'[g].channels = H
        /\ \A h \in Group : h # g => group'[h] = group[h]
    BY <1>3 DEF TypeOK
  <2>2. g \in Live'
    BY <2>1 DEF Live, NoGroup
  <2>3. \A h \in Live : h \in Live' /\ group'[h] = group[h]
    BY <1>a, <2>1 DEF Live
  <2>4. \A h \in Chan : h \notin H => chan'[h] = chan[h]
    BY <1>3 DEF TaggedChannels
  <2>5. Tagging \subseteq Chan
    BY TopologyAssumption
  <2> QED
    BY <1>a, <1>3, <2>1, <2>2, <2>3, <2>4, <2>5, StrayStep
<1> QED
  BY <1>1, <1>2, <1>3 DEF mon_start_channels

LEMMA StrayStop ==
  ASSUME GroupInv, StrayInv, NEW g \in Group, mon_stop(g)
  PROVE  StrayInv'
<1> USE DEF GroupInv
<1>1. PICK F \in SUBSET group[g].cores, G \in SUBSET group[g].channels :
        /\ assoc' = [c \in Core |-> IF c \in Returned(group[g].cores) \ F THEN RMID0 ELSE assoc[c]]
        /\ chan' = ClearedAll(group[g].channels \ G)
        /\ pmu' = PmuStopped(group[g].cores, F, group[g].event)
        /\ lost' = lost \cup F \cup G
  BY DEF mon_stop
<1>2. cap' = cap /\ \A h \in Group : h # g => group'[h] = group[h]
  BY DEF mon_stop, TypeOK
<1>3. \A h \in Live : h # g => h \in Live' /\ group'[h] = group[h]
  BY <1>2 DEF Live
<1>4. \A c \in Core : assoc'[c] # RMID0 => c \in lost' \/ (assoc'[c] = assoc[c] /\ c \notin group[g].cores)
  BY <1>1 DEF Returned
<1>5. \A c \in pmu' : c \in lost' \/ (c \in pmu /\ ~(c \in group[g].cores /\ "pmu" \in group[g].event))
  BY <1>1 DEF PmuStopped
<1>6. \A h \in Chan : \/ h \in lost'
                      \/ chan'[h] \in {RMID0, Off}
                      \/ chan'[h] = chan[h] /\ h \notin group[g].channels
  BY <1>1, ClearedTyped DEF ClearedAll
<1>7. Tagging \subseteq Chan /\ lost \subseteq lost'
  BY <1>1, TopologyAssumption
<1> QED
  BY <1>2, <1>3, <1>4, <1>5, <1>6, <1>7, StrayStep

\* A reset finds no group: everything in use is left over.
LEMMA StrayReset ==
  ASSUME StrayInv, Live = {}, NEW cfg \in Configs, mon_reset(cfg)
  PROVE  StrayInv'
<1>a. Live' = {} /\ Tagging \subseteq Chan
  BY TopologyAssumption DEF mon_reset, Live
<1>b. /\ pmu \subseteq lost
      /\ \A c \in Core : assoc[c] # RMID0 => c \in lost
      /\ cap.iordt_on => \A h \in Tagging : chan[h] \in {RMID0, Off} \/ h \in lost
  BY DEF StrayInv, PmuOwned, NothingStray
<1>1. CASE mon_reset_assoc_fails
  <2>1. PICK F \in SUBSET Core, G \in SUBSET Tagging :
          /\ Reset(F, G)
          /\ lost' = lost \cap (F \cup G \cup pmu \cup (IF cap.iordt_on THEN {} ELSE Chan))
          /\ UNCHANGED <<pmu, cap>>
    BY <1>1 DEF mon_reset_assoc_fails
  <2>2. \A c \in Core : assoc'[c] # RMID0 => c \in F /\ assoc'[c] = assoc[c]
    BY <2>1 DEF Reset
  <2>3. cap.iordt_on => \A h \in Tagging : chan'[h] \in {RMID0, Off}
                                          \/ (h \in G /\ chan'[h] = chan[h])
    BY <1>a, <2>1, ClearedTyped DEF Reset, ClearedAll
  <2>4. pmu' \subseteq lost'
    BY <1>b, <2>1
  <2>5. \A c \in Core : assoc'[c] # RMID0 => c \in lost'
    BY <1>b, <2>1, <2>2
  <2>6. cap'.iordt_on => \A h \in Tagging : chan'[h] \in {RMID0, Off} \/ h \in lost'
    BY <1>b, <2>1, <2>3
  <2> QED
    BY <2>4, <2>5, <2>6 DEF StrayInv, PmuOwned, NothingStray
<1>2. CASE mon_reset_iordt_fails(cfg)
  <2>1. Reset({}, {}) /\ lost' = lost \cap pmu /\ UNCHANGED <<pmu, cap>>
    BY <1>2 DEF mon_reset_iordt_fails
  <2>2. \A c \in Core : assoc'[c] = RMID0
    BY <2>1 DEF Reset
  <2>3. cap.iordt_on => \A h \in Tagging : chan'[h] \in {RMID0, Off}
    BY <1>a, <2>1, ClearedTyped DEF Reset, ClearedAll
  <2> QED
    BY <1>b, <2>1, <2>2, <2>3 DEF StrayInv, PmuOwned, NothingStray
<1>3. CASE mon_reset_configures(cfg)
  <2>1. PICK G \in SUBSET Tagging, B \in SUBSET Clusters :
          /\ SwitchIo(cfg, G)
          /\ cap' = [iordt_on |-> WantIo(cfg), snc_mode |-> SncMode(cfg, B)]
          /\ lost' = (lost \cap pmu) \cup G
          /\ UNCHANGED pmu
    BY <1>3 DEF mon_reset_configures
  <2>2. \A c \in Core : assoc'[c] = RMID0
    BY <2>1 DEF SwitchIo
  <2>3. cap'.iordt_on => \A h \in Tagging : chan'[h] \in {RMID0, Off} \/ h \in lost'
    BY <1>a, <2>1, ClearedTyped DEF SwitchIo, ClearedAll
  <2> QED
    BY <1>b, <2>1, <2>2, <2>3 DEF StrayInv, PmuOwned, NothingStray
<1> QED
  BY <1>1, <1>2, <1>3 DEF mon_reset

LEMMA StrayInitialised ==
  ASSUME DownIdle, StrayInv, pqos_init
  PROVE  StrayInv'
<1>1. UNCHANGED <<assoc, pmu, chan, io, lost, group>> /\ Live' = Live /\ ~up
  BY DEF pqos_init, hw, Live
<1>2. Live = {} /\ (io = {} \/ \A h \in Tagging : chan[h] \in {RMID0, Off} \/ h \in lost)
  BY <1>1 DEF DownIdle
<1>3. cap'.iordt_on => io # {} \/ cap.iordt_on
  BY DEF pqos_init
<1>4. cap'.iordt_on => \A h \in Tagging : chan'[h] \in {RMID0, Off} \/ h \in lost'
  BY <1>1, <1>2, <1>3 DEF StrayInv, NothingStray
<1> QED
  BY <1>1, <1>4 DEF StrayInv, PmuOwned, NothingStray

LEMMA StrayNext ==
  ASSUME "live" \notin Faults, GroupInv, StrayInv, [Next]_vars
  PROVE  StrayInv'
<1>1. ASSUME NEW cfg \in Configs, mon_reset(cfg)
      PROVE  StrayInv'
  BY <1>1, StrayReset DEF mon_reset, Can
<1>2. CASE Die
  <2>1. lost' = {c \in Core : assoc'[c] # RMID0 \/ c \in pmu'}
                  \cup {h \in Chan : chan[h] \notin {RMID0, Off}}
        /\ chan' = chan /\ Tagging \subseteq Chan
    BY <1>2, TopologyAssumption DEF Die
  <2>2. pmu' \subseteq Core
    BY <1>2, DieTyped DEF GroupInv, TypeOK
  <2> QED
    BY <2>1, <2>2 DEF StrayInv, PmuOwned, NothingStray
<1>3. CASE pqos_init
  BY <1>3, StrayInitialised DEF GroupInv
<1>4. CASE UNCHANGED vars
  BY <1>4 DEF StrayInv, PmuOwned, NothingStray, Live, vars
<1> QED
  BY <1>1, <1>2, <1>3, <1>4, StrayStartCores, StrayStartCoresFails, StrayStartChannels,
     StrayStop DEF Next

\* NothingStray, under the same hypothesis: mon_stop() gives back every core
\* and channel that was started and stops the counters, so that only a process
\* that died or a register that failed leaves something tagged.
THEOREM NothingIsLeftOver ==
  ASSUME "live" \notin Faults
  PROVE  Spec => []NothingStray
<1>1. Init => StrayInv
  BY DEF Init, StrayInv, PmuOwned, NothingStray
<1>2. GroupInv /\ StrayInv /\ [Next]_vars => StrayInv'
  BY StrayNext
<1>3. StrayInv => NothingStray
  BY DEF StrayInv
<1> QED
  BY <1>1, <1>2, <1>3, GroupInvariant, PTL DEF Spec

-----------------------------------------------------------------------------
(***************************************************************************)
(* The MMIO interface (MmioMon).                                           *)
(***************************************************************************)
-----------------------------------------------------------------------------
(* The search for an RMID *)

LEMMA CoreSearch ==
  ASSUME NEW c \in Core, NEW E, FreeForCore(c, E) # {}
  PROVE  LET r == RmidOf(c, E)
         IN /\ r \in Rmid /\ r \in Nat /\ 1 <= r
            /\ r <= CpuMax[CpuDomain[c]]
            /\ r \notin CoresUse(Cluster[c])
            /\ \A e \in E \cap DOMAIN MaxRmid : r < MaxRmid[e]
<1>1. FreeForCore(c, E) \in SUBSET Nat
  BY RmidAssumption DEF FreeForCore, Rmid
<1>2. RmidOf(c, E) \in FreeForCore(c, E)
  BY <1>1, LowestIsLeast DEF RmidOf
<1>3. \A e \in E \cap DOMAIN MaxRmid : EventMax(E) <= MaxRmid[e] /\ MaxRmid[e] \in Int
  BY EventMaxBounds, RmidAssumption
<1>4. EventMax(E) \in Int /\ RmidNum \in Int
  BY EventMaxBounds, RmidAssumption
<1> QED
  BY <1>2, <1>3, <1>4 DEF FreeForCore, Rmid

\* Cores of a domain are given the same RMID.
LEMMA DomainShares ==
  ASSUME NEW c \in Core, NEW b \in Core, CpuDomain[b] = CpuDomain[c], NEW E
  PROVE  RmidOf(b, E) = RmidOf(c, E)
<1>1. Cluster[b] = Cluster[c]
  BY DomainAssumption
<1> QED
  BY <1>1 DEF RmidOf, FreeForCore

LEMMA ChannelSearch ==
  ASSUME NEW d, DevMax[d] \in Nat, FreeForDomain(d) # {}
  PROVE  LET r == Lowest(FreeForDomain(d))
         IN /\ r \in Nat /\ r \in 1 .. DevMax[d]
            /\ \A h \in ChannelsOf(d) : chan[h] # r
<1>1. FreeForDomain(d) \in SUBSET Nat
  BY DEF FreeForDomain
<1>2. Lowest(FreeForDomain(d)) \in FreeForDomain(d)
  BY <1>1, LowestIsLeast
<1> QED
  BY <1>2 DEF FreeForDomain

-----------------------------------------------------------------------------
(* Type correctness *)

LEMMA ZeroTyped == RMID0 \in Rmid /\ RMID0 \in Nat /\ Rmid \subseteq Nat /\ RMID0 # Off
  BY RmidAssumption DEF Rmid, RMID0, Off

LEMMA MmioClearedTyped ==
  ASSUME NEW h
  PROVE  Cleared(h) \in Nat \cup {Off} /\ Cleared(h) \in {RMID0, Off}
  BY ZeroTyped DEF Cleared

LEMMA MmioClearedAllTyped ==
  ASSUME MmioTypeOK, NEW H
  PROVE  ClearedAll(H) \in [Chan -> Nat \cup {Off}]
  BY MmioClearedTyped DEF ClearedAll, MmioTypeOK

LEMMA MmioTypeInit == Init => MmioTypeOK
<1> SUFFICES ASSUME Init PROVE MmioTypeOK
  OBVIOUS
<1>1. NoGroup \in MmioGroup
  BY DEF NoGroup, MmioGroup
<1>2. assoc \in [Core -> Rmid] /\ group \in [Group -> MmioGroup]
  BY <1>1, ZeroTyped DEF Init
<1>3. Boot \subseteq Nat
  BY ZeroTyped, RmidAssumption
<1>4. chan \in [Chan -> Nat \cup {Off}]
  BY <1>3 DEF Init
<1>5. cap \in [iordt_on : BOOLEAN, snc_mode : {"LOCAL", "TOTAL"}]
  BY DEF Init
<1>6. pmu \subseteq Core /\ io \subseteq Clusters /\ snc \subseteq Clusters
      /\ lost \subseteq Core \cup Chan /\ up \in BOOLEAN
  BY DEF Init
<1> QED
  BY <1>2, <1>4, <1>5, <1>6 DEF MmioTypeOK

LEMMA TaggedCoresTyped ==
  ASSUME MmioTypeOK, NEW S \in SUBSET Core, NEW E, \A c \in S : FreeForCore(c, E) # {}
  PROVE  TaggedCores(S, E) \in [Core -> Rmid]
<1>1. \A c \in S : RmidOf(c, E) \in Rmid
  BY CoreSearch
<1> QED
  BY <1>1 DEF TaggedCores, MmioTypeOK

LEMMA MmioStartCoresTyped ==
  ASSUME MmioTypeOK, NEW g \in Group, NEW S \in (SUBSET Core) \ {{}}, NEW E \in Asked,
         mmio_mon_start_cores(g, S, E)
  PROVE  MmioTypeOK'
<1> DEFINE want  == E \cap MmioEvents
           found == \A c \in S : FreeForCore(c, want) # {}
<1>0. UNCHANGED <<chan, io, snc, cap, up>>
  BY DEF mmio_mon_start_cores
<1>a. PmuStopped(S, {}, E) \subseteq Core /\ WithPmu(S, E) \subseteq Core
  BY DEF PmuStopped, WithPmu, MmioTypeOK
<1>1. CASE UNCHANGED <<assoc, pmu, group, lost>>
  BY <1>0, <1>1 DEF MmioTypeOK
<1>2. CASE pmu' = PmuStopped(S, {}, E) /\ UNCHANGED <<assoc, group, lost>>
  BY <1>0, <1>a, <1>2 DEF MmioTypeOK
<1>3. CASE /\ found
           /\ assoc' = TaggedCores(S, want)
           /\ pmu' = PmuStopped(S, {}, E)
           /\ lost' = lost \cup S
           /\ UNCHANGED group
  <2>1. assoc' \in [Core -> Rmid]
    BY <1>3, TaggedCoresTyped
  <2> QED
    BY <1>0, <1>a, <1>3, <2>1 DEF MmioTypeOK
<1>4. CASE /\ found
           /\ assoc' = TaggedCores(S, want)
           /\ pmu' = pmu \cup WithPmu(S, E)
           /\ group' = [group EXCEPT ![g] = [cores |-> S, channels |-> {}, event |-> E,
                                            ctx |-> CoreContexts(S, want)]]
           /\ UNCHANGED lost
  <2>1. assoc' \in [Core -> Rmid]
    BY <1>4, TaggedCoresTyped
  <2>2. \A c \in S : [domain |-> CpuDomain[c], rmid |-> RmidOf(c, want)] \in MmioCtx
    BY <1>4, CoreSearch DEF MmioCtx, Domains
  <2>3. CoreContexts(S, want) \subseteq MmioCtx
    BY <2>2 DEF CoreContexts
  <2>4. group' \in [Group -> MmioGroup]
    BY <1>4, <2>3 DEF MmioTypeOK, MmioGroup
  <2> QED
    BY <1>0, <1>a, <1>4, <2>1, <2>4 DEF MmioTypeOK
<1> QED
  BY <1>1, <1>2, <1>3, <1>4 DEF mmio_mon_start_cores

LEMMA MmioStartCoresFailsTyped ==
  ASSUME MmioTypeOK, NEW S \in (SUBSET Core) \ {{}}, NEW E \in Asked,
         mmio_mon_start_cores_fails(S, E)
  PROVE  MmioTypeOK'
<1>1. PICK U \in SUBSET S, P \in SUBSET WithPmu(S, E) :
        /\ U # {} => \A c \in S : FreeForCore(c, E \cap MmioEvents) # {}
        /\ assoc' = TaggedCores(U, E \cap MmioEvents)
        /\ pmu' = (pmu \ WithPmu(S, E)) \cup P
        /\ lost' = lost \cup U \cup P
  BY DEF mmio_mon_start_cores_fails
<1>2. assoc' \in [Core -> Rmid]
  BY <1>1, TaggedCoresTyped
<1>3. P \subseteq Core
  BY DEF WithPmu
<1> QED
  BY <1>1, <1>2, <1>3 DEF MmioTypeOK, mmio_mon_start_cores_fails

\* The channels of a start have a domain, and RMIDs of it.
LEMMA TaggedInTyped ==
  ASSUME MmioTypeOK, NEW H \in SUBSET Chan,
         \A h \in H : DevDomain[h] # NoPlace /\ FreeForDomain(DevDomain[h]) # {}
  PROVE  TaggedIn(H) \in [Chan -> Nat \cup {Off}]
<1>1. \A h \in H : Lowest(FreeForDomain(DevDomain[h])) \in Nat
  BY ChannelSearch, DomainAssumption
<1> QED
  BY <1>1 DEF TaggedIn, MmioTypeOK

LEMMA MmioStartChannelsTyped ==
  ASSUME MmioTypeOK, NEW g \in Group, NEW H \in (SUBSET Chan) \ {{}}, NEW E \in Asked,
         mmio_mon_start_channels(g, H, E)
  PROVE  MmioTypeOK'
<1> DEFINE domains == {DevDomain[h] : h \in H}
           found   == /\ NoPlace \notin domains
                      /\ \A d \in domains : ~DomainUnreadable(d) /\ FreeForDomain(d) # {}
<1>0. UNCHANGED <<assoc, pmu, io, snc, cap, up>>
  BY DEF mmio_mon_start_channels
<1>1. CASE UNCHANGED <<chan, group, lost>>
  BY <1>0, <1>1 DEF MmioTypeOK
<1>2. ASSUME NEW U \in SUBSET H, U # {} => found,
             chan' = returned_channels(H, U), lost' = lost \cup U, UNCHANGED group
      PROVE  MmioTypeOK'
  <2>1. TaggedIn(U) \in [Chan -> Nat \cup {Off}]
    BY <1>2, TaggedInTyped
  <2>2. chan' \in [Chan -> Nat \cup {Off}]
    BY <1>2, <2>1, MmioClearedTyped DEF returned_channels
  <2> QED
    BY <1>0, <1>2, <2>2 DEF MmioTypeOK
<1>3. CASE /\ found
           /\ chan' = TaggedIn(H)
           /\ group' = [group EXCEPT ![g] =
                [cores |-> {}, channels |-> H, event |-> E,
                 ctx |-> {[domain |-> d, rmid |-> Lowest(FreeForDomain(d))] : d \in domains}]]
           /\ UNCHANGED lost
  <2>1. chan' \in [Chan -> Nat \cup {Off}]
    BY <1>3, TaggedInTyped
  <2>2. \A d \in domains : [domain |-> d, rmid |-> Lowest(FreeForDomain(d))] \in MmioCtx
    BY <1>3, ChannelSearch, DomainAssumption DEF MmioCtx, Domains
  <2>3. group' \in [Group -> MmioGroup]
    BY <1>3, <2>2 DEF MmioTypeOK, MmioGroup
  <2> QED
    BY <1>0, <1>3, <2>1, <2>3 DEF MmioTypeOK
<1> QED
  BY <1>1, <1>2, <1>3 DEF mmio_mon_start_channels

LEMMA MmioStopTyped ==
  ASSUME MmioTypeOK, NEW g \in Group, mmio_mon_stop(g)
  PROVE  MmioTypeOK'
<1>1. PICK F \in SUBSET group[g].cores, G \in SUBSET group[g].channels :
        /\ assoc' = [c \in Core |-> IF c \in Returned(group[g].cores) \ F THEN RMID0 ELSE assoc[c]]
        /\ chan' = ClearedAll(group[g].channels \ G)
        /\ pmu' = PmuStopped(group[g].cores, F, group[g].event)
        /\ lost' = lost \cup F \cup G
  BY DEF mmio_mon_stop
<1>2. assoc' \in [Core -> Rmid]
  BY <1>1, ZeroTyped DEF MmioTypeOK
<1>3. group[g].cores \subseteq Core /\ group[g].channels \subseteq Chan
  BY DEF MmioTypeOK, MmioGroup
<1>4. pmu' \subseteq Core /\ lost' \subseteq Core \cup Chan
  BY <1>1, <1>3 DEF MmioTypeOK, PmuStopped
<1>5. NoGroup \in MmioGroup
  BY DEF NoGroup, MmioGroup
<1>6. group' \in [Group -> MmioGroup]
  BY <1>5 DEF mmio_mon_stop, MmioTypeOK
<1>7. chan' \in [Chan -> Nat \cup {Off}]
  BY <1>1, MmioClearedAllTyped
<1> QED
  BY <1>2, <1>4, <1>6, <1>7 DEF mmio_mon_stop, MmioTypeOK

LEMMA MmioResetTyped ==
  ASSUME MmioTypeOK, NEW cfg \in Configs, mon_reset(cfg)
  PROVE  MmioTypeOK'
<1>0. cfg \in Config /\ UNCHANGED <<up, group>> /\ Tagging \subseteq Chan
  BY InputAssumption, TopologyAssumption DEF mon_reset
<1>a. ASSUME NEW F, NEW G, Reset(F, G)
      PROVE  assoc' \in [Core -> Rmid] /\ chan' \in [Chan -> Nat \cup {Off}]
  <2>1. assoc' \in [Core -> Rmid]
    BY <1>a, ZeroTyped DEF Reset, MmioTypeOK
  <2>2. chan' = ClearedAll(Tagging \ G) \/ chan' = chan
    BY <1>a DEF Reset
  <2>3. chan' \in [Chan -> Nat \cup {Off}]
    BY <2>2, MmioClearedAllTyped DEF MmioTypeOK
  <2> QED
    BY <2>1, <2>3
<1>1. CASE mon_reset_assoc_fails
  <2>1. PICK F \in SUBSET Core, G \in SUBSET Tagging : Reset(F, G)
    BY <1>1 DEF mon_reset_assoc_fails
  <2>2. lost' \subseteq lost /\ UNCHANGED <<pmu, io, snc, cap>>
    BY <1>1 DEF mon_reset_assoc_fails
  <2> QED
    BY <1>0, <1>a, <2>1, <2>2 DEF MmioTypeOK
<1>2. CASE mon_reset_iordt_fails(cfg)
  <2>1. Reset({}, {}) /\ UNCHANGED <<pmu, snc, cap>> /\ lost' \subseteq lost
    BY <1>2 DEF mon_reset_iordt_fails
  <2>2. io' \subseteq Clusters
    BY <1>2 DEF mon_reset_iordt_fails, MmioTypeOK
  <2> QED
    BY <1>0, <1>a, <2>1, <2>2 DEF MmioTypeOK
<1>3. CASE mon_reset_configures(cfg)
  <2>1. PICK G \in SUBSET Tagging, B \in SUBSET Clusters :
          /\ cfg.snc = "ANY" \/ SncNum = 1 => B = {}
          /\ SwitchIo(cfg, G)
          /\ snc' = IF cfg.snc = "LOCAL" THEN snc \cup B ELSE snc \ B
          /\ cap' = [iordt_on |-> WantIo(cfg), snc_mode |-> SncMode(cfg, B)]
          /\ lost' = (lost \cap pmu) \cup G
          /\ UNCHANGED pmu
    BY <1>3 DEF mon_reset_configures
  <2>2. cap.iordt_on \in BOOLEAN /\ cap.snc_mode \in {"LOCAL", "TOTAL"}
    BY DEF MmioTypeOK
  <2>3. WantIo(cfg) \in BOOLEAN
    BY <1>0, <2>2 DEF WantIo, Config
  <2>4. SncMode(cfg, B) = cap.snc_mode
    BY <2>1, SomeCluster, DomainAssumption DEF SncMode
  <2>5. cap' \in [iordt_on : BOOLEAN, snc_mode : {"LOCAL", "TOTAL"}]
    BY <2>1, <2>2, <2>3, <2>4
  <2>6. io' \subseteq Clusters /\ snc' \subseteq Clusters /\ lost' \subseteq Core \cup Chan
    BY <1>0, <2>1 DEF SwitchIo, MmioTypeOK
  <2>7. assoc' \in [Core -> Rmid]
    BY <2>1, ZeroTyped DEF SwitchIo
  <2>8. chan' = ClearedAll(Tagging \ G) \/ chan' = chan
    BY <2>1 DEF SwitchIo
  <2>9. chan' \in [Chan -> Nat \cup {Off}]
    BY <2>8, MmioClearedAllTyped DEF MmioTypeOK
  <2> QED
    BY <1>0, <2>1, <2>5, <2>6, <2>7, <2>9 DEF MmioTypeOK
<1> QED
  BY <1>1, <1>2, <1>3 DEF mon_reset

LEMMA MmioDieTyped ==
  ASSUME MmioTypeOK, MmioDie
  PROVE  MmioTypeOK'
<1>1. PICK S \in SUBSET Core : assoc' = [c \in Core |->
        IF c \in S /\ assoc[c] = RMID0 /\ FreeForCore(c, {}) # {} THEN RmidOf(c, {}) ELSE assoc[c]]
  BY DEF MmioDie
<1>2. \A c \in Core : FreeForCore(c, {}) # {} => RmidOf(c, {}) \in Rmid
  BY CoreSearch
<1>3. assoc' \in [Core -> Rmid]
  BY <1>1, <1>2 DEF MmioTypeOK
<1>4. NoGroup \in MmioGroup
  BY DEF NoGroup, MmioGroup
<1>5. group' \in [Group -> MmioGroup]
  BY <1>4 DEF MmioDie
<1> QED
  BY <1>3, <1>5 DEF MmioDie, MmioTypeOK

LEMMA MmioInitialisedTyped ==
  ASSUME MmioTypeOK, pqos_init
  PROVE  MmioTypeOK'
<1>1. cap' \in [iordt_on : BOOLEAN, snc_mode : {"LOCAL", "TOTAL"}]
  BY DEF pqos_init, MmioTypeOK
<1>2. up' \in BOOLEAN
  BY DEF pqos_init
<1> QED
  BY <1>1, <1>2 DEF pqos_init, MmioTypeOK, hw

LEMMA MmioTypeStep == MmioTypeOK /\ [MmioNext]_vars => MmioTypeOK'
<1> SUFFICES ASSUME MmioTypeOK, [MmioNext]_vars PROVE MmioTypeOK'
  OBVIOUS
<1>1. CASE UNCHANGED vars
  BY <1>1 DEF MmioTypeOK, vars
<1>2. CASE MmioNext
  BY <1>2, MmioStartCoresTyped, MmioStartCoresFailsTyped, MmioStartChannelsTyped,
     MmioStopTyped, MmioResetTyped, MmioDieTyped, MmioInitialisedTyped DEF MmioNext
<1> QED
  BY <1>1, <1>2

-----------------------------------------------------------------------------
(* Groups *)

(***************************************************************************)
(* CountsItself needs to know besides that every RMID a group polls is in  *)
(* a register of its own domain (MmioCarried): only then does the search   *)
(* of the next start leave it alone.                                       *)
(***************************************************************************)
MmioKind(d) ==
  \/ d.cores # {} /\ d.channels = {}
  \/ d.cores = {} /\ d.channels # {} /\ d.channels \subseteq Tagging

MmioFollowed(d) ==
  /\ \A c \in d.cores : \E x \in d.ctx : x.domain = CpuDomain[c] /\ x.rmid = assoc[c]
  /\ \A h \in d.channels : \E x \in d.ctx : x.domain = DevDomain[h] /\ x.rmid = chan[h]

MmioCarried(d) ==
  \A x \in d.ctx :
    /\ d.cores # {} => \E c \in d.cores : CpuDomain[c] = x.domain /\ assoc[c] = x.rmid
    /\ d.channels # {} => \E h \in d.channels : DevDomain[h] = x.domain /\ chan[h] = x.rmid

MmioExact(d) ==
  \A x \in d.ctx :
    /\ \A c \in d.cores : CpuDomain[c] = x.domain => assoc[c] = x.rmid
    /\ \A h \in d.channels : DevDomain[h] = x.domain => chan[h] = x.rmid
    /\ \A c \in Core : d.cores # {} /\ CpuDomain[c] = x.domain /\ assoc[c] = x.rmid =>
         c \in d.cores
    /\ \A h \in Tagging : d.channels # {} /\ DevDomain[h] = x.domain /\ chan[h] = x.rmid =>
         h \in d.channels

MmioRange(d) ==
  \A x \in d.ctx :
    /\ d.cores # {} => /\ x.rmid \in 1 .. CpuMax[x.domain]
                       /\ \A e \in d.event \cap MmioEvents : x.rmid < MaxRmid[e]
    /\ d.channels # {} => x.rmid \in 1 .. DevMax[x.domain]

MmioGroupOK(d) ==
  MmioKind(d) /\ MmioFollowed(d) /\ MmioCarried(d) /\ MmioExact(d) /\ MmioRange(d)

MmioGroupsOK == \A g \in Live : MmioGroupOK(group[g])

\* A step that takes no register of a group, and tags others only with RMIDs
\* its search found in no register of the domain.
MmioKept(d) ==
  /\ \A c \in d.cores : assoc'[c] = assoc[c]
  /\ \A h \in d.channels : chan'[h] = chan[h]

FreshCores == \A c \in Core : assoc'[c] \in {assoc[c], RMID0} \/ assoc'[c] \notin CoresUse(Cluster[c])

FreshChannels ==
  \A h \in Tagging : \/ chan'[h] \in {chan[h], RMID0, Off}
                     \/ \A i \in ChannelsOf(DevDomain[h]) : chan[i] # chan'[h]

LEMMA MmioKeptIsOK ==
  ASSUME NEW d \in MmioGroup, MmioGroupOK(d), MmioKept(d), FreshCores, FreshChannels
  PROVE  MmioGroupOK(d)'
<1>0. d.cores \subseteq Core /\ d.channels \subseteq Chan
  BY DEF MmioGroup
<1>1. MmioKind(d)' /\ MmioRange(d)'
  BY DEF MmioGroupOK, MmioKind, MmioRange
<1>2. MmioFollowed(d)' /\ MmioCarried(d)'
  BY DEF MmioGroupOK, MmioFollowed, MmioCarried, MmioKept
<1>3. ASSUME NEW x \in d.ctx
      PROVE  /\ \A c \in d.cores : CpuDomain[c] = x.domain => assoc'[c] = x.rmid
             /\ \A h \in d.channels : DevDomain[h] = x.domain => chan'[h] = x.rmid
  BY DEF MmioGroupOK, MmioExact, MmioKept
<1>4. ASSUME NEW x \in d.ctx, NEW c \in Core,
             d.cores # {}, CpuDomain[c] = x.domain, assoc'[c] = x.rmid
      PROVE  c \in d.cores
  <2>1. x.rmid # RMID0
    BY <1>4 DEF MmioGroupOK, MmioRange, RMID0
  <2>2. PICK b \in d.cores : CpuDomain[b] = x.domain /\ assoc[b] = x.rmid
    BY <1>4 DEF MmioGroupOK, MmioCarried
  <2>3. Cluster[b] = Cluster[c] /\ b \in Core
    BY <1>0, <1>4, <2>2, DomainAssumption
  <2>4. x.rmid \in CoresUse(Cluster[c])
    BY <2>2, <2>3 DEF CoresUse
  <2>5. assoc'[c] = assoc[c]
    BY <1>4, <2>1, <2>4 DEF FreshCores
  <2> QED
    BY <1>4, <2>5 DEF MmioGroupOK, MmioExact
<1>5. ASSUME NEW x \in d.ctx, NEW h \in Tagging,
             d.channels # {}, DevDomain[h] = x.domain, chan'[h] = x.rmid
      PROVE  h \in d.channels
  <2>1. x.rmid # RMID0 /\ x.rmid # Off
    BY <1>5 DEF MmioGroupOK, MmioRange, RMID0, Off
  <2>2. PICK i \in d.channels : DevDomain[i] = x.domain /\ chan[i] = x.rmid
    BY <1>5 DEF MmioGroupOK, MmioCarried
  <2>3. i \in ChannelsOf(DevDomain[h])
    BY <1>5, <2>2 DEF ChannelsOf, MmioGroupOK, MmioKind
  <2>4. chan'[h] = chan[h]
    BY <1>5, <2>1, <2>2, <2>3 DEF FreshChannels
  <2> QED
    BY <1>5, <2>4 DEF MmioGroupOK, MmioExact
<1>6. MmioExact(d)'
  BY <1>3, <1>4, <1>5 DEF MmioExact
<1> QED
  BY <1>1, <1>2, <1>6 DEF MmioGroupOK

LEMMA MmioGroupsKept ==
  ASSUME MmioTypeOK, MmioGroupsOK, DomainRmidExclusive,
         \A g \in Group : group'[g] = group[g] \/ group'[g] = NoGroup,
         \A g \in Live : group'[g] = group[g] => MmioKept(group[g]),
         FreshCores, FreshChannels
  PROVE  MmioGroupsOK' /\ DomainRmidExclusive'
<1>1. \A g \in Live' : g \in Live /\ group'[g] = group[g]
  BY DEF Live
<1>2. ASSUME NEW g \in Live'
      PROVE  MmioGroupOK(group[g])'
  <2>1. PICK d : d = group[g]
    OBVIOUS
  <2>2. g \in Live /\ group'[g] = d /\ d \in MmioGroup
    BY <1>1, <2>1 DEF Live, MmioTypeOK
  <2>3. MmioGroupOK(d) /\ MmioKept(d)
    BY <2>1, <2>2 DEF MmioGroupsOK
  <2>4. MmioGroupOK(d)'
    BY <2>2, <2>3, MmioKeptIsOK
  <2> QED
    BY <2>2, <2>4
<1>3. DomainRmidExclusive'
  BY <1>1 DEF DomainRmidExclusive
<1> QED
  BY <1>2, <1>3 DEF MmioGroupsOK

LEMMA MmioGroupJoins ==
  ASSUME MmioTypeOK, MmioGroupsOK, DomainRmidExclusive,
         NEW g \in Group, g \notin Live, NEW d,
         group' = [group EXCEPT ![g] = d],
         \A h \in Live : MmioKept(group[h]),
         FreshCores, FreshChannels,
         MmioGroupOK(d)',
         \A h \in Live : (d.cores = {} <=> group[h].cores = {}) => d.ctx \cap group[h].ctx = {}
  PROVE  MmioGroupsOK' /\ DomainRmidExclusive'
<1>1. \A h \in Group : group'[h] = IF h = g THEN d ELSE group[h]
  BY DEF MmioTypeOK
<1>2. \A h \in Live' : h = g \/ (h \in Live /\ group'[h] = group[h])
  BY <1>1 DEF Live
<1>3. ASSUME NEW h \in Live'
      PROVE  MmioGroupOK(group[h])'
  <2>1. CASE h = g
    BY <1>1, <2>1
  <2>2. CASE h # g
    <3>1. PICK e : e = group[h]
      OBVIOUS
    <3>2. h \in Live /\ group'[h] = e /\ e \in MmioGroup
      BY <1>2, <2>2, <3>1 DEF Live, MmioTypeOK
    <3>3. MmioGroupOK(e) /\ MmioKept(e)
      BY <3>1, <3>2 DEF MmioGroupsOK
    <3>4. MmioGroupOK(e)'
      BY <3>2, <3>3, MmioKeptIsOK
    <3> QED
      BY <3>2, <3>4
  <2> QED
    BY <2>1, <2>2
<1>4. DomainRmidExclusive'
  <2> SUFFICES ASSUME NEW h \in Live', NEW i \in Live', h # i,
                      group'[h].cores = {} <=> group'[i].cores = {}
               PROVE  group'[h].ctx \cap group'[i].ctx = {}
    BY DEF DomainRmidExclusive
  <2>1. h \in Group /\ i \in Group
    BY DEF Live
  <2>2. CASE h = g
    <3>1. i \in Live /\ group'[i] = group[i] /\ group'[h] = d
      BY <1>1, <1>2, <2>1, <2>2
    <3> QED
      BY <3>1
  <2>3. CASE i = g
    <3>1. h \in Live /\ group'[h] = group[h] /\ group'[i] = d
      BY <1>1, <1>2, <2>1, <2>3
    <3> QED
      BY <3>1
  <2>4. CASE h # g /\ i # g
    <3>1. h \in Live /\ i \in Live /\ group'[h] = group[h] /\ group'[i] = group[i]
      BY <1>2, <2>4
    <3> QED
      BY <3>1 DEF DomainRmidExclusive
  <2> QED
    BY <2>2, <2>3, <2>4
<1> QED
  BY <1>3, <1>4 DEF MmioGroupsOK

\* What a group polls, the searches of other starts see.
LEMMA MmioUsed ==
  ASSUME MmioTypeOK, MmioGroupsOK, NEW g \in Live, NEW x \in group[g].ctx
  PROVE  /\ group[g].cores # {} => \A c \in Core : CpuDomain[c] = x.domain =>
                                     x.rmid \in CoresUse(Cluster[c])
         /\ group[g].cores = {} => \E i \in ChannelsOf(x.domain) : chan[i] = x.rmid
<1>0. MmioKind(group[g]) /\ MmioCarried(group[g])
  BY DEF MmioGroupsOK, MmioGroupOK
<1>1. ASSUME group[g].cores # {}, NEW c \in Core, CpuDomain[c] = x.domain
      PROVE  x.rmid \in CoresUse(Cluster[c])
  <2>1. PICK b \in group[g].cores : CpuDomain[b] = x.domain /\ assoc[b] = x.rmid
    BY <1>0, <1>1 DEF MmioCarried
  <2>2. b \in Core
    BY DEF MmioTypeOK, MmioGroup, Live
  <2>3. Cluster[b] = Cluster[c]
    BY <1>1, <2>1, <2>2, DomainAssumption
  <2> QED
    BY <2>1, <2>2, <2>3 DEF CoresUse
<1>2. ASSUME group[g].cores = {}
      PROVE  \E i \in ChannelsOf(x.domain) : chan[i] = x.rmid
  BY <1>0, <1>2 DEF MmioKind, MmioCarried, ChannelsOf
<1> QED
  BY <1>1, <1>2

LEMMA MmioMembersTagged ==
  ASSUME MmioTypeOK, MmioGroupsOK, NEW g \in Live
  PROVE  /\ \A c \in group[g].cores : assoc[c] # RMID0
         /\ \A h \in group[g].channels : chan[h] # RMID0
<1>1. MmioKind(group[g]) /\ MmioFollowed(group[g]) /\ MmioRange(group[g])
  BY DEF MmioGroupsOK, MmioGroupOK
<1>2. \A x \in group[g].ctx : x.rmid # RMID0
  BY <1>1 DEF MmioRange, MmioKind, RMID0
<1> QED
  BY <1>1, <1>2 DEF MmioFollowed

LEMMA MmioMembersApart ==
  ASSUME MmioTypeOK, MmioGroupsOK, DomainRmidExclusive,
         NEW g \in Live, NEW h \in Live, g # h
  PROVE  /\ group[g].cores \cap group[h].cores = {}
         /\ group[g].channels \cap group[h].channels = {}
<1>0. /\ MmioKind(group[g]) /\ MmioFollowed(group[g])
      /\ MmioKind(group[h]) /\ MmioFollowed(group[h])
  BY DEF MmioGroupsOK, MmioGroupOK
<1>a. group[g].ctx \subseteq MmioCtx /\ group[h].ctx \subseteq MmioCtx
  BY DEF MmioTypeOK, MmioGroup, Live
<1>b. ASSUME NEW x \in group[g].ctx, NEW y \in group[h].ctx,
             x.domain = y.domain, x.rmid = y.rmid
      PROVE  x = y
  <2>1. x \in MmioCtx /\ y \in MmioCtx
    BY <1>a
  <2> QED
    BY <1>b, <2>1 DEF MmioCtx
<1>1. ASSUME NEW c \in group[g].cores, c \in group[h].cores
      PROVE  FALSE
  <2>1. PICK x \in group[g].ctx : x.domain = CpuDomain[c] /\ x.rmid = assoc[c]
    BY <1>0, <1>1 DEF MmioFollowed
  <2>2. PICK y \in group[h].ctx : y.domain = CpuDomain[c] /\ y.rmid = assoc[c]
    BY <1>0, <1>1 DEF MmioFollowed
  <2>3. x = y
    BY <1>b, <2>1, <2>2
  <2>4. group[g].ctx \cap group[h].ctx = {}
    BY <1>1 DEF DomainRmidExclusive
  <2> QED
    BY <2>3, <2>4
<1>2. ASSUME NEW i \in group[g].channels, i \in group[h].channels
      PROVE  FALSE
  <2>1. PICK x \in group[g].ctx : x.domain = DevDomain[i] /\ x.rmid = chan[i]
    BY <1>0, <1>2 DEF MmioFollowed
  <2>2. PICK y \in group[h].ctx : y.domain = DevDomain[i] /\ y.rmid = chan[i]
    BY <1>0, <1>2 DEF MmioFollowed
  <2>3. x = y
    BY <1>b, <2>1, <2>2
  <2>4. group[g].ctx \cap group[h].ctx = {}
    BY <1>0, <1>2 DEF DomainRmidExclusive, MmioKind
  <2> QED
    BY <2>3, <2>4
<1> QED
  BY <1>1, <1>2

-----------------------------------------------------------------------------
(* The steps of cores and channels *)

\* A step that writes idle cores or channels only takes nothing of a group.
LEMMA MmioIdleIsKept ==
  ASSUME MmioTypeOK, MmioGroupsOK, NEW S \in SUBSET Core, NEW H \in SUBSET Chan,
         Idle(S), IdleChannels(H),
         \A c \in Core \ S : assoc'[c] = assoc[c],
         \A h \in Chan \ H : chan'[h] = chan[h],
         NEW g \in Live
  PROVE  MmioKept(group[g])
<1>1. group[g].cores \cap S = {} /\ group[g].channels \cap H = {}
  BY MmioMembersTagged DEF Idle, IdleChannels
<1>2. group[g].cores \subseteq Core /\ group[g].channels \subseteq Chan
  BY DEF MmioTypeOK, MmioGroup, Live
<1> QED
  BY <1>1, <1>2 DEF MmioKept

\* Tagging with what the search of cores found is fresh, and so for channels.
LEMMA TaggedCoresFresh ==
  ASSUME NEW S \in SUBSET Core, NEW E, \A c \in S : FreeForCore(c, E) # {},
         assoc' = TaggedCores(S, E)
  PROVE  FreshCores /\ \A c \in Core \ S : assoc'[c] = assoc[c]
<1>1. \A c \in S : RmidOf(c, E) \notin CoresUse(Cluster[c])
  BY CoreSearch
<1> QED
  BY <1>1 DEF FreshCores, TaggedCores

LEMMA TaggedInFresh ==
  ASSUME NEW H \in SUBSET Chan,
         \A h \in H : DevDomain[h] # NoPlace /\ FreeForDomain(DevDomain[h]) # {},
         NEW h \in Chan
  PROVE  \/ h \notin H /\ TaggedIn(H)[h] = chan[h]
         \/ h \in H /\ \A i \in ChannelsOf(DevDomain[h]) : chan[i] # TaggedIn(H)[h]
<1>1. CASE h \notin H
  BY <1>1 DEF TaggedIn
<1>2. CASE h \in H
  <2>1. DevMax[DevDomain[h]] \in Nat
    BY <1>2, DomainAssumption
  <2>2. \A i \in ChannelsOf(DevDomain[h]) : chan[i] # Lowest(FreeForDomain(DevDomain[h]))
    BY <1>2, <2>1, ChannelSearch
  <2> QED
    BY <1>2, <2>2 DEF TaggedIn
<1> QED
  BY <1>1, <1>2

LEMMA SameIsFresh ==
  /\ assoc' = assoc => FreshCores
  /\ chan' = chan => FreshChannels
  BY DEF FreshCores, FreshChannels

LEMMA MmioStartCoresGroups ==
  ASSUME MmioTypeOK, MmioGroupsOK, DomainRmidExclusive,
         NEW g \in Group, NEW S \in (SUBSET Core) \ {{}}, NEW E \in Asked,
         mmio_mon_start_cores(g, S, E)
  PROVE  MmioGroupsOK' /\ DomainRmidExclusive'
<1> DEFINE valid == Idle(S) /\ Listed(E)
           want  == E \cap MmioEvents
           found == \A c \in S : FreeForCore(c, want) # {}
           all   == E \subseteq MmioEvents \cup {"pmu"}
<1>a. chan' = chan /\ cap' = cap /\ g \notin Live /\ IdleChannels({}) /\ S \in SUBSET Core
  BY DEF mmio_mon_start_cores, IdleChannels
<1>1. CASE UNCHANGED <<assoc, group>>
  <2>1. \A h \in Live : MmioKept(group[h])
    BY <1>a, <1>1 DEF MmioKept
  <2> QED
    BY <1>a, <1>1, <2>1, MmioGroupsKept, SameIsFresh
<1>2. CASE valid /\ found /\ assoc' = TaggedCores(S, want)
  <2>1. FreshCores /\ FreshChannels /\ \A c \in Core \ S : assoc'[c] = assoc[c]
    BY <1>a, <1>2, TaggedCoresFresh, SameIsFresh
  <2>2. \A h \in Live : MmioKept(group[h])
    BY <1>a, <1>2, <2>1, MmioIdleIsKept
  <2>3. CASE group' = group
    BY <2>1, <2>2, <2>3, MmioGroupsKept
  <2>4. CASE group' = [group EXCEPT ![g] = [cores |-> S, channels |-> {}, event |-> E,
                                            ctx |-> CoreContexts(S, want)]]
    <3>a. PICK d : d = [cores |-> S, channels |-> {}, event |-> E,
                        ctx |-> CoreContexts(S, want)]
      OBVIOUS
    <3>d. /\ d.cores = S /\ d.channels = {} /\ d.event = E
          /\ group' = [group EXCEPT ![g] = d]
      BY <2>4, <3>a
    <3>1. \A x \in d.ctx : \E c \in S : x.domain = CpuDomain[c] /\ x.rmid = RmidOf(c, want)
      <4>1. d.ctx = CoreContexts(S, want)
        BY <3>a
      <4> HIDE DEF want
      <4> QED
        BY <4>1 DEF CoreContexts
    <3>2. \A c \in S : \E x \in d.ctx : x.domain = CpuDomain[c] /\ x.rmid = RmidOf(c, want)
      <4> TAKE c \in S
      <4> DEFINE x == [domain |-> CpuDomain[c], rmid |-> RmidOf(c, want)]
      <4>1. x \in d.ctx
        BY <3>a DEF CoreContexts
      <4> QED
        BY <4>1
    <3>3. \A c \in S : /\ assoc'[c] = RmidOf(c, want)
                       /\ RmidOf(c, want) \in 1 .. CpuMax[CpuDomain[c]]
                       /\ RmidOf(c, want) \notin CoresUse(Cluster[c])
                       /\ \A e \in want : RmidOf(c, want) < MaxRmid[e]
      <4> TAKE c \in S
      <4>1. FreeForCore(c, want) # {} /\ want \subseteq DOMAIN MaxRmid
        BY <1>2 DEF Listed
      <4>2. CpuMax[CpuDomain[c]] \in Nat
        BY DomainAssumption
      <4>3. assoc'[c] = RmidOf(c, want)
        BY <1>2 DEF TaggedCores
      <4> HIDE DEF want
      <4>4. /\ RmidOf(c, want) \in Nat /\ 1 <= RmidOf(c, want)
            /\ RmidOf(c, want) <= CpuMax[CpuDomain[c]]
            /\ RmidOf(c, want) \notin CoresUse(Cluster[c])
            /\ \A e \in want \cap DOMAIN MaxRmid : RmidOf(c, want) < MaxRmid[e]
        BY <4>1, CoreSearch
      <4> QED
        BY <4>1, <4>2, <4>3, <4>4
    <3>4. MmioGroupOK(d)'
      <4>1. MmioKind(d)'
        BY <3>d DEF MmioKind
      <4>2. MmioFollowed(d)'
        BY <3>d, <3>2, <3>3 DEF MmioFollowed
      <4>3. MmioCarried(d)'
        BY <3>d, <3>1, <3>3 DEF MmioCarried
      <4>4. MmioRange(d)'
        <5>1. ASSUME NEW x \in d.ctx
              PROVE  x.rmid \in 1 .. CpuMax[x.domain]
                     /\ \A e \in E \cap MmioEvents : x.rmid < MaxRmid[e]
          BY <3>1, <3>3
        <5> QED
          BY <3>d, <5>1 DEF MmioRange
      <4>5. MmioExact(d)'
        <5> SUFFICES ASSUME NEW x \in d.ctx
                     PROVE  /\ \A c \in S : CpuDomain[c] = x.domain => assoc'[c] = x.rmid
                            /\ \A c \in Core : CpuDomain[c] = x.domain /\ assoc'[c] = x.rmid =>
                                 c \in S
          BY <3>d DEF MmioExact
        <5>1. PICK b \in S : x.domain = CpuDomain[b] /\ x.rmid = RmidOf(b, want)
          BY <3>1
        <5>2. \A c \in S : CpuDomain[c] = x.domain => assoc'[c] = x.rmid
          BY <3>3, <5>1, DomainShares
        <5>3. ASSUME NEW c \in Core, CpuDomain[c] = x.domain, assoc'[c] = x.rmid, c \notin S
              PROVE  FALSE
          <6>1. Cluster[b] = Cluster[c]
            BY <5>1, <5>3, DomainAssumption
          <6>2. assoc[c] = x.rmid
            BY <2>1, <5>3
          <6>3. x.rmid \in CoresUse(Cluster[b])
            BY <6>1, <6>2 DEF CoresUse
          <6> QED
            BY <3>3, <5>1, <6>3
        <5> QED
          BY <5>2, <5>3
      <4> QED
        BY <4>1, <4>2, <4>3, <4>4, <4>5 DEF MmioGroupOK
    <3>5. ASSUME NEW h \in Live, group[h].cores # {}, NEW x \in d.ctx, x \in group[h].ctx
          PROVE  FALSE
      <4>1. PICK c \in S : x.domain = CpuDomain[c] /\ x.rmid = RmidOf(c, want)
        BY <3>1
      <4>2. x.rmid \in CoresUse(Cluster[c])
        BY <3>5, <4>1, MmioUsed
      <4> QED
        BY <3>3, <4>1, <4>2
    <3>6. \A h \in Live : (d.cores = {} <=> group[h].cores = {}) => d.ctx \cap group[h].ctx = {}
      BY <3>d, <3>5
    <3> QED
      BY <1>a, <2>1, <2>2, <3>d, <3>4, <3>6, MmioGroupJoins
  <2> QED
    BY <1>1, <1>2, <2>3, <2>4 DEF mmio_mon_start_cores
<1> QED
  BY <1>1, <1>2 DEF mmio_mon_start_cores

LEMMA MmioStartCoresFailsGroups ==
  ASSUME MmioTypeOK, MmioGroupsOK, DomainRmidExclusive,
         NEW S \in (SUBSET Core) \ {{}}, NEW E \in Asked,
         mmio_mon_start_cores_fails(S, E)
  PROVE  MmioGroupsOK' /\ DomainRmidExclusive'
<1>1. PICK U \in SUBSET S :
        /\ U # {} => \A c \in S : FreeForCore(c, E \cap MmioEvents) # {}
        /\ assoc' = TaggedCores(U, E \cap MmioEvents)
  BY DEF mmio_mon_start_cores_fails
<1>2. Idle(U) /\ IdleChannels({}) /\ UNCHANGED <<chan, cap, group>>
  BY DEF mmio_mon_start_cores_fails, IdleChannels, Idle
<1>3. FreshCores /\ FreshChannels /\ \A c \in Core \ U : assoc'[c] = assoc[c]
  BY <1>1, <1>2, TaggedCoresFresh, SameIsFresh
<1>4. \A h \in Live : MmioKept(group[h])
  BY <1>2, <1>3, MmioIdleIsKept
<1> QED
  BY <1>2, <1>3, <1>4, MmioGroupsKept

LEMMA MmioStartChannelsGroups ==
  ASSUME MmioTypeOK, MmioGroupsOK, DomainRmidExclusive,
         NEW g \in Group, NEW H \in (SUBSET Chan) \ {{}}, NEW E \in Asked,
         mmio_mon_start_channels(g, H, E)
  PROVE  MmioGroupsOK' /\ DomainRmidExclusive'
<1> DEFINE domains == {DevDomain[h] : h \in H}
           found   == /\ NoPlace \notin domains
                      /\ \A d \in domains : ~DomainUnreadable(d) /\ FreeForDomain(d) # {}
           C == {[domain |-> d, rmid |-> Lowest(FreeForDomain(d))] : d \in domains}
<1>a. assoc' = assoc /\ g \notin Live /\ Idle({}) /\ H \in SUBSET Chan /\ Tagging \subseteq Chan
  BY TopologyAssumption DEF mmio_mon_start_channels, Idle
<1>1. CASE UNCHANGED <<chan, group>>
  <2>1. \A h \in Live : MmioKept(group[h])
    BY <1>a, <1>1 DEF MmioKept
  <2> QED
    BY <1>a, <1>1, <2>1, MmioGroupsKept, SameIsFresh
<1>2. ASSUME NEW U \in SUBSET H, U # {} => found, IdleChannels(H),
             chan' = returned_channels(H, U), UNCHANGED group
      PROVE  MmioGroupsOK' /\ DomainRmidExclusive'
  <2>1. \A h \in U : DevDomain[h] # NoPlace /\ FreeForDomain(DevDomain[h]) # {}
    BY <1>2
  <2>2. ASSUME NEW h \in Chan
        PROVE  /\ h \notin H => chan'[h] = chan[h]
               /\ \/ chan'[h] \in {chan[h], RMID0, Off}
                  \/ \A i \in ChannelsOf(DevDomain[h]) : chan[i] # chan'[h]
    <3>1. CASE h \in H \ U
      BY <1>2, <3>1, MmioClearedTyped DEF returned_channels
    <3>2. CASE h \notin H \ U
      <4>1. chan'[h] = TaggedIn(U)[h]
        BY <1>2, <3>2 DEF returned_channels
      <4>2. \/ h \notin U /\ TaggedIn(U)[h] = chan[h]
            \/ h \in U /\ \A i \in ChannelsOf(DevDomain[h]) : chan[i] # TaggedIn(U)[h]
        BY <2>1, TaggedInFresh
      <4> QED
        BY <4>1, <4>2
    <3> QED
      BY <3>1, <3>2
  <2>3. FreshCores /\ FreshChannels
    BY <1>a, <2>2, SameIsFresh DEF FreshChannels
  <2>4. \A h \in Live : MmioKept(group[h])
    BY <1>a, <1>2, <2>2, MmioIdleIsKept
  <2> QED
    BY <1>2, <2>3, <2>4, MmioGroupsKept
<1>3. CASE /\ found /\ IdleChannels(H) /\ H \subseteq Tagging
           /\ chan' = TaggedIn(H)
           /\ group' = [group EXCEPT ![g] =
                [cores |-> {}, channels |-> H, event |-> E, ctx |-> C]]
  <2>0. \A h \in H : DevDomain[h] # NoPlace /\ FreeForDomain(DevDomain[h]) # {}
    BY <1>3
  <2>1. \A h \in Chan : /\ h \notin H => chan'[h] = chan[h]
                        /\ h \in H => \A i \in ChannelsOf(DevDomain[h]) : chan[i] # chan'[h]
    BY <1>3, <2>0, TaggedInFresh
  <2>2. FreshCores /\ FreshChannels
    BY <1>a, <2>1, SameIsFresh DEF FreshChannels
  <2>3. \A h \in Live : MmioKept(group[h])
    BY <1>a, <1>3, <2>1, MmioIdleIsKept
  <2>a. PICK d : d = [cores |-> {}, channels |-> H, event |-> E, ctx |-> C]
    OBVIOUS
  <2>d. /\ d.cores = {} /\ d.channels = H
        /\ group' = [group EXCEPT ![g] = d]
    BY <1>3, <2>a
  <2>4. \A h \in H : chan'[h] = Lowest(FreeForDomain(DevDomain[h]))
    BY <1>3 DEF TaggedIn
  <2>5. \A x \in d.ctx : \E h \in H :
          x.domain = DevDomain[h] /\ x.rmid = Lowest(FreeForDomain(DevDomain[h]))
    BY <2>a
  <2>6. \A h \in H : \E x \in d.ctx : x.domain = DevDomain[h] /\ x.rmid = chan'[h]
    <3> TAKE h \in H
    <3> DEFINE x == [domain |-> DevDomain[h], rmid |-> Lowest(FreeForDomain(DevDomain[h]))]
    <3>1. x \in d.ctx
      BY <2>a
    <3> QED
      BY <2>4, <3>1
  <2>7. MmioGroupOK(d)'
    <3>1. MmioKind(d)'
      BY <1>3, <2>d DEF MmioKind
    <3>2. MmioFollowed(d)'
      BY <2>d, <2>6 DEF MmioFollowed
    <3>3. MmioCarried(d)'
      BY <2>d, <2>4, <2>5 DEF MmioCarried
    <3>4. MmioRange(d)'
      <4>1. ASSUME NEW x \in d.ctx
            PROVE  x.rmid \in 1 .. DevMax[x.domain]
        <5>1. PICK h \in H : x.domain = DevDomain[h]
                             /\ x.rmid = Lowest(FreeForDomain(DevDomain[h]))
          BY <2>5
        <5>2. DevMax[DevDomain[h]] \in Nat /\ FreeForDomain(DevDomain[h]) # {}
          BY <2>0, DomainAssumption
        <5> QED
          BY <5>1, <5>2, ChannelSearch
      <4> QED
        BY <2>d, <4>1 DEF MmioRange
    <3>5. MmioExact(d)'
      <4> SUFFICES ASSUME NEW x \in d.ctx
                   PROVE  /\ \A h \in H : DevDomain[h] = x.domain => chan'[h] = x.rmid
                          /\ \A h \in Tagging : DevDomain[h] = x.domain /\ chan'[h] = x.rmid =>
                               h \in H
        BY <2>d DEF MmioExact
      <4>1. PICK b \in H : x.domain = DevDomain[b] /\ x.rmid = chan'[b]
        BY <2>4, <2>5
      <4>2. \A h \in H : DevDomain[h] = x.domain => chan'[h] = x.rmid
        BY <2>4, <4>1
      <4>3. ASSUME NEW h \in Tagging, DevDomain[h] = x.domain, chan'[h] = x.rmid, h \notin H
            PROVE  FALSE
        <5>1. chan[h] = x.rmid /\ h \in ChannelsOf(DevDomain[b])
          BY <1>a, <2>1, <4>1, <4>3 DEF ChannelsOf
        <5>2. chan[h] # chan'[b]
          BY <2>1, <5>1
        <5> QED
          BY <4>1, <5>1, <5>2
      <4> QED
        BY <4>2, <4>3
    <3> QED
      BY <3>1, <3>2, <3>3, <3>4, <3>5 DEF MmioGroupOK
  <2>8. ASSUME NEW h \in Live, group[h].cores = {}, NEW x \in d.ctx, x \in group[h].ctx
        PROVE  FALSE
    <3>1. PICK b \in H : x.domain = DevDomain[b] /\ x.rmid = chan'[b]
      BY <2>4, <2>5
    <3>2. PICK i \in ChannelsOf(x.domain) : chan[i] = x.rmid
      BY <2>8, MmioUsed
    <3>3. chan[i] # chan'[b]
      BY <2>1, <3>1
    <3> QED
      BY <3>1, <3>2, <3>3
  <2>9. \A h \in Live : (d.cores = {} <=> group[h].cores = {}) => d.ctx \cap group[h].ctx = {}
    BY <2>d, <2>8
  <2> QED
    BY <1>a, <2>2, <2>3, <2>d, <2>7, <2>9, MmioGroupJoins
<1> QED
  BY <1>1, <1>2, <1>3 DEF mmio_mon_start_channels

LEMMA MmioStopGroups ==
  ASSUME MmioTypeOK, MmioGroupsOK, DomainRmidExclusive, NEW g \in Group, mmio_mon_stop(g)
  PROVE  MmioGroupsOK' /\ DomainRmidExclusive'
<1>1. PICK F \in SUBSET group[g].cores, G \in SUBSET group[g].channels :
        /\ assoc' = [c \in Core |-> IF c \in Returned(group[g].cores) \ F THEN RMID0 ELSE assoc[c]]
        /\ chan' = ClearedAll(group[g].channels \ G)
  BY DEF mmio_mon_stop
<1>2. g \in Live /\ group' = [group EXCEPT ![g] = NoGroup]
  BY DEF mmio_mon_stop
<1>3. \A h \in Group : group'[h] = IF h = g THEN NoGroup ELSE group[h]
  BY <1>2 DEF MmioTypeOK
<1>4. ASSUME NEW h \in Live, group'[h] = group[h]
      PROVE  MmioKept(group[h])
  <2>1. h # g /\ h \in Group
    BY <1>2, <1>3, <1>4 DEF Live
  <2>2. /\ group[g].cores \cap group[h].cores = {}
        /\ group[g].channels \cap group[h].channels = {}
    BY <1>2, <2>1, MmioMembersApart
  <2>3. group[h].cores \subseteq Core /\ group[h].channels \subseteq Chan
    BY <2>1 DEF MmioTypeOK, MmioGroup
  <2>4. \A c \in group[h].cores : assoc'[c] = assoc[c]
    BY <1>1, <2>2, <2>3 DEF Returned
  <2>5. \A c \in group[h].channels : chan'[c] = chan[c]
    BY <1>1, <2>2, <2>3 DEF ClearedAll
  <2> QED
    BY <2>4, <2>5 DEF MmioKept
<1>5. FreshCores
  BY <1>1 DEF FreshCores
<1>6. FreshChannels
  BY <1>1, MmioClearedTyped, TopologyAssumption DEF FreshChannels, ClearedAll
<1> QED
  BY <1>2, <1>3, <1>4, <1>5, <1>6, MmioGroupsKept

-----------------------------------------------------------------------------
(* The properties *)

MmioInv == MmioTypeOK /\ MmioGroupsOK /\ DomainRmidExclusive /\ DownIdle

LEMMA MmioInit == Init => MmioInv
<1> SUFFICES ASSUME Init PROVE MmioInv
  OBVIOUS
<1>1. Live = {}
  BY DEF Init, Live
<1>2. MmioGroupsOK /\ DomainRmidExclusive /\ DownIdle
  BY <1>1 DEF MmioGroupsOK, DomainRmidExclusive, DownIdle, Init
<1> QED
  BY <1>2, MmioTypeInit DEF MmioInv

LEMMA MmioNoneLive ==
  ASSUME Live' = {}
  PROVE  MmioGroupsOK' /\ DomainRmidExclusive'
  BY DEF MmioGroupsOK, DomainRmidExclusive

LEMMA MmioStep ==
  ASSUME "live" \notin Faults, MmioInv, [MmioNext]_vars
  PROVE  MmioInv'
<1>1. MmioTypeOK'
  BY MmioTypeStep DEF MmioInv
<1> SUFFICES MmioGroupsOK' /\ DomainRmidExclusive' /\ DownIdle'
  BY <1>1 DEF MmioInv
<1> USE DEF MmioInv
<1>2. ASSUME NEW S \in (SUBSET Core) \ {{}}, NEW E \in Asked, NEW g \in Group,
             mmio_mon_start_cores(g, S, E)
      PROVE  MmioGroupsOK' /\ DomainRmidExclusive' /\ DownIdle'
  <2>1. up'
    BY <1>2 DEF mmio_mon_start_cores
  <2> QED
    BY <1>2, <2>1, MmioStartCoresGroups DEF DownIdle
<1>3. ASSUME NEW S \in (SUBSET Core) \ {{}}, NEW E \in Asked,
             mmio_mon_start_cores_fails(S, E)
      PROVE  MmioGroupsOK' /\ DomainRmidExclusive' /\ DownIdle'
  <2>1. up'
    BY <1>3 DEF mmio_mon_start_cores_fails
  <2> QED
    BY <1>3, <2>1, MmioStartCoresFailsGroups DEF DownIdle
<1>4. ASSUME NEW g \in Group, NEW H \in (SUBSET Chan) \ {{}}, NEW E \in Asked,
             mmio_mon_start_channels(g, H, E)
      PROVE  MmioGroupsOK' /\ DomainRmidExclusive' /\ DownIdle'
  <2>1. up'
    BY <1>4 DEF mmio_mon_start_channels
  <2> QED
    BY <1>4, <2>1, MmioStartChannelsGroups DEF DownIdle
<1>5. ASSUME NEW g \in Group, mmio_mon_stop(g)
      PROVE  MmioGroupsOK' /\ DomainRmidExclusive' /\ DownIdle'
  <2>1. up'
    BY <1>5 DEF mmio_mon_stop
  <2> QED
    BY <1>5, <2>1, MmioStopGroups DEF DownIdle
<1>6. ASSUME NEW cfg \in Configs, mon_reset(cfg)
      PROVE  MmioGroupsOK' /\ DomainRmidExclusive' /\ DownIdle'
  <2>1. up' /\ Live' = {}
    BY <1>6 DEF mon_reset, Can, Live
  <2> QED
    BY <2>1, MmioNoneLive DEF DownIdle
<1>7. CASE MmioDie
  <2>1. Live' = {}
    BY <1>7 DEF MmioDie, Live
  <2>2. \A h \in Chan : chan'[h] \in {RMID0, Off} \/ h \in lost'
    BY <1>7 DEF MmioDie
  <2>3. Tagging \subseteq Chan
    BY TopologyAssumption
  <2> QED
    BY <2>1, <2>2, <2>3, MmioNoneLive DEF DownIdle
<1>8. CASE pqos_init
  <2>1. Live' = {}
    BY <1>8 DEF pqos_init, DownIdle, Live
  <2>2. UNCHANGED <<io, chan, lost>> /\ ~up
    BY <1>8 DEF pqos_init, hw
  <2> QED
    BY <2>1, <2>2, MmioNoneLive DEF DownIdle
<1>9. CASE UNCHANGED vars
  <2>1. \A h \in Live : MmioKept(group[h])
    BY <1>9 DEF MmioKept, vars
  <2>2. MmioGroupsOK' /\ DomainRmidExclusive'
    BY <1>9, <2>1, MmioGroupsKept, SameIsFresh DEF vars
  <2> QED
    BY <1>9, <2>2 DEF vars, DownIdle, Live
<1> QED
  BY <1>2, <1>3, <1>4, <1>5, <1>6, <1>7, <1>8, <1>9 DEF MmioNext

LEMMA CountsFollows == MmioInv => CountsItself
<1>1. MmioInv => CountedExactly
  BY DEF MmioInv, MmioGroupsOK, MmioGroupOK, MmioExact, CountedExactly
<1>2. MmioInv => RmidInDomain
  BY DEF MmioInv, MmioGroupsOK, MmioGroupOK, MmioRange, RmidInDomain
<1> QED
  BY <1>1, <1>2 DEF MmioInv, CountsItself

LEMMA MmioInvariant ==
  ASSUME "live" \notin Faults
  PROVE  MmioSpec => []MmioInv
  BY MmioInit, MmioStep, PTL DEF MmioSpec

(***************************************************************************)
(* CountsItself, for every ERDT table: a group of the MMIO interface has   *)
(* RMIDs of its own in every domain, which exist there, and they are in    *)
(* the registers of all its cores and channels and of nothing else, also   *)
(* after starts that failed half way (mmio_mon_start_cores(),              *)
(* mmio_mon_start_channels()).  Monitoring is not reset under a group.     *)
(***************************************************************************)
THEOREM MmioGroupsCountThemselves ==
  ASSUME "live" \notin Faults
  PROVE  MmioSpec => []CountsItself
  BY MmioInvariant, CountsFollows, PTL

-----------------------------------------------------------------------------
(* What is left in the registers *)

LEMMA MmioStrayStart ==
  ASSUME MmioInv, StrayInv,
         NEW g \in Group, NEW S \in (SUBSET Core) \ {{}}, NEW E \in Asked,
         mmio_mon_start_cores(g, S, E)
  PROVE  StrayInv'
<1> USE DEF MmioInv
<1> DEFINE want == E \cap MmioEvents
<1>a. g \notin Live /\ cap' = cap /\ chan' = chan
  BY DEF mmio_mon_start_cores
<1>b. PmuStopped(S, {}, E) \subseteq pmu
  BY DEF PmuStopped
<1>1. CASE UNCHANGED <<assoc, group, lost>> /\ pmu' \subseteq pmu
  <2>1. Live' = Live
    BY <1>1 DEF Live
  <2> QED
    BY <1>a, <1>1, <2>1 DEF StrayInv, PmuOwned, NothingStray
<1>2. CASE /\ assoc' = TaggedCores(S, want) /\ pmu' = PmuStopped(S, {}, E)
           /\ lost' = lost \cup S /\ UNCHANGED group
  <2>1. Live' = Live
    BY <1>2 DEF Live
  <2>2. \A c \in Core : c \notin S => assoc'[c] = assoc[c]
    BY <1>2 DEF TaggedCores
  <2> QED
    BY <1>a, <1>b, <1>2, <2>1, <2>2, StrayStep
<1>3. CASE /\ assoc' = TaggedCores(S, want) /\ pmu' = pmu \cup WithPmu(S, E)
           /\ group' = [group EXCEPT ![g] = [cores |-> S, channels |-> {}, event |-> E,
                                            ctx |-> CoreContexts(S, want)]]
           /\ UNCHANGED lost
  <2>1. /\ group'[g].cores = S /\ group'[g].event = E
        /\ \A h \in Group : h # g => group'[h] = group[h]
    BY <1>3 DEF MmioTypeOK
  <2>2. g \in Live'
    BY <2>1 DEF Live, NoGroup
  <2>3. \A h \in Live : h \in Live' /\ group'[h] = group[h]
    BY <1>a, <2>1 DEF Live
  <2>4. \A c \in Core : c \notin S => assoc'[c] = assoc[c]
    BY <1>3 DEF TaggedCores
  <2>5. \A c \in pmu' : c \in pmu \/ (c \in S /\ "pmu" \in E)
    BY <1>3 DEF WithPmu
  <2> QED
    BY <1>a, <1>3, <2>1, <2>2, <2>3, <2>4, <2>5, StrayStep
<1> QED
  BY <1>b, <1>1, <1>2, <1>3 DEF mmio_mon_start_cores

LEMMA MmioStrayStartFails ==
  ASSUME MmioInv, StrayInv, NEW S \in (SUBSET Core) \ {{}}, NEW E \in Asked,
         mmio_mon_start_cores_fails(S, E)
  PROVE  StrayInv'
<1>1. PICK U \in SUBSET S, P \in SUBSET WithPmu(S, E) :
        /\ assoc' = TaggedCores(U, E \cap MmioEvents)
        /\ pmu' = (pmu \ WithPmu(S, E)) \cup P
        /\ lost' = lost \cup U \cup P
  BY DEF mmio_mon_start_cores_fails
<1>2. UNCHANGED <<chan, cap, group>> /\ Live' = Live
  BY DEF mmio_mon_start_cores_fails, Live
<1>3. \A c \in Core : c \notin U => assoc'[c] = assoc[c]
  BY <1>1 DEF TaggedCores
<1> QED
  BY <1>1, <1>2, <1>3, StrayStep

LEMMA MmioStrayChannels ==
  ASSUME MmioInv, StrayInv,
         NEW g \in Group, NEW H \in (SUBSET Chan) \ {{}}, NEW E \in Asked,
         mmio_mon_start_channels(g, H, E)
  PROVE  StrayInv'
<1> USE DEF MmioInv
<1> DEFINE C == {[domain |-> d, rmid |-> Lowest(FreeForDomain(d))] :
                   d \in {DevDomain[h] : h \in H}}
<1>a. g \notin Live /\ UNCHANGED <<cap, assoc, pmu>> /\ Tagging \subseteq Chan
  BY TopologyAssumption DEF mmio_mon_start_channels
<1>1. CASE UNCHANGED <<chan, group, lost>>
  <2>1. Live' = Live
    BY <1>1 DEF Live
  <2> QED
    BY <1>a, <1>1, <2>1 DEF StrayInv, PmuOwned, NothingStray
<1>2. ASSUME NEW U \in SUBSET H, chan' = returned_channels(H, U),
             lost' = lost \cup U, UNCHANGED group
      PROVE  StrayInv'
  <2>1. \A h \in Chan : \/ h \in lost'
                        \/ chan'[h] \in {RMID0, Off}
                        \/ chan'[h] = chan[h]
    BY <1>2, MmioClearedTyped DEF returned_channels, TaggedIn
  <2>2. Live' = Live
    BY <1>2 DEF Live
  <2> QED
    BY <1>a, <1>2, <2>1, <2>2, StrayStep
<1>3. CASE /\ chan' = TaggedIn(H)
           /\ group' = [group EXCEPT ![g] =
                [cores |-> {}, channels |-> H, event |-> E, ctx |-> C]]
           /\ lost' = lost
  <2>1. /\ group'[g].channels = H
        /\ \A h \in Group : h # g => group'[h] = group[h]
    BY <1>3 DEF MmioTypeOK
  <2>2. g \in Live'
    BY <2>1 DEF Live, NoGroup
  <2>3. \A h \in Live : h \in Live' /\ group'[h] = group[h]
    BY <1>a, <2>1 DEF Live
  <2>4. \A h \in Chan : h \notin H => chan'[h] = chan[h]
    BY <1>3 DEF TaggedIn
  <2> QED
    BY <1>a, <1>3, <2>1, <2>2, <2>3, <2>4, StrayStep
<1> QED
  BY <1>1, <1>2, <1>3 DEF mmio_mon_start_channels

LEMMA MmioStrayStop ==
  ASSUME MmioInv, StrayInv, NEW g \in Group, mmio_mon_stop(g)
  PROVE  StrayInv'
<1>1. PICK F \in SUBSET group[g].cores, G \in SUBSET group[g].channels :
        /\ assoc' = [c \in Core |-> IF c \in Returned(group[g].cores) \ F THEN RMID0 ELSE assoc[c]]
        /\ chan' = ClearedAll(group[g].channels \ G)
        /\ pmu' = PmuStopped(group[g].cores, F, group[g].event)
        /\ lost' = lost \cup F \cup G
  BY DEF mmio_mon_stop
<1>2. cap' = cap /\ \A h \in Group : h # g => group'[h] = group[h]
  BY DEF mmio_mon_stop, MmioTypeOK, MmioInv
<1>3. \A h \in Live : h # g => h \in Live' /\ group'[h] = group[h]
  BY <1>2 DEF Live
<1>4. \A c \in Core : assoc'[c] # RMID0 => c \in lost' \/ (assoc'[c] = assoc[c] /\ c \notin group[g].cores)
  BY <1>1 DEF Returned
<1>5. \A c \in pmu' : c \in lost' \/ (c \in pmu /\ ~(c \in group[g].cores /\ "pmu" \in group[g].event))
  BY <1>1 DEF PmuStopped
<1>6. \A h \in Chan : \/ h \in lost'
                      \/ chan'[h] \in {RMID0, Off}
                      \/ chan'[h] = chan[h] /\ h \notin group[g].channels
  BY <1>1, MmioClearedTyped DEF ClearedAll
<1>7. Tagging \subseteq Chan /\ lost \subseteq lost'
  BY <1>1, TopologyAssumption
<1> QED
  BY <1>2, <1>3, <1>4, <1>5, <1>6, <1>7, StrayStep

LEMMA MmioStrayNext ==
  ASSUME "live" \notin Faults, MmioInv, StrayInv, [MmioNext]_vars
  PROVE  StrayInv'
<1>1. ASSUME NEW cfg \in Configs, mon_reset(cfg)
      PROVE  StrayInv'
  BY <1>1, StrayReset DEF mon_reset, Can
<1>2. CASE MmioDie
  <2>1. lost' = {c \in Core : assoc'[c] # RMID0 \/ c \in pmu}
                  \cup {h \in Chan : chan[h] \notin {RMID0, Off}}
        /\ UNCHANGED <<chan, pmu>> /\ Tagging \subseteq Chan /\ pmu \subseteq Core
    BY <1>2, TopologyAssumption DEF MmioDie, MmioInv, MmioTypeOK
  <2> QED
    BY <2>1 DEF StrayInv, PmuOwned, NothingStray
<1>3. CASE pqos_init
  BY <1>3, StrayInitialised DEF MmioInv
<1>4. CASE UNCHANGED vars
  BY <1>4 DEF StrayInv, PmuOwned, NothingStray, Live, vars
<1> QED
  BY <1>1, <1>2, <1>3, <1>4, MmioStrayStart, MmioStrayStartFails, MmioStrayChannels,
     MmioStrayStop DEF MmioNext

\* NothingLeftTagged, under the same hypothesis: every error path of
\* mmio_mon_start_channels() and mmio_mon_stop() returns what it tagged, and
\* what mmio_mon_start_cores() leaves behind is accounted for.
THEOREM MmioNothingIsLeftTagged ==
  ASSUME "live" \notin Faults
  PROVE  MmioSpec => []NothingLeftTagged
<1>1. Init => StrayInv
  BY DEF Init, StrayInv, PmuOwned, NothingStray
<1>2. MmioInv /\ StrayInv /\ [MmioNext]_vars => StrayInv'
  BY MmioStrayNext
<1>3. StrayInv => NothingLeftTagged
  BY DEF StrayInv, NothingStray, NothingLeftTagged
<1> QED
  BY <1>1, <1>2, <1>3, MmioInvariant, PTL DEF MmioSpec

=============================================================================
