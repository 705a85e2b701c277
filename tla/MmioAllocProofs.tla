-------------------------- MODULE MmioAllocProofs --------------------------
(***************************************************************************)
(* Proofs about MmioAlloc for every ERDT table, every number of classes,   *)
(* memory regions and domains, and every argument that InputsAssumption    *)
(* allows.  First what the calls do to the registers, then what the dumps  *)
(* of MmioRegs show of them and how ToolParse reads the lists that they    *)
(* are asked with.                                                         *)
(***************************************************************************)
EXTENDS MmioAlloc, FiniteSetTheorems, WellFoundedInduction, TLAPS

-----------------------------------------------------------------------------
(* The order of the accesses of a call *)

\* The name of an access is k numbers, none above b.
Name(p, k, b) == DOMAIN p = 1 .. k /\ \A n \in 1 .. k : p[n] \in 0 .. b

\* A set of natural numbers that is not empty has a least element.
LEMMA LeastNumber ==
  ASSUME NEW S \in SUBSET Nat, S # {}
  PROVE  \E m \in S : \A n \in S : m <= n
<1>1. PICK m \in S : \A n \in S : ~(<<n, m>> \in OpToRel(<, Nat))
  BY NatLessThanWellFounded, WFMin
<1>2. ASSUME NEW n \in S
      PROVE  m <= n
  <2>1. ~(n < m)
    BY <1>1 DEF OpToRel
  <2> QED
    BY <2>1
<1> QED
  BY <1>2

\* Among things with a bounded number one has the greatest.
LEMMA GreatestComponent ==
  ASSUME NEW T, T # {}, NEW n, NEW b \in Nat, \A p \in T : p[n] \in 0 .. b
  PROVE  \E p \in T : \A q \in T : q[n] <= p[n]
<1> DEFINE S == {b - p[n] : p \in T}
<1>1. S \in SUBSET Nat /\ S # {}
  OBVIOUS
<1>2. PICK m \in S : \A x \in S : m <= x
  BY <1>1, LeastNumber
<1>3. PICK p \in T : m = b - p[n]
  BY <1>2
<1>4. ASSUME NEW q \in T
      PROVE  q[n] <= p[n]
  <2>1. b - q[n] \in S
    OBVIOUS
  <2>2. m <= b - q[n]
    BY <1>2, <2>1
  <2> QED
    BY <1>3, <2>2
<1> QED
  BY <1>4

\* A set of names that is not empty has a last one: the components are settled
\* one after the other.
LEMMA LatestExists ==
  ASSUME NEW T, T # {}, NEW k \in Nat, NEW b \in Nat, \A p \in T : Name(p, k, b)
  PROVE  Latest(T) \in T /\ \A q \in T : ~Earlier(Latest(T), q)
<1> DEFINE Above(p, q, n) == p[n] < q[n] /\ \A m \in 1 .. (n - 1) : p[m] = q[m]
           Settled(j) == \E p \in T : \A q \in T : \A n \in 1 .. j : ~Above(p, q, n)
           open == {j \in 0 .. k : ~Settled(j)}
<1>1. Settled(0)
  OBVIOUS
<1>2. ASSUME NEW j \in 0 .. (k - 1), Settled(j)
      PROVE  Settled(j + 1)
  <2>1. PICK p \in T : \A q \in T : \A n \in 1 .. j : ~Above(p, q, n)
    BY <1>2
  <2> DEFINE S == {q \in T : \A m \in 1 .. j : q[m] = p[m]}
  <2>2. S # {} /\ S \subseteq T
    BY <2>1
  <2>3. \A q \in S : q[j + 1] \in 0 .. b
    BY DEF Name
  <2> HIDE DEF S
  <2>4. PICK r \in S : \A q \in S : q[j + 1] <= r[j + 1]
    BY <2>2, <2>3, GreatestComponent
  <2>5. ASSUME NEW q \in T, NEW n \in 1 .. (j + 1), Above(r, q, n)
        PROVE  FALSE
    <3>1. \A m \in 1 .. j : r[m] = p[m]
      BY <2>4 DEF S
    <3>2. CASE n <= j
      <4>1. n \in 1 .. j /\ \A m \in 1 .. (n - 1) : m \in 1 .. j
        BY <3>2
      <4>2. Above(p, q, n)
        BY <2>5, <3>1, <4>1
      <4> QED
        BY <2>1, <4>1, <4>2
    <3>3. CASE n = j + 1
      <4>1. \A m \in 1 .. j : q[m] = p[m]
        BY <2>5, <3>1, <3>3
      <4>2. q \in S
        BY <4>1 DEF S
      <4>3. q[j + 1] <= r[j + 1] /\ q[j + 1] \in Int /\ r[j + 1] \in Int
        BY <2>3, <2>4, <4>2
      <4> QED
        BY <2>5, <3>3, <4>3
    <3> QED
      BY <3>2, <3>3
  <2>6. r \in T
    BY <2>2, <2>4
  <2> QED
    BY <2>5, <2>6
<1> HIDE DEF Settled
<1>3. open = {}
  <2> SUFFICES ASSUME open # {}
               PROVE  FALSE
    OBVIOUS
  <2>1. open \in SUBSET Nat
    OBVIOUS
  <2>2. PICK j \in open : \A x \in open : j <= x
    BY <2>1, LeastNumber
  <2>3. j # 0
    BY <1>1
  <2>4. j - 1 \in 0 .. (k - 1) /\ j - 1 \notin open
    BY <2>2, <2>3
  <2>5. Settled(j - 1)
    BY <2>4
  <2>6. Settled((j - 1) + 1)
    BY <1>2, <2>4, <2>5
  <2> QED
    BY <2>6
<1>4. Settled(k)
  BY <1>3
<1>5. \E p \in T : \A q \in T : ~Earlier(p, q)
  <2>1. PICK p \in T : \A q \in T : \A n \in 1 .. k : ~Above(p, q, n)
    BY <1>4 DEF Settled
  <2>2. DOMAIN p = 1 .. k
    BY DEF Name
  <2> QED
    BY <2>1, <2>2 DEF Earlier
<1> QED
  BY <1>5 DEF Latest

\* The order of names of two and of four numbers, spelt out.
LEMMA EarlierOne ==
  ASSUME NEW p, NEW q, DOMAIN p = 1 .. 1
  PROVE  Earlier(p, q) <=> p[1] < q[1]
BY DEF Earlier

LEMMA EarlierFour ==
  ASSUME NEW p, NEW q, DOMAIN p = 1 .. 4
  PROVE  Earlier(p, q) <=> \/ p[1] < q[1]
                           \/ p[1] = q[1] /\ p[2] < q[2]
                           \/ p[1] = q[1] /\ p[2] = q[2] /\ p[3] < q[3]
                           \/ p[1] = q[1] /\ p[2] = q[2] /\ p[3] = q[3] /\ p[4] < q[4]
<1>1. DOMAIN p = {1, 2, 3, 4}
  OBVIOUS
<1>2. 1 .. (1 - 1) = {} /\ 1 .. (2 - 1) = {1} /\ 1 .. (3 - 1) = {1, 2} /\ 1 .. (4 - 1) = {1, 2, 3}
  OBVIOUS
<1> QED
  BY <1>1, <1>2 DEF Earlier

-----------------------------------------------------------------------------
(* Bandwidth: what a call writes *)

LEMMA LimitsAre ==
  /\ \A n \in 1 .. 3 : LimitAt[n] \in Limits
  /\ \A l \in Limits : \E n \in 1 .. 3 : LimitAt[n] = l
  /\ \A m, n \in 1 .. 3 : LimitAt[m] = LimitAt[n] => m = n
<1>1. 1 .. 3 = {1, 2, 3}
  OBVIOUS
<1> QED
  BY <1>1 DEF LimitAt, Limits

LEMMA RegionsAre ==
  ASSUME mrrm \in Nat
  PROVE  /\ mmio_get_num_mem_regions \in 0 .. 4
         /\ Regions \subseteq Lanes
<1>1. \E x \in {mrrm, 4} : \A y \in {mrrm, 4} : x <= y
  OBVIOUS
<1>2. Min({mrrm, 4}) \in {mrrm, 4} /\ \A y \in {mrrm, 4} : Min({mrrm, 4}) <= y
  BY <1>1 DEF Min
<1> QED
  BY <1>2 DEF mmio_get_num_mem_regions, PQOS_MAX_MEM_REGIONS, Regions, Lanes

LEMMA AddressTells ==
  ASSUME NEW g \in Lanes, NEW c \in Nat, NEW d \in Nat,
         get_clos_addr_by_region(g, c) = get_clos_addr_by_region(g, d)
  PROVE  c = d
<1>1. g \div 4 = 0
  BY DEF Lanes
<1> QED
  BY <1>1 DEF get_clos_addr_by_region, BYTES_PER_REGION_SET, RDT_REG_SIZE

\* A lane is changed by the writes of its limit, its class and its region.
LEMMA LanesOfIs ==
  ASSUME NEW i, NEW l, NEW g, NEW c, NEW j, NEW k, NEW h, NEW d,
         g \in Lanes, c \in Nat, d \in Nat
  PROVE  <<i, l, get_clos_addr_by_region(g, c), g>> \in LanesOf(j, k, h, d)
           <=> i = j /\ l = k /\ g = h /\ c = d
<1>1. LanesOf(j, k, h, d) = {<<j, k, get_clos_addr_by_region(h, d), h>>}
  BY DEF LanesOf, set_clos_region_value
<1> QED
  BY <1>1, AddressTells

\* A request as the caller may pass it, and one that passed the checks.
LEMMA RequestTyped ==
  ASSUME NEW s \in MbaSets
  PROVE  /\ Len(s.reqs) \in Nat /\ DOMAIN s.reqs = 1 .. Len(s.reqs)
         /\ \A n \in DOMAIN s.reqs :
              /\ s.reqs[n].class \in Nat
              /\ \A j \in DOMAIN s.reqs[n].regions :
                   /\ s.reqs[n].regions[j].region \in Int
                   /\ \A l \in Limits : s.reqs[n].regions[j].bw[l] \in Int
<1> DEFINE Region == [region : Int, bw : [Limits -> Int]]
           Request == [domain : Nat, class : Nat, regions : Seq(Region)]
<1>1. s.reqs \in Seq(Request)
  BY InputsAssumption
<1>t. ASSUME NEW A, NEW q \in Seq(A), NEW n \in DOMAIN q
      PROVE  q[n] \in A
  OBVIOUS
<1>2. ASSUME NEW n \in DOMAIN s.reqs
      PROVE  /\ s.reqs[n].class \in Nat
             /\ \A j \in DOMAIN s.reqs[n].regions :
                  /\ s.reqs[n].regions[j].region \in Int
                  /\ \A l \in Limits : s.reqs[n].regions[j].bw[l] \in Int
  <2>t. s.reqs[n] \in Request
    <3> HIDE DEF Request
    <3> QED
      BY <1>1, <1>t
  <2>1. PICK r \in Request : r = s.reqs[n]
    BY <2>t
  <2>2. r.class \in Nat /\ r.regions \in Seq(Region)
    OBVIOUS
  <2>3. ASSUME NEW j \in DOMAIN r.regions
        PROVE  r.regions[j].region \in Int /\ \A l \in Limits : r.regions[j].bw[l] \in Int
    <3>t. r.regions[j] \in Region
      <4> HIDE DEF Region
      <4> QED
        BY <2>2, <1>t
    <3>1. PICK g \in Region : g = r.regions[j]
      BY <3>t
    <3> QED
      BY <3>1
  <2> QED
    BY <2>1, <2>2, <2>3
<1> QED
  BY <1>1, <1>2

Accepted(s) == \A n \in DOMAIN s.reqs : mmio_mba_check_request(s.reqs[n])
Bound(s) == Len(s.reqs) + 4

LEMMA AccessNamed ==
  ASSUME NEW s \in MbaSets, NEW p \in mba_accesses(s)
  PROVE  /\ Bound(s) \in Nat /\ Name(p, 4, Bound(s))
         /\ DOMAIN p = 1 .. 4
         /\ p[1] \in DOMAIN s.reqs /\ p[1] \in Nat
         /\ p[2] \in {Writing, Reading}
         /\ p[3] \in 1 .. PQOS_MAX_MEM_REGIONS /\ p[4] \in 1 .. 3
         /\ p[3] \in DOMAIN s.reqs[p[1]].regions
         /\ s.reqs[p[1]].regions[p[3]].region # -1
         /\ p[2] = Writing => s.reqs[p[1]].regions[p[3]].bw[LimitAt[p[4]]] # -1
<1>1. p \in (DOMAIN s.reqs) \X {Writing, Reading} \X (1 .. PQOS_MAX_MEM_REGIONS) \X (1 .. 3)
  BY DEF mba_accesses
<1>2. /\ p[3] \in DOMAIN s.reqs[p[1]].regions
      /\ s.reqs[p[1]].regions[p[3]].region # -1
      /\ p[2] = Writing => s.reqs[p[1]].regions[p[3]].bw[LimitAt[p[4]]] # -1
  BY DEF mba_accesses
<1>3. /\ DOMAIN p = 1 .. 4
      /\ p[1] \in DOMAIN s.reqs /\ p[2] \in {Writing, Reading}
      /\ p[3] \in 1 .. PQOS_MAX_MEM_REGIONS /\ p[4] \in 1 .. 3
  BY <1>1
<1>4. Len(s.reqs) \in Nat /\ DOMAIN s.reqs = 1 .. Len(s.reqs)
  BY RequestTyped
<1>5. Name(p, 4, Bound(s)) /\ Bound(s) \in Nat
  <2>1. p[1] \in 1 .. Len(s.reqs) /\ p[2] \in {1, 2} /\ p[3] \in 1 .. 4
    BY <1>3, <1>4 DEF Writing, Reading, PQOS_MAX_MEM_REGIONS
  <2>2. \A n \in 1 .. 4 : n = 1 \/ n = 2 \/ n = 3 \/ n = 4
    OBVIOUS
  <2>3. Bound(s) \in Nat /\ Bound(s) >= 4 /\ Bound(s) >= Len(s.reqs)
    BY <1>4 DEF Bound
  <2>4. p[1] \in 0 .. Bound(s) /\ p[2] \in 0 .. Bound(s) /\ p[3] \in 0 .. Bound(s)
        /\ p[4] \in 0 .. Bound(s)
    BY <1>3, <1>4, <2>1, <2>3
  <2>5. \A n \in 1 .. 4 : p[n] \in 0 .. Bound(s)
    BY <2>2, <2>4
  <2> QED
    BY <1>3, <2>3, <2>5 DEF Name
<1>6. p[1] \in Nat
  BY <1>3, <1>4
<1> QED
  BY <1>2, <1>3, <1>5, <1>6

LEMMA AccessTyped ==
  ASSUME NEW s \in MbaSets, Accepted(s), mrrm \in Nat, NEW p \in mba_accesses(s)
  PROVE  /\ Access(s, p).agent \in MbaAgents
         /\ Access(s, p).class \in Classes /\ Access(s, p).class \in Nat
         /\ Access(s, p).region \in Regions /\ Access(s, p).region \in Lanes
         /\ Access(s, p).limit \in Limits
         /\ p[2] = Writing => Access(s, p).bw \in 0 .. MBA_MAX_BW
<1> DEFINE r == s.reqs[p[1]]
           g == r.regions[p[3]]
           l == LimitAt[p[4]]
<1>1. /\ p[1] \in DOMAIN s.reqs /\ p[3] \in DOMAIN r.regions /\ p[4] \in 1 .. 3
      /\ g.region # -1
      /\ p[2] = Writing => g.bw[l] # -1
  BY AccessNamed
<1>2. l \in Limits
  BY <1>1, LimitsAre
<1>3. mmio_mba_check_request(r)
  BY <1>1 DEF Accepted
<1>4. /\ get_cpu_agent_idx_by_domain_id(r.domain) \in MbaAgents
      /\ r.class < MaxClos /\ g.region \in Regions
      /\ g.bw[l] \in {-1} \cup (0 .. MBA_MAX_BW)
  <2> HIDE DEF r, l
  <2>1. /\ get_cpu_agent_idx_by_domain_id(r.domain) \in MbaAgents /\ r.class < MaxClos
        /\ \A j \in DOMAIN r.regions : r.regions[j].region # -1 =>
             /\ r.regions[j].region \in Regions
             /\ \A m \in Limits : r.regions[j].bw[m] \in {-1} \cup (0 .. MBA_MAX_BW)
    BY <1>3 DEF mmio_mba_check_request
  <2> QED
    BY <1>1, <1>2, <2>1
<1>5. r.class \in Nat
  BY <1>1, RequestTyped
<1>6. r.class \in Classes
  <2> HIDE DEF r
  <2>1. MaxClos \in Nat
    BY AgentsAssumption
  <2> QED
    BY <1>4, <1>5, <2>1 DEF Classes
<1>7. g.region \in Lanes
  BY <1>4, RegionsAre
<1>8. /\ Access(s, p).agent = get_cpu_agent_idx_by_domain_id(r.domain)
      /\ Access(s, p).class = r.class /\ Access(s, p).region = g.region
      /\ Access(s, p).limit = l /\ Access(s, p).bw = g.bw[l]
  BY DEF Access
<1> QED
  BY <1>1, <1>2, <1>4, <1>5, <1>6, <1>7, <1>8

-----------------------------------------------------------------------------
(* Bandwidth: what the registers hold afterwards *)

\* The writes of a lane among what is done.
Hits(s, done, i, l, c, g) ==
  {p \in done : /\ p[2] = Writing
                /\ Access(s, p).agent = i /\ Access(s, p).limit = l
                /\ Access(s, p).region = g /\ Access(s, p).class = c}

\* The last write of a lane decides, or it keeps what it had.
LaneRight(s, m, done, i, l, c, g) ==
  LET hits == Hits(s, done, i, l, c, g)
      addr == get_clos_addr_by_region(g, c)
      lane == LaneAfter(m, Writes(s, done), i, l, addr, g)
  IN /\ hits = {} => lane = m[i][l][addr][g]
     /\ hits # {} => /\ lane = Access(s, Latest(hits)).bw
                     /\ Latest(hits) \in hits
                     /\ \A q \in hits : ~Earlier(Latest(hits), q)

LEMMA LaneIs ==
  ASSUME NEW s \in MbaSets, Accepted(s), mrrm \in Nat, NEW m,
         NEW done \in SUBSET mba_accesses(s), NEW i, NEW l, NEW c \in Nat, NEW g \in Lanes
  PROVE  LaneRight(s, m, done, i, l, c, g)
<1> DEFINE hits == Hits(s, done, i, l, c, g)
           addr == get_clos_addr_by_region(g, c)
           writes == Writes(s, done)
           found == {p \in DOMAIN writes :
                 <<i, l, addr, g>> \in LanesOf(writes[p].agent, writes[p].limit,
                                              writes[p].region, writes[p].class)}
<1>1. /\ DOMAIN writes = {q \in done : q[2] = Writing}
      /\ \A p \in DOMAIN writes : writes[p] = Access(s, p)
  BY DEF Writes
<1>2. ASSUME NEW p \in DOMAIN writes
      PROVE  p \in found <=> p \in hits
  <2>1. p \in mba_accesses(s) /\ p \in done /\ p[2] = Writing /\ writes[p] = Access(s, p)
    BY <1>1
  <2>2. Access(s, p).class \in Nat
    BY <2>1, AccessTyped
  <2>3. <<i, l, addr, g>> \in LanesOf(Access(s, p).agent, Access(s, p).limit,
                                     Access(s, p).region, Access(s, p).class)
          <=> /\ i = Access(s, p).agent /\ l = Access(s, p).limit
              /\ g = Access(s, p).region /\ c = Access(s, p).class
    BY <2>2, LanesOfIs
  <2> QED
    BY <2>1, <2>3 DEF Hits
<1>3. found = hits /\ hits \subseteq DOMAIN writes
  <2>1. hits \subseteq DOMAIN writes
    BY <1>1 DEF Hits
  <2>2. found \subseteq DOMAIN writes
    OBVIOUS
  <2> QED
    BY <1>2, <2>1, <2>2
<1>4. LaneAfter(m, writes, i, l, addr, g)
        = IF found = {} THEN m[i][l][addr][g] ELSE writes[Latest(found)].bw
  BY DEF LaneAfter
<1>5. ASSUME hits # {}
      PROVE  Latest(hits) \in hits /\ \A q \in hits : ~Earlier(Latest(hits), q)
  <2>1. \A p \in hits : Name(p, 4, Bound(s)) /\ Bound(s) \in Nat
    BY AccessNamed DEF Hits
  <2> QED
    BY <1>5, <2>1, LatestExists
<1> HIDE DEF hits, writes, found, addr
<1>6. /\ hits = {} => LaneAfter(m, writes, i, l, addr, g) = m[i][l][addr][g]
      /\ hits # {} => /\ LaneAfter(m, writes, i, l, addr, g) = Access(s, Latest(hits)).bw
                      /\ Latest(hits) \in hits
                      /\ \A q \in hits : ~Earlier(Latest(hits), q)
  BY <1>1, <1>3, <1>4, <1>5
<1> QED
  BY <1>6 DEF LaneRight, hits, writes, addr

\* Every address of a bandwidth register is that of a class, in any lane.
LEMMA AddressOfClass ==
  ASSUME NEW g \in Lanes
  PROVE  /\ \A a \in MbaAddrs : \E c \in Classes : a = get_clos_addr_by_region(g, c)
         /\ \A c \in Classes : get_clos_addr_by_region(g, c) \in MbaAddrs
<1>1. \A h \in Lanes : h \div 4 = 0
  BY DEF Lanes
<1>2. \A h \in Lanes, c \in Classes :
        get_clos_addr_by_region(h, c) = get_clos_addr_by_region(g, c)
  BY <1>1 DEF get_clos_addr_by_region
<1> QED
  BY <1>2 DEF MbaAddrs

LEMMA ClassesNat == Classes \subseteq Nat
  BY DEF Classes

Words == [MbaAgents -> [Limits -> [MbaAddrs -> [Lanes -> 0 .. MBA_MAX_BW]]]]

LEMMA SetTyped ==
  ASSUME NEW s \in MbaSets, Accepted(s), mrrm \in Nat, NEW m \in Words,
         NEW done \in SUBSET mba_accesses(s)
  PROVE  set_mba_bw_region_clos_v1(m, Writes(s, done)) \in Words
<1> DEFINE lane(i, l, a, g) == LaneAfter(m, Writes(s, done), i, l, a, g)
<1>1. ASSUME NEW i \in MbaAgents, NEW l \in Limits, NEW a \in MbaAddrs, NEW g \in Lanes
      PROVE  lane(i, l, a, g) \in 0 .. MBA_MAX_BW
  <2>1. PICK c \in Classes : a = get_clos_addr_by_region(g, c)
    BY AddressOfClass
  <2> DEFINE hits == Hits(s, done, i, l, c, g)
  <2>2. /\ hits = {} => lane(i, l, a, g) = m[i][l][a][g]
        /\ hits # {} => lane(i, l, a, g) = Access(s, Latest(hits)).bw /\ Latest(hits) \in hits
    <3>1. c \in Nat
      BY ClassesNat
    <3>2. LET addr == get_clos_addr_by_region(g, c)
          IN /\ hits = {} => lane(i, l, addr, g) = m[i][l][addr][g]
             /\ hits # {} => lane(i, l, addr, g) = Access(s, Latest(hits)).bw /\ Latest(hits) \in hits
      <4>1. LaneRight(s, m, done, i, l, c, g)
        BY <3>1, LaneIs
      <4> QED
        BY <4>1 DEF LaneRight
    <3> HIDE DEF lane, hits
    <3> QED
      BY <2>1, <3>2
  <2>3. \A p \in hits : Access(s, p).bw \in 0 .. MBA_MAX_BW
    BY AccessTyped DEF Hits
  <2>4. m[i][l][a][g] \in 0 .. MBA_MAX_BW
    BY DEF Words
  <2> HIDE DEF hits, lane
  <2> QED
    BY <2>2, <2>3, <2>4
<1>2. set_mba_bw_region_clos_v1(m, Writes(s, done))
        = [i \in MbaAgents |-> [l \in Limits |-> [a \in MbaAddrs |-> [g \in Lanes |->
             lane(i, l, a, g)]]]]
  BY DEF set_mba_bw_region_clos_v1
<1> HIDE DEF lane
<1> QED
  BY <1>1, <1>2 DEF Words

LEMMA ResetTyped ==
  ASSUME NEW m \in Words, NEW done
  PROVE  ResetMba(m, done) \in Words
<1>1. MBA_MAX_BW \in 0 .. MBA_MAX_BW
  BY InputsAssumption
<1> DEFINE reset == UNION {LanesOf(p[1], LimitAt[p[4]], p[3], p[2]) : p \in done}
<1>2. ResetMba(m, done)
        = [i \in MbaAgents |-> [l \in Limits |-> [a \in MbaAddrs |-> [g \in Lanes |->
             IF <<i, l, a, g>> \in reset THEN MBA_MAX_BW ELSE m[i][l][a][g]]]]]
  BY DEF ResetMba
<1> HIDE DEF reset
<1> QED
  BY <1>1, <1>2 DEF Words

\* A reset that is done everywhere leaves the widest limit in every lane.
LEMMA ReadAfterReset ==
  ASSUME mrrm \in Nat, NEW m, NEW i \in MbaAgents, NEW l \in Limits, NEW c \in Classes,
         NEW g \in Regions
  PROVE  get_mba_bw_region_clos_v1(ResetMba(m, mmio_alloc_reset_mba), i, l, g, c) = MBA_MAX_BW
<1> DEFINE a == get_clos_addr_by_region(g, c)
           reset == UNION {LanesOf(p[1], LimitAt[p[4]], p[3], p[2]) : p \in mmio_alloc_reset_mba}
<1>1. PICK n \in 1 .. 3 : LimitAt[n] = l
  BY LimitsAre
<1>2. <<i, c, g, n>> \in mmio_alloc_reset_mba
  BY DEF mmio_alloc_reset_mba
<1>3. g \in Lanes /\ c \in Nat
  BY RegionsAre, ClassesNat
<1>4. <<i, l, a, g>> \in LanesOf(i, l, g, c)
  BY <1>3, LanesOfIs
<1>5. <<i, l, a, g>> \in reset
  <2>1. \E p \in mmio_alloc_reset_mba : <<i, l, a, g>> \in LanesOf(p[1], LimitAt[p[4]], p[3], p[2])
    BY <1>1, <1>2, <1>4
  <2> QED
    BY <2>1
<1>6. a \in MbaAddrs
  BY <1>3, AddressOfClass
<1> HIDE DEF a, reset
<1>7. ResetMba(m, mmio_alloc_reset_mba)[i][l][a][g] = MBA_MAX_BW
  BY <1>3, <1>5, <1>6 DEF ResetMba, reset
<1> QED
  BY <1>7 DEF get_mba_bw_region_clos_v1, get_clos_region_value, a

-----------------------------------------------------------------------------
(* Bandwidth: a set does what it was asked, and reports it *)

\* A write of a lane is asked for by a request, and a request that asks for it
\* has a write.
LEMMA HitIsNamed ==
  ASSUME NEW s \in MbaSets, NEW done \in SUBSET mba_accesses(s), NEW i, NEW l, NEW c, NEW g,
         NEW p \in Hits(s, done, i, l, c, g)
  PROVE  /\ <<p[1], p[3]>> \in Naming(s, i, l, c, g)
         /\ Access(s, p).bw = s.reqs[p[1]].regions[p[3]].bw[l]
         /\ p[2] = Writing /\ LimitAt[p[4]] = l
<1>1. p \in mba_accesses(s) /\ p[2] = Writing
  BY DEF Hits
<1>2. /\ p[1] \in DOMAIN s.reqs /\ p[3] \in 1 .. PQOS_MAX_MEM_REGIONS
      /\ p[3] \in DOMAIN s.reqs[p[1]].regions
      /\ s.reqs[p[1]].regions[p[3]].bw[LimitAt[p[4]]] # -1
  BY <1>1, AccessNamed
<1>3. /\ get_cpu_agent_idx_by_domain_id(s.reqs[p[1]].domain) = i
      /\ s.reqs[p[1]].class = c /\ s.reqs[p[1]].regions[p[3]].region = g
      /\ LimitAt[p[4]] = l
      /\ Access(s, p).bw = s.reqs[p[1]].regions[p[3]].bw[l]
  BY DEF Hits, Access
<1> QED
  BY <1>1, <1>2, <1>3 DEF Naming

LEMMA NamedIsHit ==
  ASSUME NEW s \in MbaSets, NEW i, NEW l \in Limits, NEW c, NEW g \in Lanes,
         NEW q \in Naming(s, i, l, c, g)
  PROVE  \E n \in 1 .. 3 : /\ LimitAt[n] = l
                           /\ <<q[1], Writing, q[2], n>> \in Hits(s, mba_accesses(s), i, l, c, g)
<1>1. PICK n \in 1 .. 3 : LimitAt[n] = l
  BY LimitsAre
<1>2. /\ q[1] \in DOMAIN s.reqs /\ q[2] \in 1 .. PQOS_MAX_MEM_REGIONS
      /\ get_cpu_agent_idx_by_domain_id(s.reqs[q[1]].domain) = i /\ s.reqs[q[1]].class = c
      /\ q[2] \in DOMAIN s.reqs[q[1]].regions /\ s.reqs[q[1]].regions[q[2]].region = g
      /\ s.reqs[q[1]].regions[q[2]].bw[l] # -1
  BY DEF Naming
<1>3. g # -1
  BY DEF Lanes
<1> DEFINE p == <<q[1], Writing, q[2], n>>
<1>4. p \in (DOMAIN s.reqs) \X {Writing, Reading} \X (1 .. PQOS_MAX_MEM_REGIONS) \X (1 .. 3)
  BY <1>2
<1>5. p[1] = q[1] /\ p[2] = Writing /\ p[3] = q[2] /\ p[4] = n
  OBVIOUS
<1> HIDE DEF p
<1>6. p \in mba_accesses(s)
  BY <1>1, <1>2, <1>3, <1>4, <1>5 DEF mba_accesses
<1>7. p \in Hits(s, mba_accesses(s), i, l, c, g)
  BY <1>1, <1>2, <1>5, <1>6 DEF Hits, Access
<1> QED
  BY <1>1, <1>7 DEF p

\* How a lane may change in a set of which all or some accesses are done.
LaneChange(s, whole, old, new, i, l, c, g) ==
  LET named == Naming(s, i, l, c, g)
      later(p, q) == p[1] > q[1] \/ (p[1] = q[1] /\ p[2] >= q[2])
      bw(p) == s.reqs[p[1]].regions[p[2]].bw[l]
  IN /\ named = {} => new = old
     /\ whole /\ named # {} =>
          \E p \in named : (\A q \in named : later(p, q)) /\ new = bw(p)
     /\ new \in {old} \cup {bw(p) : p \in named}

LEMMA LaneChanges ==
  ASSUME NEW s \in MbaSets, Accepted(s), mrrm \in Nat, NEW m,
         NEW done \in SUBSET mba_accesses(s),
         NEW i \in MbaAgents, NEW l \in Limits, NEW c \in Classes, NEW g \in Lanes
  PROVE  LaneChange(s, done = mba_accesses(s),
            get_mba_bw_region_clos_v1(m, i, l, g, c),
            get_mba_bw_region_clos_v1(set_mba_bw_region_clos_v1(m, Writes(s, done)), i, l, g, c),
            i, l, c, g)
<1> DEFINE old == get_mba_bw_region_clos_v1(m, i, l, g, c)
           new == get_mba_bw_region_clos_v1(
                    set_mba_bw_region_clos_v1(m, Writes(s, done)), i, l, g, c)
           hits == Hits(s, done, i, l, c, g)
           named == Naming(s, i, l, c, g)
           later(p, q) == p[1] > q[1] \/ (p[1] = q[1] /\ p[2] >= q[2])
           bw(p) == s.reqs[p[1]].regions[p[2]].bw[l]
<1>1. /\ hits = {} => new = old
      /\ hits # {} => /\ new = Access(s, Latest(hits)).bw
                      /\ Latest(hits) \in hits
                      /\ \A q \in hits : ~Earlier(Latest(hits), q)
  <2>1. LaneRight(s, m, done, i, l, c, g)
    BY LaneIs, ClassesNat
  <2> DEFINE addr == get_clos_addr_by_region(g, c)
             after == LaneAfter(m, Writes(s, done), i, l, addr, g)
  <2>2. old = m[i][l][addr][g] /\ new = after
    <3> DEFINE w == Writes(s, done)
               sets == set_mba_bw_region_clos_v1(m, w)
    <3>1. sets[i][l][addr][g] = LaneAfter(m, w, i, l, addr, g)
      <4> HIDE DEF w
      <4> QED
        BY AddressOfClass DEF set_mba_bw_region_clos_v1
    <3> HIDE DEF sets
    <3> QED
      BY <3>1 DEF get_mba_bw_region_clos_v1, get_clos_region_value, sets
  <2>3. /\ hits = {} => after = m[i][l][addr][g]
        /\ hits # {} => /\ after = Access(s, Latest(hits)).bw
                        /\ Latest(hits) \in hits
                        /\ \A q \in hits : ~Earlier(Latest(hits), q)
    BY <2>1 DEF LaneRight
  <2> HIDE DEF old, new, after, addr, hits
  <2> QED
    BY <2>2, <2>3
<1>2. ASSUME NEW p \in hits
      PROVE  /\ <<p[1], p[3]>> \in named /\ Access(s, p).bw = bw(<<p[1], p[3]>>)
             /\ p[2] = Writing /\ LimitAt[p[4]] = l /\ p \in mba_accesses(s)
  <2>1. /\ <<p[1], p[3]>> \in named
        /\ Access(s, p).bw = s.reqs[p[1]].regions[p[3]].bw[l]
        /\ p[2] = Writing /\ LimitAt[p[4]] = l
    BY HitIsNamed
  <2>2. p \in mba_accesses(s)
    BY DEF Hits
  <2>3. <<p[1], p[3]>>[1] = p[1] /\ <<p[1], p[3]>>[2] = p[3]
    OBVIOUS
  <2> HIDE DEF named, hits
  <2> QED
    BY <2>1, <2>2, <2>3
<1>3. new \in {old} \cup {bw(p) : p \in named}
  <2> HIDE DEF hits, named, old, new
  <2> QED
    BY <1>1, <1>2
<1>4. named = {} => new = old
  <2> HIDE DEF hits, named, old, new
  <2> QED
    BY <1>1, <1>2
<1>5. ASSUME done = mba_accesses(s), named # {}
      PROVE  \E p \in named : (\A q \in named : later(p, q)) /\ new = bw(p)
  <2>1. \A q \in named : \E n \in 1 .. 3 : LimitAt[n] = l /\ <<q[1], Writing, q[2], n>> \in hits
    BY <1>5, NamedIsHit
  <2>2. hits # {}
    BY <1>5, <2>1
  <2> DEFINE p == Latest(hits)
  <2>3. p \in hits /\ new = Access(s, p).bw /\ \A q \in hits : ~Earlier(p, q)
    BY <1>1, <2>2
  <2>4. <<p[1], p[3]>> \in named /\ new = bw(<<p[1], p[3]>>)
    BY <1>2, <2>3
  <2> HIDE DEF p
  <2>5. p[2] = Writing /\ LimitAt[p[4]] = l /\ p \in mba_accesses(s)
    BY <1>2, <2>3
  <2>6. DOMAIN p = 1 .. 4 /\ p[1] \in Nat /\ p[3] \in Nat /\ p[4] \in 1 .. 3
    <3>1. DOMAIN p = 1 .. 4 /\ p[1] \in Nat /\ p[3] \in 1 .. PQOS_MAX_MEM_REGIONS /\ p[4] \in 1 .. 3
      BY <2>5, AccessNamed
    <3> QED
      BY <3>1 DEF PQOS_MAX_MEM_REGIONS
  <2>7. ASSUME NEW q \in named
        PROVE  later(<<p[1], p[3]>>, q)
    <3>1. PICK n \in 1 .. 3 : LimitAt[n] = l /\ <<q[1], Writing, q[2], n>> \in hits
      BY <2>1
    <3>2. ~Earlier(p, <<q[1], Writing, q[2], n>>)
      BY <2>3, <3>1
    <3>3. ~(p[1] < q[1]) /\ ~(p[1] = q[1] /\ p[3] < q[2])
      BY <2>5, <2>6, <3>2, EarlierFour
    <3>4. q[1] \in Nat /\ q[2] \in Nat
      <4>1. q[1] \in DOMAIN s.reqs /\ q[2] \in 1 .. PQOS_MAX_MEM_REGIONS
        BY DEF Naming
      <4> QED
        BY <4>1, RequestTyped DEF PQOS_MAX_MEM_REGIONS
    <3> QED
      BY <2>6, <3>3, <3>4
  <2> QED
    BY <2>4, <2>7
<1> QED
  BY <1>3, <1>4, <1>5 DEF LaneChange

\* Of a writing and a reading access one is earlier than the other.
LEMMA WriteOrRead ==
  ASSUME NEW s \in MbaSets, NEW p \in mba_accesses(s), NEW x \in mba_accesses(s),
         p[2] = Reading, x[2] = Writing, ~Earlier(p, x)
  PROVE  Earlier(x, p)
<1>1. DOMAIN p = 1 .. 4 /\ DOMAIN x = 1 .. 4
  BY AccessNamed
<1>2. p[1] \in Nat /\ x[1] \in Nat
  BY AccessNamed
<1> QED
  BY <1>1, <1>2, EarlierFour DEF Writing, Reading

\* A read that no write of the lane follows returns what the call leaves there.
LEMMA ReadTells ==
  ASSUME NEW s \in MbaSets, Accepted(s), mrrm \in Nat,
         NEW p \in DOMAIN Reported(s, mba_accesses(s))
  PROVE  LET a == Reported(s, mba_accesses(s))[p]
             again == {q \in mba_accesses(s) :
                         /\ q[2] = Writing /\ Earlier(p, q)
                         /\ [Access(s, q) EXCEPT !.bw = a.bw] = a}
         IN again = {} =>
              a.bw = get_mba_bw_region_clos_v1(
                       set_mba_bw_region_clos_v1(mba, Writes(s, mba_accesses(s))),
                       a.agent, a.limit, a.region, a.class)
<1> DEFINE all == mba_accesses(s)
           done == {q \in all : Earlier(q, p)}
           b == Access(s, p)
           i == b.agent  l == b.limit  c == b.class  g == b.region
           addr == get_clos_addr_by_region(g, c)
           a == Reported(s, all)[p]
           again == {q \in all : /\ q[2] = Writing /\ Earlier(p, q)
                                 /\ [Access(s, q) EXCEPT !.bw = a.bw] = a}
           before == LaneAfter(mba, Writes(s, done), i, l, addr, g)
           after == LaneAfter(mba, Writes(s, all), i, l, addr, g)
<1>1. p \in all /\ p[2] = Reading
  BY DEF Reported
<1>2. a = [b EXCEPT !.bw = before]
  BY <1>1 DEF Reported
<1>3. /\ i \in MbaAgents /\ l \in Limits /\ g \in Lanes
      /\ c \in Classes /\ c \in Nat
  BY <1>1, AccessTyped
<1>4. b = [agent |-> i, class |-> c, region |-> g, limit |-> l, bw |-> b.bw]
  BY DEF Access
<1>5. /\ a = [agent |-> i, class |-> c, region |-> g, limit |-> l, bw |-> before]
      /\ a.agent = i /\ a.class = c /\ a.region = g /\ a.limit = l /\ a.bw = before
  <2> HIDE DEF i, c, g, l, before, a, b
  <2> QED
    BY <1>2, <1>4
<1>6. ASSUME again = {}
      PROVE  before = after
  <2>1. ASSUME NEW x \in Hits(s, all, i, l, c, g)
        PROVE  Earlier(x, p)
    <3>1. /\ x \in all /\ x[2] = Writing
          /\ Access(s, x).agent = i /\ Access(s, x).limit = l
          /\ Access(s, x).region = g /\ Access(s, x).class = c
      BY DEF Hits
    <3>2. Access(s, x) = [agent |-> i, class |-> c, region |-> g, limit |-> l,
                          bw |-> Access(s, x).bw]
      <4>1. Access(s, x) = [agent |-> Access(s, x).agent, class |-> Access(s, x).class,
                            region |-> Access(s, x).region, limit |-> Access(s, x).limit,
                            bw |-> Access(s, x).bw]
        BY DEF Access
      <4> HIDE DEF i, c, g, l
      <4> QED
        BY <3>1, <4>1
    <3>3. [Access(s, x) EXCEPT !.bw = a.bw] = a
      <4> HIDE DEF i, c, g, l, a, before
      <4> QED
        BY <3>2, <1>5
    <3>4. ~Earlier(p, x)
      <4> HIDE DEF a
      <4> QED
        BY <1>6, <3>1, <3>3
    <3> QED
      BY <1>1, <3>1, <3>4, WriteOrRead
  <2>2. Hits(s, done, i, l, c, g) = Hits(s, all, i, l, c, g)
    <3>1. \A x \in Hits(s, all, i, l, c, g) : x \in Hits(s, done, i, l, c, g)
      BY <2>1 DEF Hits
    <3>2. Hits(s, done, i, l, c, g) \subseteq Hits(s, all, i, l, c, g)
      BY DEF Hits
    <3> QED
      BY <3>1, <3>2
  <2>3. LaneRight(s, mba, done, i, l, c, g) /\ LaneRight(s, mba, all, i, l, c, g)
    <3>1. done \in SUBSET mba_accesses(s) /\ all \in SUBSET mba_accesses(s)
      OBVIOUS
    <3> HIDE DEF done, all, i, l, c, g
    <3> QED
      BY <1>3, <3>1, LaneIs
  <2> DEFINE hits == Hits(s, all, i, l, c, g)
  <2>4. /\ before = IF hits = {} THEN mba[i][l][addr][g] ELSE Access(s, Latest(hits)).bw
        /\ after = IF hits = {} THEN mba[i][l][addr][g] ELSE Access(s, Latest(hits)).bw
    <3> HIDE DEF done, all, i, l, c, g
    <3> QED
      BY <2>2, <2>3 DEF LaneRight
  <2> HIDE DEF before, after, hits, addr, i, l, c, g
  <2> QED
    BY <2>4
<1>7. get_mba_bw_region_clos_v1(set_mba_bw_region_clos_v1(mba, Writes(s, all)), i, l, g, c)
        = after
  <2> DEFINE w == Writes(s, all)
             sets == set_mba_bw_region_clos_v1(mba, w)
  <2>1. addr \in MbaAddrs
    BY <1>3, AddressOfClass
  <2>2. sets[i][l][addr][g] = LaneAfter(mba, w, i, l, addr, g)
    <3> HIDE DEF w, i, l, addr, g
    <3> QED
      BY <1>3, <2>1 DEF set_mba_bw_region_clos_v1
  <2> HIDE DEF sets, i, l, c, g
  <2> QED
    BY <2>2 DEF get_mba_bw_region_clos_v1, get_clos_region_value, sets
<1>8. again = {} =>
        a.bw = get_mba_bw_region_clos_v1(set_mba_bw_region_clos_v1(mba, Writes(s, all)),
                 a.agent, a.limit, a.region, a.class)
  <2> HIDE DEF before, after, again, a, i, l, c, g
  <2> QED
    BY <1>5, <1>6, <1>7
<1> QED
  BY <1>8

-----------------------------------------------------------------------------
(* Cache masks *)

LEMMA DevAgentIs ==
  ASSUME NEW i \in DOMAIN DevAgents
  PROVE  /\ DevAgents[i].domain \in Nat /\ DevAgents[i].cmrd \in Nat /\ DevAgents[i].ibrd \in Nat
         /\ DevAgents[i].card \in Nat /\ DevAgents[i].offset \in Nat /\ DevAgents[i].clump \in Nat
         /\ DevAgents[i].total \in Nat /\ DevAgents[i].miss \in Nat /\ DevAgents[i].factors \in Nat
         /\ DevAgents[i].factors \in {0, 1, MaxRmids + 1}
         /\ DevAgents[i].clump * RDT_REG_SIZE <= PAGE_SIZE
         /\ DevAgents[i].socket = (i - 1) \div DevPerSocket
<1>1. DevAgents[i] \in DevAgent
  BY AgentsAssumption
<1> QED
  BY <1>1, AgentsAssumption DEF DevAgent

PageClasses == 0 .. (PAGE_SIZE \div RDT_REG_SIZE - 1)

LEMMA ClassesFit == Classes \subseteq PageClasses
<1>1. MaxClos \in Nat /\ MaxClos * 8 <= 4096
  BY AgentsAssumption, InputsAssumption DEF PAGE_SIZE, RDT_REG_SIZE
<1>2. PageClasses = 0 .. 511
  <2>1. PAGE_SIZE \div RDT_REG_SIZE = 512
    BY DEF PAGE_SIZE, RDT_REG_SIZE
  <2> QED
    BY <2>1 DEF PageClasses
<1> QED
  BY <1>1, <1>2 DEF Classes

LEMMA PlaceTells ==
  ASSUME NEW A, A.offset \in Nat,
         NEW c \in 0 .. 511, NEW d \in 0 .. 511, NEW p \in Int, NEW q \in Int,
         cbm_addr(A, c, p) = cbm_addr(A, d, q)
  PROVE  c = d
<1>1. A.offset + c * 8 + 4096 * p = A.offset + d * 8 + 4096 * q
  BY DEF cbm_addr, RDT_REG_SIZE, PAGE_SIZE
<1>2. c - d = 512 * (q - p)
  BY <1>1
<1>3. q - p = 0
  BY <1>2
<1> QED
  BY <1>2, <1>3

\* A page of the block holds a register for every class, and no two classes
\* share one.
LEMMA PageIs ==
  ASSUME NEW i \in CatAgents, NEW c \in PageClasses, NEW d \in PageClasses,
         NEW a \in cbm_pages(DevAgents[i], c)
  PROVE  a \in cbm_pages(DevAgents[i], d) <=> c = d
<1>1. PageClasses = 0 .. 511
  <2>1. PAGE_SIZE \div RDT_REG_SIZE = 512
    BY DEF PAGE_SIZE, RDT_REG_SIZE
  <2> QED
    BY <2>1 DEF PageClasses
<1>2. DevAgents[i].card \in Nat /\ DevAgents[i].offset \in Nat
  BY DevAgentIs DEF CatAgents
<1>3. PICK p \in 0 .. (DevAgents[i].card - 1) : a = cbm_addr(DevAgents[i], c, p)
  BY DEF cbm_pages
<1>4. ASSUME NEW q \in 0 .. (DevAgents[i].card - 1), a = cbm_addr(DevAgents[i], d, q)
      PROVE  c = d
  <2>1. cbm_addr(DevAgents[i], c, p) = cbm_addr(DevAgents[i], d, q)
    BY <1>3, <1>4
  <2>2. /\ c \in 0 .. 511 /\ d \in 0 .. 511 /\ p \in Int /\ q \in Int
        /\ DevAgents[i].offset \in Nat
    BY <1>1, <1>2
  <2> QED
    BY <2>1, <2>2, PlaceTells
<1> QED
  BY <1>4 DEF cbm_pages

LEMMA FirstPage ==
  ASSUME NEW i \in CatAgents, NEW c
  PROVE  cbm_addr(DevAgents[i], c, 0) \in cbm_pages(DevAgents[i], c)
<1>1. DevAgents[i].card # 0 /\ DevAgents[i].card \in Nat
  BY DevAgentIs DEF CatAgents, dev_agent_has_l3ca
<1>2. 0 \in 0 .. (DevAgents[i].card - 1)
  BY <1>1
<1> QED
  BY <1>2 DEF cbm_pages

\* Writes with names of k numbers, for classes that fit in a page, of masks
\* that the agent has.
CatSound(w, k, b) ==
  /\ k \in Nat /\ b \in Nat
  /\ \A p \in DOMAIN w : /\ Name(p, k, b)
                         /\ w[p].class \in PageClasses
                         /\ w[p].mask \in 0 .. FullMask(w[p].agent)

\* The last write for a class decides on every page, or the page keeps its mask.
MaskRight(m, w, i, c, a) ==
  LET hits == {p \in DOMAIN w : w[p].agent = i /\ w[p].class = c}
      mask == set_iol3_cbm_clos_v1(m, w)[i][a]
  IN /\ hits = {} => mask = m[i][a]
     /\ hits # {} => /\ mask = w[Latest(hits)].mask
                     /\ Latest(hits) \in hits
                     /\ \A q \in hits : ~Earlier(Latest(hits), q)

LEMMA MaskIs ==
  ASSUME NEW m, NEW w, NEW k, NEW b, CatSound(w, k, b),
         NEW i \in CatAgents, NEW c \in Classes, NEW a \in cbm_pages(DevAgents[i], c)
  PROVE  MaskRight(m, w, i, c, a)
<1> DEFINE hits == {p \in DOMAIN w : w[p].agent = i /\ w[p].class = c}
           found == {p \in DOMAIN w : /\ w[p].agent = i
                                      /\ a \in cbm_pages(DevAgents[i], w[p].class)}
           mask == set_iol3_cbm_clos_v1(m, w)[i][a]
<1>1. a \in CbmAddrs(i)
  BY DEF CbmAddrs
<1>2. mask = IF found = {} THEN m[i][a] ELSE w[Latest(found)].mask
  BY <1>1 DEF set_iol3_cbm_clos_v1
<1>3. ASSUME NEW p \in DOMAIN w
      PROVE  a \in cbm_pages(DevAgents[i], w[p].class) <=> w[p].class = c
  <2>1. w[p].class \in PageClasses /\ c \in PageClasses
    BY ClassesFit DEF CatSound
  <2> QED
    BY <2>1, PageIs
<1>4. found = hits
  BY <1>3
<1>5. ASSUME hits # {}
      PROVE  Latest(hits) \in hits /\ \A q \in hits : ~Earlier(Latest(hits), q)
  <2>1. k \in Nat /\ b \in Nat /\ \A p \in hits : Name(p, k, b)
    BY DEF CatSound
  <2> HIDE DEF hits
  <2> QED
    BY <1>5, <2>1, LatestExists
<1>6. /\ hits = {} => mask = m[i][a]
      /\ hits # {} => /\ mask = w[Latest(hits)].mask
                      /\ Latest(hits) \in hits
                      /\ \A q \in hits : ~Earlier(Latest(hits), q)
  <2> HIDE DEF hits, found, mask
  <2> QED
    BY <1>2, <1>4, <1>5
<1> QED
  BY <1>6 DEF MaskRight

\* What TypeOK says of the masks, for any of them.
Masks(m) ==
  /\ DOMAIN m = CatAgents
  /\ \A i \in CatAgents : m[i] \in [CbmAddrs(i) -> 0 .. FullMask(i)]
Agree(m) ==
  \A i \in CatAgents, c \in Classes :
    \A a \in cbm_pages(DevAgents[i], c) : m[i][a] = get_iol3_cbm_clos_v1(m, i, c)

\* After any writes the masks have their types and the pages of a class agree.
LEMMA CatKeeps ==
  ASSUME NEW m, Masks(m), Agree(m), NEW w, NEW k, NEW b, CatSound(w, k, b)
  PROVE  Masks(set_iol3_cbm_clos_v1(m, w)) /\ Agree(set_iol3_cbm_clos_v1(m, w))
<1> DEFINE n == set_iol3_cbm_clos_v1(m, w)
<1>1. ASSUME NEW i \in CatAgents, NEW c \in Classes, NEW a \in cbm_pages(DevAgents[i], c)
      PROVE  n[i][a] \in 0 .. FullMask(i) /\ n[i][a] = get_iol3_cbm_clos_v1(n, i, c)
  <2> DEFINE hits == {p \in DOMAIN w : w[p].agent = i /\ w[p].class = c}
             z == cbm_addr(DevAgents[i], c, 0)
  <2>1. z \in cbm_pages(DevAgents[i], c)
    BY FirstPage
  <2>2. MaskRight(m, w, i, c, a) /\ MaskRight(m, w, i, c, z)
    BY <2>1, MaskIs
  <2>3. /\ hits = {} => n[i][a] = m[i][a] /\ n[i][z] = m[i][z]
        /\ hits # {} => /\ n[i][a] = w[Latest(hits)].mask
                        /\ n[i][z] = w[Latest(hits)].mask /\ Latest(hits) \in hits
    BY <2>2 DEF MaskRight
  <2>4. m[i][a] = m[i][z]
    BY DEF Agree, get_iol3_cbm_clos_v1
  <2>5. m[i][a] \in 0 .. FullMask(i)
    <3>1. a \in CbmAddrs(i)
      BY DEF CbmAddrs
    <3> QED
      BY <3>1 DEF Masks
  <2>6. \A p \in hits : w[p].mask \in 0 .. FullMask(i)
    BY DEF CatSound
  <2> HIDE DEF n, hits, z
  <2>7. n[i][a] \in 0 .. FullMask(i) /\ n[i][a] = n[i][z]
    BY <2>3, <2>4, <2>5, <2>6
  <2> QED
    BY <2>7 DEF get_iol3_cbm_clos_v1, z
<1>2. Agree(n)
  <2> HIDE DEF n
  <2> QED
    BY <1>1 DEF Agree
<1>3. Masks(n)
  <2>1. DOMAIN n = CatAgents /\ \A i \in CatAgents : n[i] = [a \in CbmAddrs(i) |-> n[i][a]]
    BY DEF set_iol3_cbm_clos_v1
  <2>2. ASSUME NEW i \in CatAgents, NEW a \in CbmAddrs(i)
        PROVE  n[i][a] \in 0 .. FullMask(i)
    <3>1. PICK c \in Classes : a \in cbm_pages(DevAgents[i], c)
      BY DEF CbmAddrs
    <3> QED
      BY <1>1, <3>1
  <2> HIDE DEF n
  <2> QED
    BY <2>1, <2>2 DEF Masks
<1> QED
  BY <1>2, <1>3

-----------------------------------------------------------------------------
(* The calls *)

LEMMA DoneIs ==
  ASSUME NEW all, NEW done \in Done(all)
  PROVE  done \in SUBSET all
BY DEF Done

LEMMA CallIs ==
  ASSUME TypeOK, NEW op, NEW arg, NEW ret, NEW fault, NEW got, Call(op, arg, ret, fault, got)
  PROVE  /\ mrrm' = mrrm /\ calls' \in 0 .. MaxCalls
         /\ last'.op = op /\ last'.arg = arg /\ last'.ret = ret
         /\ last'.fault = fault /\ last'.got = got
BY FaultsAssumption DEF Call, TypeOK

\* The parts of RegistersSound that say something of the state; the others are
\* about the call that was last.
StateSound == TypeOK /\ PagesAgree

LEMMA StateIs ==
  StateSound <=> /\ mrrm \in Mrrm /\ mba \in Words /\ Masks(cbm) /\ Agree(cbm)
                 /\ tme \in [DOMAIN CpuAgents -> {0, 1}] /\ calls \in 0 .. MaxCalls
BY DEF StateSound, TypeOK, PagesAgree, Words, Masks, Agree

\* The same one step later.
LEMMA StateIsNext ==
  StateSound' <=> /\ mrrm' \in Mrrm /\ mba' \in Words /\ Masks(cbm') /\ Agree(cbm')
                  /\ tme' \in [DOMAIN CpuAgents -> {0, 1}] /\ calls' \in 0 .. MaxCalls
BY DEF StateSound, TypeOK, PagesAgree, Words, Masks, Agree, get_iol3_cbm_clos_v1

LEMMA MrrmNat ==
  ASSUME StateSound
  PROVE  mrrm \in Nat
BY InputsAssumption DEF StateSound, TypeOK

\* A call that leaves the registers alone and sets, reads back or resets none.
LEMMA NothingWritten ==
  ASSUME StateSound, NEW op, NEW arg, NEW ret, NEW fault, NEW got,
         Call(op, arg, ret, fault, got), UNCHANGED <<mba, cbm>>,
         tme' \in [DOMAIN CpuAgents -> {0, 1}],
         \/ op \notin {"mba_set", "reset"}
         \/ op = "mba_set" /\ ret # "ok"
         \/ op = "reset" /\ ret # "ok" /\ (ret = "error" => fault),
         op = "l3ca_set" => ret # "ok"
  PROVE  StateSound' /\ ReportedIsSet' /\ ResetRestores' /\ BandwidthStep /\ CacheStep
<1>1. /\ mrrm' = mrrm /\ calls' \in 0 .. MaxCalls
      /\ last'.op = op /\ last'.ret = ret /\ last'.fault = fault
  BY CallIs DEF StateSound
<1>2. StateSound'
  BY <1>1, StateIs, StateIsNext
<1>3. ReportedIsSet' /\ ResetRestores'
  BY <1>1 DEF ReportedIsSet, ResetRestores
<1>4. BandwidthStep
  BY <1>1 DEF BandwidthStep
<1>5. CacheStep
  <2>1. cbm' = cbm
    OBVIOUS
  <2> QED
    BY <1>1, <2>1 DEF CacheStep
<1> QED
  BY <1>2, <1>3, <1>4, <1>5

LEMMA MbaSetSound ==
  ASSUME StateSound, NEW s \in MbaSets, mmio_mba_set(s)
  PROVE  StateSound' /\ ReportedIsSet' /\ ResetRestores' /\ BandwidthStep /\ CacheStep
<1>1. cbm' = cbm /\ tme' = tme /\ tme \in [DOMAIN CpuAgents -> {0, 1}]
  BY StateIs DEF mmio_mba_set
<1>2. CASE Call("mba_set", s, "resource", FALSE, <<>>) /\ UNCHANGED mba
  BY <1>1, <1>2, NothingWritten
<1>3. CASE Call("mba_set", s, "param", FALSE, <<>>) /\ UNCHANGED mba
  BY <1>1, <1>3, NothingWritten
<1>4. ASSUME Accepted(s), NEW done \in Done(mba_accesses(s)),
             mba' = set_mba_bw_region_clos_v1(mba, Writes(s, done)),
             Call("mba_set", s, IF done = mba_accesses(s) THEN "ok" ELSE "error",
                  done # mba_accesses(s), Reported(s, done))
      PROVE  StateSound' /\ ReportedIsSet' /\ ResetRestores' /\ BandwidthStep /\ CacheStep
  <2>1. /\ mrrm' = mrrm /\ calls' \in 0 .. MaxCalls
        /\ last'.op = "mba_set" /\ last'.arg = s
        /\ last'.ret = (IF done = mba_accesses(s) THEN "ok" ELSE "error")
        /\ last'.got = Reported(s, done)
    BY <1>4, CallIs DEF StateSound
  <2>2. done \in SUBSET mba_accesses(s) /\ mrrm \in Nat
    BY DoneIs, MrrmNat
  <2>3. mba \in Words
    BY StateIs
  <2>4. mba' \in Words
    BY <1>4, <2>2, <2>3, SetTyped
  <2>5. StateSound'
    BY <1>1, <2>1, <2>4, StateIs, StateIsNext
  <2>6. ReportedIsSet'
    <3> SUFFICES ASSUME done = mba_accesses(s), NEW p \in DOMAIN last'.got
                 PROVE  LET a == last'.got[p]
                            again == {q \in mba_accesses(last'.arg) :
                                        /\ q[2] = Writing /\ Earlier(p, q)
                                        /\ [Access(last'.arg, q) EXCEPT !.bw = a.bw] = a}
                        IN again = {} => a.bw = get_mba_bw_region_clos_v1(mba', a.agent,
                                                  a.limit, a.region, a.class)
      BY <2>1 DEF ReportedIsSet, mba_accesses, Access, get_cpu_agent_idx_by_domain_id,
                  get_mba_bw_region_clos_v1
    <3>1. last'.got = Reported(s, mba_accesses(s)) /\ last'.arg = s
      BY <2>1
    <3>2. mba' = set_mba_bw_region_clos_v1(mba, Writes(s, mba_accesses(s)))
      BY <1>4
    <3> QED
      BY <1>4, <2>2, <3>1, <3>2, ReadTells
  <2>7. ResetRestores'
    BY <2>1 DEF ResetRestores
  <2>8. BandwidthStep
    <3> SUFFICES ASSUME NEW i \in MbaAgents, NEW l \in Limits, NEW c \in Classes, NEW g \in Lanes
                 PROVE  LET old == get_mba_bw_region_clos_v1(mba, i, l, g, c)
                            new == get_mba_bw_region_clos_v1(mba', i, l, g, c)
                            named == Naming(last'.arg, i, l, c, g)
                            later(p, q) == p[1] > q[1] \/ (p[1] = q[1] /\ p[2] >= q[2])
                            bw(p) == last'.arg.reqs[p[1]].regions[p[2]].bw[l]
                        IN CASE last'.ret \in {"param", "resource"} \/ named = {} -> new = old
                             [] last'.ret = "ok" /\ named # {} ->
                                  \E p \in named : (\A q \in named : later(p, q)) /\ new = bw(p)
                             [] OTHER -> new \in {old} \cup {bw(p) : p \in named}
      BY DEF BandwidthStep
    <3>1. LaneChange(last'.arg, done = mba_accesses(s), get_mba_bw_region_clos_v1(mba, i, l, g, c),
                     get_mba_bw_region_clos_v1(mba', i, l, g, c), i, l, c, g)
      BY <1>4, <2>1, <2>2, LaneChanges
    <3> DEFINE old == get_mba_bw_region_clos_v1(mba, i, l, g, c)
               new == get_mba_bw_region_clos_v1(mba', i, l, g, c)
               named == Naming(last'.arg, i, l, c, g)
    <3> HIDE DEF old, new, named
    <3> QED
      BY <2>1, <3>1 DEF LaneChange, old, new, named
  <2>9. CacheStep
    BY <2>1 DEF CacheStep
  <2> QED
    BY <2>5, <2>6, <2>7, <2>8, <2>9
<1> QED
  BY <1>2, <1>3, <1>4 DEF mmio_mba_set, Accepted

LEMMA ElementTyped ==
  ASSUME NEW ca \in CatSets
  PROVE  /\ Len(ca) \in Nat /\ DOMAIN ca = 1 .. Len(ca)
         /\ \A n \in DOMAIN ca : ca[n].class \in PageClasses /\ ca[n].mask \in Nat
<1> DEFINE Element == [domain : Nat, class : PageClasses, mask : Nat]
<1>1. ca \in Seq(Element)
  BY InputsAssumption DEF PageClasses
<1>2. ASSUME NEW n \in DOMAIN ca
      PROVE  ca[n].class \in PageClasses /\ ca[n].mask \in Nat
  <2>1. ca[n] \in Element
    <3> HIDE DEF Element
    <3> QED
      BY <1>1
  <2>2. PICK e \in Element : e = ca[n]
    BY <2>1
  <2> QED
    BY <2>2
<1> QED
  BY <1>1, <1>2

\* The writes of a set of masks that passed the checks.
LEMMA CatWritesSound ==
  ASSUME NEW ca \in CatSets, l3ca_checked(ca), NEW done \in SUBSET {<<n>> : n \in l3ca_prefix(ca)}
  PROVE  /\ CatSound(CatWrites(ca, done), 1, Len(ca))
         /\ \A p \in done : /\ p[1] \in DOMAIN ca /\ l3ca_accepted(ca[p[1]])
                            /\ p = <<p[1]>> /\ DOMAIN p = 1 .. 1
<1>1. ASSUME NEW p \in done
      PROVE  /\ p[1] \in DOMAIN ca /\ l3ca_accepted(ca[p[1]])
             /\ p = <<p[1]>> /\ DOMAIN p = 1 .. 1
             /\ Name(p, 1, Len(ca))
             /\ CatWrites(ca, done)[p].class \in PageClasses
             /\ CatWrites(ca, done)[p].mask \in 0 .. FullMask(CatWrites(ca, done)[p].agent)
  <2>1. PICK n \in l3ca_prefix(ca) : p = <<n>>
    OBVIOUS
  <2>2. n \in DOMAIN ca /\ n \in 1 .. Len(ca) /\ Len(ca) \in Nat /\ l3ca_accepted(ca[n])
    BY ElementTyped DEF l3ca_prefix
  <2>3. p[1] = n /\ DOMAIN p = 1 .. 1
    BY <2>1
  <2>4. Name(p, 1, Len(ca))
    BY <2>2, <2>3 DEF Name
  <2>5. /\ CatWrites(ca, done)[p].agent = DevOf(ca[n])
        /\ CatWrites(ca, done)[p].class = ca[n].class
        /\ CatWrites(ca, done)[p].mask = ca[n].mask
    BY <2>3 DEF CatWrites
  <2>6. /\ ca[n].class \in PageClasses /\ ca[n].mask \in Nat
        /\ DevOf(ca[n]) \in CatAgents /\ ca[n].mask <= FullMask(DevOf(ca[n]))
    BY <2>2, ElementTyped DEF l3ca_checked
  <2>7. FullMask(DevOf(ca[n])) \in Nat
    BY <2>6, InputsAssumption
  <2> QED
    BY <2>1, <2>2, <2>3, <2>4, <2>5, <2>6, <2>7
<1>2. DOMAIN CatWrites(ca, done) = done /\ Len(ca) \in Nat
  BY ElementTyped DEF CatWrites
<1> QED
  BY <1>1, <1>2 DEF CatSound

\* What a set of masks may do to the mask of a class.
MaskChange(ca, whole, old, new, i, c) ==
  LET to == {n \in DOMAIN ca : DevOf(ca[n]) = i /\ ca[n].class = c}
  IN /\ new # old => \E n \in to : new = ca[n].mask /\ l3ca_accepted(ca[n])
     /\ whole /\ to # {} => new = ca[Max(to)].mask

LEMMA MaskChanges ==
  ASSUME NEW ca \in CatSets, l3ca_checked(ca), NEW done \in SUBSET {<<n>> : n \in l3ca_prefix(ca)},
         NEW m, NEW i \in CatAgents, NEW c \in Classes
  PROVE  MaskChange(ca, done = {<<n>> : n \in DOMAIN ca}, get_iol3_cbm_clos_v1(m, i, c),
            get_iol3_cbm_clos_v1(set_iol3_cbm_clos_v1(m, CatWrites(ca, done)), i, c), i, c)
<1> DEFINE w == CatWrites(ca, done)
           z == cbm_addr(DevAgents[i], c, 0)
           to == {n \in DOMAIN ca : DevOf(ca[n]) = i /\ ca[n].class = c}
           hits == {p \in DOMAIN w : w[p].agent = i /\ w[p].class = c}
           new == get_iol3_cbm_clos_v1(set_iol3_cbm_clos_v1(m, w), i, c)
           old == get_iol3_cbm_clos_v1(m, i, c)
<1>1. MaskRight(m, w, i, c, z)
  BY CatWritesSound, FirstPage, MaskIs
<1>2. /\ hits = {} => new = old
      /\ hits # {} => /\ new = w[Latest(hits)].mask
                      /\ Latest(hits) \in hits
                      /\ \A q \in hits : ~Earlier(Latest(hits), q)
  BY <1>1 DEF MaskRight, get_iol3_cbm_clos_v1
<1>3. ASSUME NEW p \in hits
      PROVE  /\ p[1] \in to /\ l3ca_accepted(ca[p[1]])
             /\ w[p].mask = ca[p[1]].mask /\ DOMAIN p = 1 .. 1 /\ p \in done
  <2>1. p \in done /\ w[p].agent = DevOf(ca[p[1]]) /\ w[p].class = ca[p[1]].class
        /\ w[p].mask = ca[p[1]].mask
    BY DEF CatWrites
  <2> QED
    BY <2>1, CatWritesSound
<1>4. new # old => \E n \in to : new = ca[n].mask /\ l3ca_accepted(ca[n])
  <2> HIDE DEF new, old, hits, to
  <2> QED
    BY <1>2, <1>3
<1>5. ASSUME done = {<<n>> : n \in DOMAIN ca}, to # {}
      PROVE  new = ca[Max(to)].mask
  <2>1. ASSUME NEW n \in to
        PROVE  <<n>> \in hits
    <3>1. <<n>> \in done
      BY <1>5
    <3>2. /\ w[<<n>>].agent = DevOf(ca[n]) /\ w[<<n>>].class = ca[n].class
          /\ <<n>> \in DOMAIN w
      BY <3>1 DEF CatWrites
    <3> QED
      BY <3>2
  <2>2. hits # {}
    BY <1>5, <2>1
  <2> DEFINE p == Latest(hits)
  <2>3. p \in hits /\ new = w[p].mask /\ \A q \in hits : ~Earlier(p, q)
    BY <1>2, <2>2
  <2> HIDE DEF p, hits, new
  <2>4. p[1] \in to /\ new = ca[p[1]].mask /\ DOMAIN p = 1 .. 1
    BY <1>3, <2>3
  <2>5. to \in SUBSET Nat
    BY ElementTyped
  <2>6. ASSUME NEW n \in to
        PROVE  n <= p[1]
    <3>1. ~Earlier(p, <<n>>)
      BY <2>1, <2>3
    <3>2. ~(p[1] < n)
      BY <2>4, <3>1, EarlierOne
    <3> QED
      BY <2>4, <2>5, <3>2
  <2> HIDE DEF to
  <2>7. Max(to) \in to /\ \A n \in to : Max(to) >= n
    <3>1. \E x \in to : \A y \in to : x >= y
      BY <2>4, <2>5, <2>6
    <3> QED
      BY <3>1 DEF Max
  <2>8. Max(to) = p[1]
    <3>1. Max(to) \in Nat /\ p[1] \in Nat
      BY <2>4, <2>5, <2>7
    <3>2. Max(to) <= p[1] /\ Max(to) >= p[1]
      BY <2>4, <2>6, <2>7
    <3> QED
      BY <3>1, <3>2
  <2> QED
    BY <2>4, <2>8
<1> QED
  BY <1>4, <1>5 DEF MaskChange

LEMMA CatSetSound ==
  ASSUME StateSound, NEW ca \in CatSets, mmio_l3ca_set(ca)
  PROVE  StateSound' /\ ReportedIsSet' /\ ResetRestores' /\ BandwidthStep /\ CacheStep
<1>1. mba' = mba /\ tme' = tme /\ tme \in [DOMAIN CpuAgents -> {0, 1}]
  BY StateIs DEF mmio_l3ca_set
<1>2. CASE Call("l3ca_set", ca, "error", FALSE, <<>>) /\ UNCHANGED cbm
  BY <1>1, <1>2, NothingWritten
<1>3. CASE Call("l3ca_set", ca, "param", FALSE, <<>>) /\ UNCHANGED cbm
  BY <1>1, <1>3, NothingWritten
<1> DEFINE all == {<<n>> : n \in l3ca_prefix(ca)}
           code(done) == CASE done # all -> "error"
                           [] done = all /\ l3ca_prefix(ca) # DOMAIN ca -> "param"
                           [] OTHER -> "ok"
<1>4. ASSUME l3ca_checked(ca), NEW done \in Done(all),
             cbm' = set_iol3_cbm_clos_v1(cbm, CatWrites(ca, done)),
             Call("l3ca_set", ca, code(done), done # all, <<>>)
      PROVE  StateSound' /\ ReportedIsSet' /\ ResetRestores' /\ BandwidthStep /\ CacheStep
  <2>1. /\ mrrm' = mrrm /\ calls' \in 0 .. MaxCalls
        /\ last'.op = "l3ca_set" /\ last'.arg = ca /\ last'.ret = code(done)
    <3> HIDE DEF code, all
    <3> QED
      BY <1>4, CallIs DEF StateSound
  <2>2. done \in SUBSET all
    <3> HIDE DEF all
    <3> QED
      BY DoneIs
  <2>3. CatSound(CatWrites(ca, done), 1, Len(ca))
    BY <1>4, <2>2, CatWritesSound
  <2>4. Masks(cbm') /\ Agree(cbm')
    BY <1>4, <2>3, CatKeeps, StateIs
  <2>5. StateSound'
    BY <1>1, <2>1, <2>4, StateIs, StateIsNext
  <2>6. ReportedIsSet' /\ ResetRestores' /\ BandwidthStep
    BY <2>1 DEF ReportedIsSet, ResetRestores, BandwidthStep
  <2>7. code(done) = "ok" => done = {<<n>> : n \in DOMAIN ca}
    OBVIOUS
  <2>8. CacheStep
    <3> SUFFICES ASSUME NEW i \in CatAgents, NEW c \in Classes
                 PROVE  LET to == {n \in DOMAIN ca : DevOf(ca[n]) = i /\ ca[n].class = c}
                            new == get_iol3_cbm_clos_v1(cbm', i, c)
                            old == get_iol3_cbm_clos_v1(cbm, i, c)
                        IN /\ new # old =>
                                \E n \in to : new = ca[n].mask /\ l3ca_accepted(ca[n])
                           /\ last'.ret = "ok" /\ to # {} => new = ca[Max(to)].mask
      BY <2>1 DEF CacheStep
    <3>1. MaskChange(ca, done = {<<n>> : n \in DOMAIN ca}, get_iol3_cbm_clos_v1(cbm, i, c),
                     get_iol3_cbm_clos_v1(cbm', i, c), i, c)
      BY <1>4, <2>2, MaskChanges
    <3> HIDE DEF code
    <3> QED
      BY <2>1, <2>7, <3>1 DEF MaskChange
  <2> QED
    BY <2>5, <2>6, <2>8
<1> QED
  BY <1>2, <1>3, <1>4 DEF mmio_l3ca_set

\* The writes of a reset are of masks the agents have.
LEMMA ResetCatSound ==
  ASSUME NEW done \in SUBSET mmio_alloc_reset_cat
  PROVE  CatSound(ResetCat(done), 2, Len(DevAgents) + MaxClos)
<1> DEFINE b == Len(DevAgents) + MaxClos
<1>1. Len(DevAgents) \in Nat /\ MaxClos \in Nat /\ b \in Nat
  BY InputsAssumption, AgentsAssumption
<1>2. ASSUME NEW p \in done
      PROVE  /\ Name(p, 2, b)
             /\ ResetCat(done)[p].class \in PageClasses
             /\ ResetCat(done)[p].mask \in 0 .. FullMask(ResetCat(done)[p].agent)
  <2>1. /\ p[1] \in CatAgents /\ p[2] \in Classes /\ DOMAIN p = 1 .. 2
    BY DEF mmio_alloc_reset_cat
  <2>2. p[1] \in 1 .. Len(DevAgents)
    BY <2>1, InputsAssumption DEF CatAgents
  <2>3. \A n \in 1 .. 2 : n = 1 \/ n = 2
    OBVIOUS
  <2>4. Name(p, 2, b)
    BY <1>1, <2>1, <2>2, <2>3 DEF Name, Classes
  <2>5. /\ ResetCat(done)[p].agent = p[1] /\ ResetCat(done)[p].class = p[2]
        /\ ResetCat(done)[p].mask = FullMask(p[1])
    BY DEF ResetCat
  <2>6. FullMask(p[1]) \in Nat
    BY <2>1, InputsAssumption
  <2> QED
    BY <2>1, <2>4, <2>5, <2>6, ClassesFit
<1>3. DOMAIN ResetCat(done) = done
  BY DEF ResetCat
<1> HIDE DEF b
<1>4. CatSound(ResetCat(done), 2, b)
  BY <1>1, <1>2, <1>3 DEF CatSound
<1> QED
  BY <1>4 DEF b

LEMMA MaskAfterReset ==
  ASSUME NEW m, NEW i \in CatAgents, NEW c \in Classes
  PROVE  get_iol3_cbm_clos_v1(set_iol3_cbm_clos_v1(m, ResetCat(mmio_alloc_reset_cat)), i, c)
           = FullMask(i)
<1> DEFINE all == mmio_alloc_reset_cat
           w == ResetCat(all)
           z == cbm_addr(DevAgents[i], c, 0)
           hits == {p \in DOMAIN w : w[p].agent = i /\ w[p].class = c}
<1>1. MaskRight(m, w, i, c, z)
  BY ResetCatSound, FirstPage, MaskIs
<1>2. hits # {} => set_iol3_cbm_clos_v1(m, w)[i][z] = w[Latest(hits)].mask /\ Latest(hits) \in hits
  BY <1>1 DEF MaskRight
<1>3. <<i, c>> \in hits
  <2>1. <<i, c>> \in all
    BY DEF mmio_alloc_reset_cat
  <2>2. <<i, c>> \in DOMAIN w /\ w[<<i, c>>].agent = i /\ w[<<i, c>>].class = c
    BY <2>1 DEF ResetCat
  <2> QED
    BY <2>2
<1>4. \A p \in hits : w[p].mask = FullMask(i)
  BY DEF ResetCat
<1> HIDE DEF hits, w
<1> QED
  BY <1>2, <1>3, <1>4 DEF get_iol3_cbm_clos_v1, z, w

LEMMA ResetSound ==
  ASSUME StateSound, mmio_alloc_reset
  PROVE  StateSound' /\ ReportedIsSet' /\ ResetRestores' /\ BandwidthStep /\ CacheStep
<1>1. tme' = tme /\ tme \in [DOMAIN CpuAgents -> {0, 1}]
  BY StateIs DEF mmio_alloc_reset
<1>2. CASE Call("reset", <<>>, "error", TRUE, <<>>) /\ UNCHANGED <<mba, cbm>>
  BY <1>1, <1>2, NothingWritten
<1>3. CASE Call("reset", <<>>, "resource", FALSE, <<>>) /\ UNCHANGED <<mba, cbm>>
  BY <1>1, <1>3, NothingWritten
<1> DEFINE whole(f, g) == f = mmio_alloc_reset_mba /\ g = mmio_alloc_reset_cat
<1>4. ASSUME NEW first \in Done(mmio_alloc_reset_mba),
             NEW second \in IF first = mmio_alloc_reset_mba THEN Done(mmio_alloc_reset_cat)
                            ELSE {{}},
             Call("reset", <<>>, IF whole(first, second) THEN "ok" ELSE "error",
                  ~whole(first, second), <<>>),
             mba' = ResetMba(mba, first),
             cbm' = set_iol3_cbm_clos_v1(cbm, ResetCat(second))
      PROVE  StateSound' /\ ReportedIsSet' /\ ResetRestores' /\ BandwidthStep /\ CacheStep
  <2>1. /\ mrrm' = mrrm /\ calls' \in 0 .. MaxCalls
        /\ last'.op = "reset" /\ last'.fault = ~whole(first, second)
        /\ last'.ret = IF whole(first, second) THEN "ok" ELSE "error"
    <3> HIDE DEF whole
    <3> QED
      BY <1>4, CallIs DEF StateSound
  <2>2. second \in SUBSET mmio_alloc_reset_cat
    BY DoneIs
  <2>3. mba' \in Words
    BY <1>4, StateIs, ResetTyped
  <2>4. Masks(cbm') /\ Agree(cbm')
    BY <1>4, <2>2, ResetCatSound, CatKeeps, StateIs
  <2>5. StateSound'
    BY <1>1, <2>1, <2>3, <2>4, StateIs, StateIsNext
  <2>6. ReportedIsSet' /\ BandwidthStep /\ CacheStep
    BY <2>1 DEF ReportedIsSet, BandwidthStep, CacheStep
  <2>7. ASSUME whole(first, second)
        PROVE  /\ \A i \in MbaAgents, l \in Limits, c \in Classes, g \in Regions :
                    get_mba_bw_region_clos_v1(mba', i, l, g, c) = MBA_MAX_BW
               /\ \A i \in CatAgents, c \in Classes :
                    get_iol3_cbm_clos_v1(cbm', i, c) = FullMask(i)
    <3>1. mrrm \in Nat
      BY MrrmNat
    <3>2. /\ mba' = ResetMba(mba, mmio_alloc_reset_mba)
          /\ cbm' = set_iol3_cbm_clos_v1(cbm, ResetCat(mmio_alloc_reset_cat))
      BY <1>4, <2>7
    <3> QED
      BY <3>1, <3>2, ReadAfterReset, MaskAfterReset
  <2>8. Regions' = Regions
    BY <2>1 DEF Regions, mmio_get_num_mem_regions
  <2>9. ResetRestores'
    <3> HIDE DEF whole
    <3> QED
      BY <2>1, <2>7, <2>8 DEF ResetRestores, get_mba_bw_region_clos_v1, get_iol3_cbm_clos_v1
  <2> QED
    BY <2>5, <2>6, <2>9
<1> QED
  BY <1>2, <1>3, <1>4 DEF mmio_alloc_reset

LEMMA ModeSound ==
  ASSUME StateSound, NEW mode \in {0, 1}, mmio_set_mbm_mba_mode(mode)
  PROVE  StateSound' /\ ReportedIsSet' /\ ResetRestores' /\ BandwidthStep /\ CacheStep
<1> DEFINE all == {<<i>> : i \in DOMAIN CpuAgents}
<1>1. PICK done \in Done(all) :
        /\ tme' = set_mbm_mba_mode_v1(tme, done, mode)
        /\ Call("mode", mode, IF done = all THEN "ok" ELSE "error", done # all, <<>>)
  BY DEF mmio_set_mbm_mba_mode
<1>2. tme' \in [DOMAIN CpuAgents -> {0, 1}]
  BY <1>1, StateIs DEF set_mbm_mba_mode_v1
<1>3. UNCHANGED <<mba, cbm>>
  BY DEF mmio_set_mbm_mba_mode
<1> HIDE DEF all
<1> QED
  BY <1>1, <1>2, <1>3, NothingWritten

\* The calls that read, and the dumps.
LEMMA ReadSound ==
  ASSUME StateSound, UNCHANGED <<mba, cbm, tme>>,
         NEW op \in {"mba_get", "l3ca_get", "dump", "dump_rmids", "dump_info"},
         NEW arg, NEW ret, NEW fault, NEW got, Call(op, arg, ret, fault, got)
  PROVE  StateSound' /\ ReportedIsSet' /\ ResetRestores' /\ BandwidthStep /\ CacheStep
<1>1. tme' \in [DOMAIN CpuAgents -> {0, 1}]
  BY StateIs
<1> QED
  BY <1>1, NothingWritten

-----------------------------------------------------------------------------
(* Sequences of sequences *)

\* A set that holds 0, and with every number the next one, holds all numbers.
LEMMA AllNumbers ==
  ASSUME NEW T, 0 \in T, \A m \in Nat : m \in T => m + 1 \in T
  PROVE  \A m \in Nat : m \in T
<1> DEFINE out == {m \in Nat : m \notin T}
<1> SUFFICES ASSUME out # {} PROVE FALSE
  OBVIOUS
<1>1. PICK m \in out : \A k \in out : m <= k
  <2>1. out \in SUBSET Nat
    OBVIOUS
  <2> HIDE DEF out
  <2> QED
    BY <2>1, LeastNumber
<1>2. m \in Nat \ {0} /\ m \notin T
  OBVIOUS
<1>3. m - 1 \in Nat /\ ~(m <= m - 1)
  BY <1>2
<1>4. m - 1 \in T
  BY <1>1, <1>3
<1>5. (m - 1) + 1 \in T
  BY <1>3, <1>4
<1> QED
  BY <1>2, <1>5

LEMMA Elements ==
  ASSUME NEW S, NEW s \in Seq(S)
  PROVE  Len(s) \in Nat /\ DOMAIN s = 1 .. Len(s) /\ \A i \in 1 .. Len(s) : s[i] \in S
  OBVIOUS

\* f lists, for every n, what the first n sequences of q are in a row.
Row(f, q, m) == f = [n \in 1 .. m |-> IF n = 1 THEN q[n] ELSE f[n - 1] \o q[n]]

LEMMA RowsExist ==
  ASSUME NEW q, Len(q) \in Nat
  PROVE  \E f : Row(f, q, Len(q))
<1> DEFINE T == {m \in Nat : \E f : Row(f, q, m)}
<1>1. 0 \in T
  <2> DEFINE none == [n \in 1 .. 0 |-> q[n]]
  <2>1. none = [n \in 1 .. 0 |-> IF n = 1 THEN q[n] ELSE none[n - 1] \o q[n]]
    OBVIOUS
  <2>2. Row(none, q, 0)
    BY <2>1 DEF Row
  <2> QED
    BY <2>2
<1>2. \A m \in Nat : m \in T => m + 1 \in T
  <2> SUFFICES ASSUME NEW m \in Nat, m \in T PROVE m + 1 \in T
    OBVIOUS
  <2>1. PICK f : Row(f, q, m)
    OBVIOUS
  <2> DEFINE g == [n \in 1 .. (m + 1) |-> IF n = m + 1 THEN IF n = 1 THEN q[n] ELSE f[n - 1] \o q[n] ELSE f[n]]
  <2>2. ASSUME NEW n \in 1 .. (m + 1)
        PROVE  g[n] = IF n = 1 THEN q[n] ELSE g[n - 1] \o q[n]
    <3>1. n # 1 => g[n - 1] = f[n - 1]
      OBVIOUS
    <3>2. n # m + 1 => f[n] = IF n = 1 THEN q[n] ELSE f[n - 1] \o q[n]
      <4>1. n # m + 1 => n \in 1 .. m
        OBVIOUS
      <4> QED
        BY <2>1, <4>1 DEF Row
    <3> QED
      BY <3>1, <3>2
  <2>3. g = [n \in 1 .. (m + 1) |-> g[n]]
    OBVIOUS
  <2> HIDE DEF g
  <2>4. Row(g, q, m + 1)
    BY <2>2, <2>3 DEF Row
  <2> QED
    BY <2>4
<1> HIDE DEF T
<1>3. Len(q) \in T
  BY <1>1, <1>2, AllNumbers
<1> QED
  BY <1>3 DEF T

LEMMA FlattenIs ==
  ASSUME NEW S, NEW q \in Seq(Seq(S)), Len(q) # 0
  PROVE  \E f : /\ FlattenSeq(q) = f[Len(q)]
                /\ f[1] = q[1] /\ \A n \in 2 .. Len(q) : f[n] = f[n - 1] \o q[n]
                /\ \A n \in 1 .. Len(q) : f[n] \in Seq(S)
<1> DEFINE f == CHOOSE f : Row(f, q, Len(q))
<1>1. Row(f, q, Len(q))
  BY RowsExist
<1>2. FlattenSeq(q) = f[Len(q)]
  BY DEF FlattenSeq, Row
<1> HIDE DEF f
<1>3. \A n \in 1 .. Len(q) : f[n] = IF n = 1 THEN q[n] ELSE f[n - 1] \o q[n]
  BY <1>1 DEF Row
<1>4. f[1] = q[1] /\ \A n \in 2 .. Len(q) : f[n] = f[n - 1] \o q[n]
  <2>1. 1 \in 1 .. Len(q) /\ \A n \in 2 .. Len(q) : n \in 1 .. Len(q) /\ n # 1
    OBVIOUS
  <2> QED
    BY <1>3, <2>1
<1> DEFINE T == {m \in Nat : m + 1 \in 1 .. Len(q) => f[m + 1] \in Seq(S)}
<1>5. 0 \in T
  BY <1>4
<1>6. \A m \in Nat : m \in T => m + 1 \in T
  <2> SUFFICES ASSUME NEW m \in Nat, m \in T, m + 2 \in 1 .. Len(q) PROVE f[m + 2] \in Seq(S)
    OBVIOUS
  <2>1. m + 2 \in 2 .. Len(q) /\ m + 1 \in 1 .. Len(q) /\ (m + 2) - 1 = m + 1
    OBVIOUS
  <2>2. f[m + 2] = f[m + 1] \o q[m + 2]
    BY <1>4, <2>1
  <2>3. f[m + 1] \in Seq(S)
    BY <2>1
  <2>4. q[m + 2] \in Seq(S)
    BY <2>1
  <2> QED
    BY <2>2, <2>3, <2>4
<1>7. \A m \in Nat : m \in T
  <2> HIDE DEF T
  <2> QED
    BY <1>5, <1>6, AllNumbers
<1>8. ASSUME NEW n \in 1 .. Len(q)
      PROVE  f[n] \in Seq(S)
  <2>1. n - 1 \in Nat /\ (n - 1) + 1 = n
    OBVIOUS
  <2> QED
    BY <1>7, <2>1
<1> QED
  BY <1>2, <1>4, <1>8

LEMMA FlattenType ==
  ASSUME NEW S, NEW q \in Seq(Seq(S))
  PROVE  FlattenSeq(q) \in Seq(S)
<1>1. CASE Len(q) = 0
  BY <1>1 DEF FlattenSeq
<1>2. CASE Len(q) # 0
  <2>1. PICK f : FlattenSeq(q) = f[Len(q)] /\ \A n \in 1 .. Len(q) : f[n] \in Seq(S)
    BY <1>2, FlattenIs
  <2>2. Len(q) \in 1 .. Len(q)
    BY <1>2
  <2> QED
    BY <2>1, <2>2
<1> QED
  BY <1>1, <1>2

LEMMA FlattenOne ==
  ASSUME NEW S, NEW s \in Seq(S)
  PROVE  FlattenSeq(<<s>>) = s
<1> DEFINE q == <<s>>
<1>1. q \in Seq(Seq(S)) /\ Len(q) = 1 /\ q[1] = s
  OBVIOUS
<1> HIDE DEF q
<1>2. Len(q) # 0
  BY <1>1
<1>3. PICK f : FlattenSeq(q) = f[Len(q)] /\ f[1] = q[1]
  BY <1>1, <1>2, FlattenIs
<1> QED
  BY <1>1, <1>3 DEF q

\* What the sequences of q hold together.
Within(q) == UNION {ToSet(q[i]) : i \in 1 .. Len(q)}

LEMMA AppendedSet ==
  ASSUME NEW S, NEW a \in Seq(S), NEW b \in Seq(S)
  PROVE  ToSet(a \o b) = ToSet(a) \cup ToSet(b)
<1>1. Len(a \o b) = Len(a) + Len(b) /\ a \o b \in Seq(S)
  OBVIOUS
<1>2. \A i \in 1 .. Len(a) : (a \o b)[i] = a[i]
  OBVIOUS
<1>3. \A i \in 1 .. Len(b) : (a \o b)[Len(a) + i] = b[i]
  OBVIOUS
<1>4. \A x \in ToSet(a \o b) : x \in ToSet(a) \cup ToSet(b)
  <2> SUFFICES ASSUME NEW k \in 1 .. (Len(a) + Len(b))
               PROVE  (a \o b)[k] \in ToSet(a) \cup ToSet(b)
    BY <1>1 DEF ToSet
  <2>1. CASE k <= Len(a)
    <3>1. k \in 1 .. Len(a)
      BY <2>1
    <3> QED
      BY <1>2, <3>1 DEF ToSet
  <2>2. CASE k > Len(a)
    <3>1. k - Len(a) \in 1 .. Len(b) /\ Len(a) + (k - Len(a)) = k
      BY <2>2
    <3>2. (a \o b)[k] = b[k - Len(a)]
      BY <1>3, <3>1
    <3> QED
      BY <3>1, <3>2 DEF ToSet
  <2> QED
    BY <2>1, <2>2
<1>5. \A x \in ToSet(a) : x \in ToSet(a \o b)
  <2> SUFFICES ASSUME NEW k \in 1 .. Len(a)
               PROVE  a[k] \in ToSet(a \o b)
    BY DEF ToSet
  <2>1. k \in 1 .. Len(a \o b) /\ (a \o b)[k] = a[k]
    BY <1>1, <1>2
  <2> QED
    BY <1>1, <2>1 DEF ToSet
<1>6. \A x \in ToSet(b) : x \in ToSet(a \o b)
  <2> SUFFICES ASSUME NEW k \in 1 .. Len(b)
               PROVE  b[k] \in ToSet(a \o b)
    BY DEF ToSet
  <2>1. Len(a) + k \in 1 .. Len(a \o b) /\ (a \o b)[Len(a) + k] = b[k]
    BY <1>1, <1>3
  <2> QED
    BY <1>1, <2>1 DEF ToSet
<1> QED
  BY <1>4, <1>5, <1>6

LEMMA FlattenHolds ==
  ASSUME NEW S, NEW q \in Seq(Seq(S))
  PROVE  ToSet(FlattenSeq(q)) = Within(q)
<1>1. CASE Len(q) = 0
  <2>1. q = <<>>
    BY <1>1
  <2> QED
    BY <2>1 DEF FlattenSeq, Within, ToSet
<1>2. CASE Len(q) # 0
  <2>1. PICK f : /\ FlattenSeq(q) = f[Len(q)]
                 /\ f[1] = q[1] /\ \A n \in 2 .. Len(q) : f[n] = f[n - 1] \o q[n]
                 /\ \A n \in 1 .. Len(q) : f[n] \in Seq(S)
    BY <1>2, FlattenIs
  <2> DEFINE P(k) == ToSet(f[k]) = UNION {ToSet(q[i]) : i \in 1 .. k}
             T == {m \in Nat : m + 1 \in 1 .. Len(q) => P(m + 1)}
  <2>2. 0 \in T
    <3>1. UNION {ToSet(q[i]) : i \in 1 .. (0 + 1)} = ToSet(q[1])
      OBVIOUS
    <3>2. ToSet(f[0 + 1]) = ToSet(q[1])
      BY <2>1
    <3> QED
      BY <3>1, <3>2
  <2>3. \A m \in Nat : m \in T => m + 1 \in T
    <3> SUFFICES ASSUME NEW m \in Nat, m \in T, m + 2 \in 1 .. Len(q)
                 PROVE  P(m + 2)
      <4>1. \A k \in Nat : k + 1 \in Nat /\ (k + 1) + 1 = k + 2
        OBVIOUS
      <4> HIDE DEF P
      <4> QED
        BY <4>1
    <3>1. m + 2 \in 2 .. Len(q) /\ m + 1 \in 1 .. Len(q) /\ (m + 2) - 1 = m + 1
      OBVIOUS
    <3>2. f[m + 2] = f[m + 1] \o q[m + 2] /\ f[m + 1] \in Seq(S) /\ q[m + 2] \in Seq(S)
      <4>1. f[m + 2] = f[(m + 2) - 1] \o q[m + 2] /\ f[m + 1] \in Seq(S)
        BY <2>1, <3>1, Zenon
      <4>2. q[m + 2] \in Seq(S)
        <5>1. \A i \in 1 .. Len(q) : q[i] \in Seq(S)
          BY Elements
        <5> QED
          BY <5>1, Zenon
      <4> QED
        BY <3>1, <4>1, <4>2, Zenon
    <3>3. ToSet(f[m + 2]) = ToSet(f[m + 1]) \cup ToSet(q[m + 2])
      BY <3>2, AppendedSet
    <3>4. ToSet(f[m + 1]) = UNION {ToSet(q[i]) : i \in 1 .. (m + 1)}
      BY <3>1
    <3>5. 1 .. (m + 2) = (1 .. (m + 1)) \cup {m + 2}
      OBVIOUS
    <3> QED
      BY <3>3, <3>4, <3>5
  <2>4. \A m \in Nat : m \in T
    <3> HIDE DEF T
    <3> QED
      BY <2>2, <2>3, AllNumbers
  <2>5. Len(q) - 1 \in Nat /\ (Len(q) - 1) + 1 = Len(q) /\ Len(q) \in 1 .. Len(q)
    BY <1>2
  <2>6. P(Len(q))
    <3> HIDE DEF P
    <3> QED
      BY <2>4, <2>5
  <2> QED
    BY <2>1, <2>6 DEF Within
<1> QED
  BY <1>1, <1>2

\* All sequences of q are w long, the last one excepted, which may be shorter.
Uniform(q, w) ==
  /\ \A i \in 1 .. Len(q) : Len(q[i]) <= w
  /\ \A i \in 1 .. (Len(q) - 1) : Len(q[i]) = w

LEMMA Product == ASSUME NEW m \in Nat, NEW w \in Nat PROVE m * w \in Nat /\ (m + 1) * w = m * w + w
  OBVIOUS

LEMMA Joined ==
  ASSUME NEW S, NEW a \in Seq(S), NEW b \in Seq(S)
  PROVE  /\ a \o b \in Seq(S) /\ Len(a \o b) = Len(a) + Len(b) /\ Len(a) \in Nat /\ Len(b) \in Nat
         /\ \A i \in 1 .. Len(a) : (a \o b)[i] = a[i]
         /\ \A i \in 1 .. Len(b) : (a \o b)[Len(a) + i] = b[i]
  OBVIOUS

\* a is the first m + 1 sequences of q in a row.
Taken(a, q, w, m) ==
  /\ Len(a) = m * w + Len(q[m + 1])
  /\ \A i \in 1 .. (m + 1) : \A j \in 1 .. Len(q[i]) :
       (i - 1) * w + j \in 1 .. Len(a) /\ a[(i - 1) * w + j] = q[i][j]

LEMMA TakeOne ==
  ASSUME NEW S, NEW q \in Seq(Seq(S)), NEW w \in Nat, Uniform(q, w),
         NEW m \in Nat, m + 2 \in 1 .. Len(q), NEW a \in Seq(S), Taken(a, q, w, m)
  PROVE  Taken(a \o q[m + 2], q, w, m + 1)
<1> DEFINE b == q[m + 2]
           c == a \o b
<1>1. b \in Seq(S)
  OBVIOUS
<1>2. Len(a) = (m + 1) * w
  <2>1. m + 1 \in 1 .. (Len(q) - 1)
    OBVIOUS
  <2>2. Len(q[m + 1]) = w
    BY <2>1 DEF Uniform
  <2> QED
    BY <2>2, Product DEF Taken
<1>3. /\ c \in Seq(S) /\ Len(c) = Len(a) + Len(b) /\ Len(a) \in Nat /\ Len(b) \in Nat
      /\ \A i \in 1 .. Len(a) : c[i] = a[i]
      /\ \A i \in 1 .. Len(b) : c[Len(a) + i] = b[i]
  BY <1>1, Joined
<1> HIDE DEF c
<1>4. ASSUME NEW i \in 1 .. (m + 2), NEW j \in 1 .. Len(q[i])
      PROVE  (i - 1) * w + j \in 1 .. Len(c) /\ c[(i - 1) * w + j] = q[i][j]
  <2> DEFINE k == (i - 1) * w + j
  <2>1. CASE i = m + 2
    <3>1. k = Len(a) + j /\ j \in 1 .. Len(b)
      BY <1>2, <2>1
    <3> HIDE DEF k
    <3>2. k \in 1 .. Len(c) /\ c[k] = b[j]
      BY <1>3, <3>1
    <3> QED
      BY <2>1, <3>2 DEF k
  <2>2. CASE i # m + 2
    <3>1. i \in 1 .. (m + 1)
      BY <2>2
    <3>2. k \in 1 .. Len(a) /\ a[k] = q[i][j]
      BY <3>1 DEF Taken
    <3> HIDE DEF k
    <3>3. k \in 1 .. Len(a)
      BY <3>2
    <3>4. c[k] = a[k]
      BY <1>3, <3>3
    <3>5. k \in 1 .. Len(c)
      <4> HIDE DEF b
      <4> QED
        BY <1>3, <3>3
    <3> QED
      BY <3>2, <3>4, <3>5 DEF k
  <2> QED
    BY <2>1, <2>2
<1>5. (m + 1) + 1 = m + 2
  OBVIOUS
<1>6. Len(c) = (m + 1) * w + Len(q[(m + 1) + 1])
  BY <1>2, <1>3, <1>5
<1>7. Taken(c, q, w, m + 1)
  <2> HIDE DEF b
  <2> QED
    BY <1>4, <1>5, <1>6 DEF Taken
<1> QED
  BY <1>7 DEF c

\* Where the elements of such sequences are in a row.
Strung(q, w) ==
  /\ Len(FlattenSeq(q)) = (Len(q) - 1) * w + Len(q[Len(q)])
  /\ \A i \in 1 .. Len(q) : \A j \in 1 .. Len(q[i]) :
       FlattenSeq(q)[(i - 1) * w + j] = q[i][j]

LEMMA FlattenUniform ==
  ASSUME NEW S, NEW q \in Seq(Seq(S)), NEW w \in Nat, Uniform(q, w), Len(q) # 0
  PROVE  Strung(q, w)
<1>1. PICK f : /\ FlattenSeq(q) = f[Len(q)]
               /\ f[1] = q[1] /\ \A n \in 2 .. Len(q) : f[n] = f[n - 1] \o q[n]
               /\ \A n \in 1 .. Len(q) : f[n] \in Seq(S)
  BY FlattenIs
<1> DEFINE T == {m \in Nat : m + 1 \in 1 .. Len(q) => Taken(f[m + 1], q, w, m)}
<1>2. 0 \in T
  <2>1. f[0 + 1] = q[1] /\ q[1] \in Seq(S)
    BY <1>1
  <2>2. ASSUME NEW i \in 1 .. (0 + 1), NEW j \in 1 .. Len(q[i])
        PROVE  (i - 1) * w + j \in 1 .. Len(q[1]) /\ q[1][(i - 1) * w + j] = q[i][j]
    <3>1. i = 1 /\ (i - 1) * w + j = j /\ j \in 1 .. Len(q[1])
      OBVIOUS
    <3> QED
      BY <3>1
  <2>3. 0 * w = 0 /\ Len(q[1]) \in Nat
    BY <2>1
  <2> DEFINE a == q[1]
  <2>4. a = q[0 + 1] /\ Len(a) = 0 * w + Len(q[0 + 1])
    <3>1. 0 + 1 = 1 /\ \A l \in Nat : l = 0 * w + l
      OBVIOUS
    <3>2. Len(a) = 0 * w + Len(a)
      BY <2>3, <3>1, Zenon
    <3> QED
      BY <3>1, <3>2, Zenon
  <2>5. \A i \in 1 .. (0 + 1) : \A j \in 1 .. Len(q[i]) :
          (i - 1) * w + j \in 1 .. Len(a) /\ a[(i - 1) * w + j] = q[i][j]
    BY <2>2
  <2> HIDE DEF a
  <2>6. Taken(a, q, w, 0)
    BY <2>4, <2>5, Zenon DEF Taken
  <2>7. f[0 + 1] = a
    BY <2>1 DEF a
  <2> QED
    BY <2>6, <2>7
<1>3. \A m \in Nat : m \in T => m + 1 \in T
  <2> SUFFICES ASSUME NEW m \in Nat, m \in T, m + 2 \in 1 .. Len(q)
               PROVE  Taken(f[m + 2], q, w, m + 1)
    OBVIOUS
  <2>1. m + 2 \in 2 .. Len(q) /\ m + 1 \in 1 .. Len(q) /\ (m + 2) - 1 = m + 1
    OBVIOUS
  <2>2. Taken(f[m + 1], q, w, m)
    BY <2>1
  <2> HIDE DEF T
  <2>3. f[m + 2] = f[m + 1] \o q[m + 2] /\ f[m + 1] \in Seq(S)
    BY <1>1, <2>1
  <2>4. Taken(f[m + 1] \o q[m + 2], q, w, m + 1)
    BY <2>2, <2>3, TakeOne
  <2> QED
    BY <2>3, <2>4
<1>4. \A m \in Nat : m \in T
  <2> HIDE DEF T
  <2> QED
    BY <1>2, <1>3, AllNumbers
<1>5. Len(q) - 1 \in Nat /\ (Len(q) - 1) + 1 = Len(q) /\ Len(q) \in 1 .. Len(q)
  OBVIOUS
<1>6. Taken(f[Len(q)], q, w, Len(q) - 1)
  BY <1>4, <1>5
<1> QED
  BY <1>1, <1>5, <1>6 DEF Taken, Strung

-----------------------------------------------------------------------------
(* Lists *)

\* The steps of strlisttotab() and of the strict parsers.
PutOne(t, e, max) ==
  IF ~t.ok \/ (Len(t.tab) >= max /\ (e.range \/ ~isdup(t, e.n))) THEN Gone(t)
  ELSE IF isdup(t, e.n) THEN t ELSE [t EXCEPT !.tab = Append(@, e.n)]

PutStrict(t, n, max, bound) ==
  IF ~t.ok \/ Len(t.tab) >= max \/ n >= bound \/ isdup(t, n) THEN Gone(t)
  ELSE [t EXCEPT !.tab = Append(@, n)]

Put(strict, t, e, max, bound) ==
  IF strict THEN PutStrict(t, e, max, bound) ELSE PutOne(t, e, max)

\* u[n] is the table after n entries of s.
Filling(u, strict, s, max, bound, m) ==
  u = [n \in 0 .. m |-> IF n = 0 THEN Table(<<>>) ELSE Put(strict, u[n - 1], s[n], max, bound)]

LEMMA FillingExists ==
  ASSUME NEW strict, NEW s, NEW max, NEW bound, NEW k \in Nat
  PROVE  \E u : Filling(u, strict, s, max, bound, k)
<1> DEFINE P(t, n) == Put(strict, t, s[n], max, bound)
           Fill(u, m) == u = [n \in 0 .. m |-> IF n = 0 THEN Table(<<>>) ELSE P(u[n - 1], n)]
           T == {m \in Nat : \E u : Fill(u, m)}
<1> HIDE DEF P
<1>1. 0 \in T
  <2> DEFINE none == [n \in 0 .. 0 |-> Table(<<>>)]
  <2>1. none = [n \in 0 .. 0 |-> IF n = 0 THEN Table(<<>>) ELSE P(none[n - 1], n)]
    OBVIOUS
  <2> QED
    BY <2>1
<1>2. \A m \in Nat : m \in T => m + 1 \in T
  <2> SUFFICES ASSUME NEW m \in Nat, m \in T PROVE m + 1 \in T
    OBVIOUS
  <2>1. PICK u : Fill(u, m)
    OBVIOUS
  <2> DEFINE g == [n \in 0 .. (m + 1) |-> IF n = m + 1 THEN P(u[n - 1], n) ELSE u[n]]
  <2>2. ASSUME NEW n \in 0 .. (m + 1)
        PROVE  g[n] = IF n = 0 THEN Table(<<>>) ELSE P(g[n - 1], n)
    <3>1. n # 0 => g[n - 1] = u[n - 1]
      OBVIOUS
    <3>2. n # m + 1 => u[n] = IF n = 0 THEN Table(<<>>) ELSE P(u[n - 1], n)
      <4>1. n # m + 1 => n \in 0 .. m
        OBVIOUS
      <4> QED
        BY <2>1, <4>1
    <3>3. n = m + 1 => n # 0
      OBVIOUS
    <3> QED
      BY <3>1, <3>2, <3>3
  <2>3. g = [n \in 0 .. (m + 1) |-> g[n]]
    OBVIOUS
  <2> HIDE DEF g
  <2>4. Fill(g, m + 1)
    BY <2>2, <2>3
  <2> HIDE DEF Fill
  <2> QED
    BY <2>4
<1> HIDE DEF T
<1>3. k \in T
  BY <1>1, <1>2, AllNumbers
<1> QED
  BY <1>3 DEF T, P, Filling

\* What filling a table keeps: it has only numbers that were named, each once,
\* and unless it gave up it has all of them.
Filled(t, named) ==
  /\ t \in [ok : BOOLEAN, tab : Seq(Nat)]
  /\ \A i, j \in 1 .. Len(t.tab) : t.tab[i] = t.tab[j] => i = j
  /\ ToSet(t.tab) \subseteq named
  /\ t.ok => ToSet(t.tab) = named

LEMMA AppendKeeps ==
  ASSUME NEW t, NEW named, Filled(t, named), NEW n \in Nat, n \notin ToSet(t.tab)
  PROVE  Filled([t EXCEPT !.tab = Append(@, n)], named \cup {n})
<1> DEFINE u == [t EXCEPT !.tab = Append(@, n)]
<1>1. t \in [ok : BOOLEAN, tab : Seq(Nat)] /\ t.tab \in Seq(Nat)
  BY DEF Filled
<1>2. u \in [ok : BOOLEAN, tab : Seq(Nat)] /\ u.ok = t.ok /\ u.tab = Append(t.tab, n)
  BY <1>1
<1> HIDE DEF u
<1>3. ToSet(u.tab) = ToSet(t.tab) \cup {n}
  <2> DEFINE a == t.tab
             b == <<n>>
  <2>1. u.tab = a \o b /\ a \in Seq(Nat) /\ b \in Seq(Nat)
    BY <1>1, <1>2
  <2>2. ToSet(b) = {n}
    BY DEF ToSet
  <2> HIDE DEF a, b
  <2>3. ToSet(a \o b) = ToSet(a) \cup ToSet(b)
    BY <2>1, AppendedSet
  <2> QED
    BY <2>1, <2>2, <2>3 DEF a
<1>4. ASSUME NEW i \in 1 .. Len(u.tab), NEW j \in 1 .. Len(u.tab), u.tab[i] = u.tab[j]
      PROVE  i = j
  <2>1. Len(u.tab) = Len(t.tab) + 1 /\ Len(t.tab) \in Nat
    BY <1>1, <1>2
  <2>2. \A k \in 1 .. Len(t.tab) : u.tab[k] = t.tab[k] /\ t.tab[k] \in ToSet(t.tab)
    BY <1>1, <1>2 DEF ToSet
  <2>3. u.tab[Len(t.tab) + 1] = n
    BY <1>1, <1>2
  <2>4. \A k \in 1 .. Len(u.tab) : k \in 1 .. Len(t.tab) \/ k = Len(t.tab) + 1
    BY <2>1
  <2>5. i \in 1 .. Len(t.tab) /\ j \in 1 .. Len(t.tab) => i = j
    BY <1>4, <2>2 DEF Filled
  <2> QED
    BY <1>4, <2>2, <2>3, <2>4, <2>5
<1> QED
  BY <1>2, <1>3, <1>4 DEF Filled, u

LEMMA GoneKeeps ==
  ASSUME NEW t, NEW named, Filled(t, named), NEW n
  PROVE  Filled(Gone(t), named \cup {n})
  BY DEF Filled, Gone

LEMMA PutOneKeeps ==
  ASSUME NEW t, NEW named, Filled(t, named), NEW e \in [n : Nat, range : BOOLEAN], NEW max
  PROVE  Filled(PutOne(t, e, max), named \cup {e.n})
<1>1. e.n \in Nat
  OBVIOUS
<1>2. CASE PutOne(t, e, max) = Gone(t)
  <2>1. Filled(Gone(t), named \cup {e.n})
    BY GoneKeeps
  <2> QED
    BY <1>2, <2>1
<1>3. CASE PutOne(t, e, max) = t /\ isdup(t, e.n)
  BY <1>3 DEF Filled, isdup
<1>4. CASE PutOne(t, e, max) = [t EXCEPT !.tab = Append(@, e.n)] /\ ~isdup(t, e.n)
  BY <1>1, <1>4, AppendKeeps DEF isdup
<1> QED
  BY <1>2, <1>3, <1>4 DEF PutOne

LEMMA PutStrictKeeps ==
  ASSUME NEW t, NEW named, Filled(t, named), NEW n \in Nat, NEW max, NEW bound
  PROVE  Filled(PutStrict(t, n, max, bound), named \cup {n})
<1>1. CASE PutStrict(t, n, max, bound) = Gone(t)
  BY <1>1, GoneKeeps
<1>2. CASE PutStrict(t, n, max, bound) = [t EXCEPT !.tab = Append(@, n)] /\ ~isdup(t, n)
  BY <1>2, AppendKeeps DEF isdup
<1> QED
  BY <1>1, <1>2 DEF PutStrict

LEMMA StrlistFills ==
  ASSUME NEW list, NEW max, Len(Listed(list)) \in Nat
  PROVE  \E u : /\ Filling(u, FALSE, Listed(list), max, 0, Len(Listed(list)))
                /\ strlisttotab(list, max) = u[Len(Listed(list))]
<1> DEFINE s == Listed(list)
           full(t, e) == Len(t.tab) >= max /\ (e.range \/ ~isdup(t, e.n))
           put(t, e) == IF ~t.ok \/ full(t, e) THEN Gone(t)
                        ELSE IF isdup(t, e.n) THEN t ELSE [t EXCEPT !.tab = Append(@, e.n)]
           Raw(f) == f = [n \in 0 .. Len(s) |->
                            IF n = 0 THEN Table(<<>>)
                            ELSE CHOOSE y \in {put(v, s[n]) : v \in {f[n - 1]}} : TRUE]
           u == CHOOSE f : Raw(f)
<1>1. strlisttotab(list, max) = u[Len(s)]
  BY DEF strlisttotab, Gather, Once
<1>2. \A f, n : (CHOOSE y \in {put(v, s[n]) : v \in {f[n - 1]}} : TRUE) = Put(FALSE, f[n - 1], s[n], max, 0)
  <2>1. \A t, e : put(t, e) = Put(FALSE, t, e, max, 0)
    BY DEF Put, PutOne
  <2> HIDE DEF put
  <2>2. \A f, n : {put(v, s[n]) : v \in {f[n - 1]}} = {put(f[n - 1], s[n])}
    OBVIOUS
  <2> QED
    BY <2>1, <2>2
<1>3. \A f : Raw(f) <=> Filling(f, FALSE, s, max, 0, Len(s))
  <2> HIDE DEF put, s
  <2> QED
    BY <1>2 DEF Filling
<1>4. PICK g : Filling(g, FALSE, s, max, 0, Len(s))
  BY FillingExists
<1> HIDE DEF Raw, s
<1>5. Raw(u)
  BY <1>3, <1>4
<1> HIDE DEF u
<1>6. Filling(u, FALSE, s, max, 0, Len(s))
  BY <1>3, <1>5
<1> QED
  BY <1>1, <1>6 DEF s

\* The number that an entry of a list puts into the table.
NumberOf(strict, e) == IF strict THEN e ELSE e.n
Entry(strict) == IF strict THEN Nat ELSE [n : Nat, range : BOOLEAN]

LEMMA PutKeeps ==
  ASSUME NEW strict \in BOOLEAN, NEW t, NEW named, Filled(t, named), NEW e \in Entry(strict),
         NEW max, NEW bound
  PROVE  Filled(Put(strict, t, e, max, bound), named \cup {NumberOf(strict, e)})
<1>1. CASE strict
  <2>1. e \in Nat /\ Put(strict, t, e, max, bound) = PutStrict(t, e, max, bound) /\ NumberOf(strict, e) = e
    BY <1>1 DEF Put, Entry, NumberOf
  <2>2. Filled(PutStrict(t, e, max, bound), named \cup {e})
    BY <2>1, PutStrictKeeps
  <2> QED
    BY <2>1, <2>2
<1>2. CASE ~strict
  <2>1. /\ e \in [n : Nat, range : BOOLEAN] /\ NumberOf(strict, e) = e.n
        /\ Put(strict, t, e, max, bound) = PutOne(t, e, max)
    BY <1>2 DEF Put, Entry, NumberOf
  <2>2. Filled(PutOne(t, e, max), named \cup {e.n})
    BY <2>1, PutOneKeeps
  <2> QED
    BY <2>1, <2>2
<1> QED
  BY <1>1, <1>2

\* The numbers of the first m entries.
NumbersOf(strict, s, m) == {NumberOf(strict, s[i]) : i \in 1 .. m}

LEMMA FillingKeeps ==
  ASSUME NEW strict \in BOOLEAN, NEW s, NEW max, NEW bound, NEW k \in Nat,
         NEW u, Filling(u, strict, s, max, bound, k), \A i \in 1 .. k : s[i] \in Entry(strict)
  PROVE  Filled(u[k], NumbersOf(strict, s, k))
<1> DEFINE Named(m) == NumbersOf(strict, s, m)
           T == {m \in Nat : m <= k => Filled(u[m], Named(m))}
<1>1. 0 \in T
  <2>1. u[0] = Table(<<>>)
    BY DEF Filling
  <2>2. Named(0) = {}
    BY DEF NumbersOf
  <2>3. Filled(Table(<<>>), {})
    BY DEF Filled, Table, ToSet
  <2> HIDE DEF Named
  <2> QED
    BY <2>1, <2>2, <2>3
<1>2. \A m \in Nat : m \in T => m + 1 \in T
  <2> SUFFICES ASSUME NEW m \in Nat, m \in T, m + 1 <= k
               PROVE  Filled(u[m + 1], Named(m + 1))
    OBVIOUS
  <2>1. Filled(u[m], Named(m))
    OBVIOUS
  <2>2. m + 1 \in 0 .. k /\ m + 1 \in 1 .. k /\ m + 1 # 0 /\ (m + 1) - 1 = m
    OBVIOUS
  <2> DEFINE e == s[m + 1]
  <2>3. u[m + 1] = Put(strict, u[m], e, max, bound)
    BY <2>2 DEF Filling
  <2>4. e \in Entry(strict)
    BY <2>2
  <2>5. Named(m + 1) = Named(m) \cup {NumberOf(strict, e)}
    <3>1. \A i : i \in 1 .. (m + 1) <=> i \in 1 .. m \/ i = m + 1
      OBVIOUS
    <3> QED
      BY <3>1 DEF NumbersOf
  <2> HIDE DEF Named, e
  <2>6. Filled(Put(strict, u[m], e, max, bound), Named(m) \cup {NumberOf(strict, e)})
    BY <2>1, <2>4, PutKeeps
  <2> QED
    BY <2>3, <2>5, <2>6
<1> HIDE DEF T
<1>3. k \in T
  BY <1>1, <1>2, AllNumbers
<1> QED
  BY <1>3 DEF T

LEMMA TwoBounds ==
  ASSUME NEW a \in Nat, NEW b \in Nat
  PROVE  /\ Min({a, b}) = IF a <= b THEN a ELSE b
         /\ Max({a, b}) = IF a <= b THEN b ELSE a
<1>1. \A m \in {a, b} : (\A y \in {a, b} : m <= y) <=> m = IF a <= b THEN a ELSE b
  OBVIOUS
<1>2. \A m \in {a, b} : (\A y \in {a, b} : y <= m) <=> m = IF a <= b THEN b ELSE a
  OBVIOUS
<1>3. Min({a, b}) = CHOOSE m \in {a, b} : m = IF a <= b THEN a ELSE b
  BY <1>1 DEF Min
<1>4. Max({a, b}) = CHOOSE m \in {a, b} : m = IF a <= b THEN b ELSE a
  BY <1>2 DEF Max
<1> QED
  BY <1>3, <1>4

LEMMA UpwardsIs ==
  ASSUME NEW tok \in Token
  PROVE  Upwards(tok) \in Seq(Nat)
<1>1. tok.from \in Nat /\ tok.to \in Nat
  BY DEF Token
<1>2. PICK low \in Nat, high \in Nat : low = Min({tok.from, tok.to}) /\ high = Max({tok.from, tok.to})
                                       /\ low <= high
  BY <1>1, TwoBounds
<1> DEFINE s == [i \in 1 .. (high - low + 1) |-> low + i - 1]
<1>3. Upwards(tok) = s
  BY <1>2 DEF Upwards
<1>4. s \in Seq(Nat)
  OBVIOUS
<1> QED
  BY <1>3, <1>4

\* The numbers that a list names.
NamedBy(list) == UNION {ToSet(Upwards(list[n])) : n \in DOMAIN list}

LEMMA ListedIs ==
  ASSUME NEW list \in Seq(Token)
  PROVE  /\ Listed(list) \in Seq([n : Nat, range : BOOLEAN])
         /\ {Listed(list)[i].n : i \in 1 .. Len(Listed(list))} = NamedBy(list)
<1> DEFINE E == [n : Nat, range : BOOLEAN]
           row(i) == [j \in 1 .. Len(Upwards(list[i])) |->
                        [n |-> Upwards(list[i])[j], range |-> list[i].range]]
           q == [i \in 1 .. Len(list) |-> row(i)]
<1>1. \A i \in 1 .. Len(list) : Upwards(list[i]) \in Seq(Nat) /\ list[i].range \in BOOLEAN
  <2>1. \A i \in 1 .. Len(list) : list[i] \in Token
    OBVIOUS
  <2>2. \A tok \in Token : tok.range \in BOOLEAN
    BY DEF Token
  <2> QED
    BY <2>1, <2>2, UpwardsIs
<1>2. ASSUME NEW i \in 1 .. Len(list)
      PROVE  row(i) \in Seq(E) /\ Len(row(i)) = Len(Upwards(list[i]))
  BY <1>1
<1>3. q \in Seq(Seq(E)) /\ Len(q) = Len(list)
  <2> HIDE DEF row, E
  <2> QED
    BY <1>2
<1>4. Listed(list) = FlattenSeq(q)
  BY DEF Listed
<1>5. Listed(list) \in Seq(E)
  <2> HIDE DEF q, E
  <2> QED
    BY <1>3, <1>4, FlattenType
<1>6. ToSet(Listed(list)) = Within(q)
  <2> HIDE DEF q, E
  <2> QED
    BY <1>3, <1>4, FlattenHolds
<1>7. ASSUME NEW x
      PROVE  x \in {Listed(list)[i].n : i \in 1 .. Len(Listed(list))} <=> \E e \in ToSet(Listed(list)) : x = e.n
  <2>1. Len(Listed(list)) \in Nat /\ DOMAIN Listed(list) = 1 .. Len(Listed(list))
    BY <1>5
  <2> QED
    BY <2>1 DEF ToSet
<1>8. ASSUME NEW x
      PROVE  (\E e \in Within(q) : x = e.n) <=> x \in NamedBy(list)
  <2>1. (\E e \in Within(q) : x = e.n) <=> \E i \in 1 .. Len(list) : \E e \in ToSet(row(i)) : x = e.n
    <3> HIDE DEF row
    <3> QED
      BY <1>3 DEF Within
  <2>2. ASSUME NEW i \in 1 .. Len(list)
        PROVE  (\E e \in ToSet(row(i)) : x = e.n) <=> x \in ToSet(Upwards(list[i]))
    <3>1. \A j \in 1 .. Len(Upwards(list[i])) : row(i)[j].n = Upwards(list[i])[j]
      OBVIOUS
    <3>2. /\ ToSet(row(i)) = {row(i)[j] : j \in 1 .. Len(Upwards(list[i]))}
          /\ ToSet(Upwards(list[i])) = {Upwards(list[i])[j] : j \in 1 .. Len(Upwards(list[i]))}
      <4>1. DOMAIN row(i) = 1 .. Len(Upwards(list[i]))
        OBVIOUS
      <4>2. DOMAIN Upwards(list[i]) = 1 .. Len(Upwards(list[i]))
        BY <1>1
      <4> HIDE DEF row
      <4> QED
        BY <4>1, <4>2 DEF ToSet
    <3> HIDE DEF row
    <3> QED
      BY <3>1, <3>2
  <2>3. x \in NamedBy(list) <=> \E i \in 1 .. Len(list) : x \in ToSet(Upwards(list[i]))
    <3>1. DOMAIN list = 1 .. Len(list)
      OBVIOUS
    <3> QED
      BY <3>1 DEF NamedBy
  <2> QED
    BY <2>1, <2>2, <2>3
<1> HIDE DEF q, E
<1> QED
  BY <1>5, <1>6, <1>7, <1>8 DEF E

\* strlisttotab() gives the numbers of its list, each once, unless it gives up.
LEMMA StrlistExact ==
  ASSUME NEW list \in Seq(Token), NEW max
  PROVE  Filled(strlisttotab(list, max), NamedBy(list))
<1> DEFINE s == Listed(list)
<1>1. s \in Seq([n : Nat, range : BOOLEAN]) /\ {s[i].n : i \in 1 .. Len(s)} = NamedBy(list)
  BY ListedIs
<1>2. Len(s) \in Nat /\ \A i \in 1 .. Len(s) : s[i] \in [n : Nat, range : BOOLEAN]
  BY <1>1, Elements
<1>3. PICK u : Filling(u, FALSE, s, max, 0, Len(s)) /\ strlisttotab(list, max) = u[Len(s)]
  BY <1>2, StrlistFills
<1> HIDE DEF s
<1>4. \A i \in 1 .. Len(s) : s[i] \in Entry(FALSE)
  BY <1>2 DEF Entry
<1>5. Filled(u[Len(s)], NumbersOf(FALSE, s, Len(s)))
  BY <1>2, <1>3, <1>4, FillingKeeps
<1>6. NumbersOf(FALSE, s, Len(s)) = {s[i].n : i \in 1 .. Len(s)}
  BY DEF NumbersOf, NumberOf
<1> QED
  BY <1>1, <1>3, <1>5, <1>6

\* What an option list gives: its numbers, and none only when it was not given.
LEMMA ParsedIs ==
  ASSUME NEW list \in Seq(Token), NEW max, NEW bound
  PROVE  /\ Filled(Parsed(list, max, bound), NamedBy(list))
         /\ Parsed(list, max, bound).ok => (Parsed(list, max, bound).tab = <<>> <=> list = <<>>)
<1>1. CASE list = <<>>
  <2>1. NamedBy(list) = {}
    BY <1>1 DEF NamedBy
  <2>2. Filled(Table(<<>>), {}) /\ Table(<<>>).tab = <<>>
    BY DEF Filled, Table, ToSet
  <2>3. Parsed(list, max, bound) = Table(<<>>)
    BY <1>1 DEF Parsed
  <2> QED
    BY <1>1, <2>1, <2>2, <2>3
<1>2. CASE list # <<>>
  <2> DEFINE t == strlisttotab(list, max)
  <2>1. Filled(t, NamedBy(list))
    BY StrlistExact
  <2> HIDE DEF t
  <2>2. Filled(Gone(t), NamedBy(list)) /\ ~Gone(t).ok
    BY <2>1 DEF Filled, Gone
  <2>3. \/ Parsed(list, max, bound) = t /\ t.tab # <<>>
        \/ Parsed(list, max, bound) = Gone(t)
    BY <1>2 DEF Parsed, NumberList, t
  <2> QED
    BY <1>2, <2>1, <2>2, <2>3
<1> QED
  BY <1>1, <1>2

LEMMA GoneTable ==
  ASSUME NEW x \in Seq(Nat)
  PROVE  Gone(Table(x)) \in [ok : BOOLEAN, tab : Seq(Nat)]
  BY DEF Gone, Table

\* The list of memory regions is a table of numbers.
LEMMA RegionsParsed ==
  ASSUME NEW list \in Seq(Token), NEW max
  PROVE  pqos_parse_mem_regions(list, max) \in [ok : BOOLEAN, tab : Seq(Nat)]
<1> DEFINE q == [i \in 1 .. Len(list) |-> Upwards(list[i])]
           s == FlattenSeq(q)
           put(t, n) == IF ~t.ok \/ Len(t.tab) >= max \/ n >= max \/ isdup(t, n) THEN Gone(t)
                        ELSE [t EXCEPT !.tab = Append(@, n)]
           Raw(f) == f = [n \in 0 .. Len(s) |->
                            IF n = 0 THEN Table(<<>>)
                            ELSE CHOOSE y \in {put(v, s[n]) : v \in {f[n - 1]}} : TRUE]
           u == CHOOSE f : Raw(f)
           r == u[Len(s)]
<1>1. pqos_parse_mem_regions(list, max)
        = IF \E i \in DOMAIN list : list[i].from > list[i].to THEN Gone(Table(<<>>))
          ELSE IF r.tab = <<>> THEN Gone(r) ELSE r
  BY DEF pqos_parse_mem_regions, Strict, Gather, Once
<1>2. q \in Seq(Seq(Nat))
  <2>1. \A i \in 1 .. Len(list) : Upwards(list[i]) \in Seq(Nat)
    <3>1. \A i \in 1 .. Len(list) : list[i] \in Token
      BY Elements
    <3> QED
      BY <3>1, UpwardsIs
  <2> QED
    BY <2>1
<1>3. s \in Seq(Nat)
  <2> HIDE DEF q
  <2> QED
    BY <1>2, FlattenType
<1>4. \A f, n : (CHOOSE y \in {put(v, s[n]) : v \in {f[n - 1]}} : TRUE) = Put(TRUE, f[n - 1], s[n], max, max)
  <2>1. \A t, e : put(t, e) = Put(TRUE, t, e, max, max)
    BY DEF Put, PutStrict
  <2> HIDE DEF put, s
  <2>2. \A f, n : {put(v, s[n]) : v \in {f[n - 1]}} = {put(f[n - 1], s[n])}
    OBVIOUS
  <2> QED
    BY <2>1, <2>2
<1> HIDE DEF put, s
<1>5. \A f : Raw(f) <=> Filling(f, TRUE, s, max, max, Len(s))
  BY <1>4 DEF Filling
<1>6. Len(s) \in Nat /\ \A i \in 1 .. Len(s) : s[i] \in Entry(TRUE)
  BY <1>3, Elements DEF Entry
<1>7. PICK g : Filling(g, TRUE, s, max, max, Len(s))
  BY <1>6, FillingExists
<1> HIDE DEF Raw
<1>8. Raw(u)
  BY <1>5, <1>7
<1> HIDE DEF u
<1>9. Filled(u[Len(s)], NumbersOf(TRUE, s, Len(s)))
  <2>1. Filling(u, TRUE, s, max, max, Len(s))
    BY <1>5, <1>8
  <2> QED
    BY <1>6, <2>1, FillingKeeps
<1>10. r \in [ok : BOOLEAN, tab : Seq(Nat)]
  BY <1>9 DEF Filled
<1> HIDE DEF r
<1>11. Gone(r) \in [ok : BOOLEAN, tab : Seq(Nat)]
  BY <1>10 DEF Gone
<1>12. Gone(Table(<<>>)) \in [ok : BOOLEAN, tab : Seq(Nat)]
  <2>1. <<>> \in Seq(Nat)
    OBVIOUS
  <2> QED
    BY <2>1, GoneTable
<1> QED
  BY <1>1, <1>10, <1>11, <1>12

-----------------------------------------------------------------------------
(* Loops that an error ends *)

\* What such a loop has shown comes from its elements, and it has gone through
\* all of them when it returns OK.
LEMMA UntilErrorIs ==
  ASSUME NEW S, NEW s, Len(s) \in Nat, DOMAIN s = 1 .. Len(s),
         \A i \in 1 .. Len(s) : s[i].shown \in Seq(S)
  PROVE  /\ UntilError(s).shown \in Seq(S)
         /\ \A x \in ToSet(UntilError(s).shown) : \E i \in 1 .. Len(s) : x \in ToSet(s[i].shown)
         /\ UntilError(s).ret = "ok" =>
              /\ \A i \in 1 .. Len(s) : s[i].ret = "ok"
              /\ UntilError(s).shown = FlattenSeq([i \in 1 .. Len(s) |-> s[i].shown])
<1> DEFINE bad == {i \in DOMAIN s : s[i].ret # "ok"}
           n == IF bad = {} THEN Len(s) ELSE Min(bad)
           q == [i \in 1 .. n |-> s[i].shown]
<1>1. bad = {} \/ Min(bad) \in bad
  <2>1. SUFFICES ASSUME bad # {} PROVE Min(bad) \in bad
    OBVIOUS
  <2>2. bad \in SUBSET Nat
    OBVIOUS
  <2> HIDE DEF bad
  <2>3. \E m \in bad : \A y \in bad : m <= y
    BY <2>1, <2>2, LeastNumber
  <2> QED
    BY <2>3 DEF Min
<1>2. n \in 0 .. Len(s)
  BY <1>1
<1>3. UntilError(s) = Out(IF bad = {} THEN "ok" ELSE s[n].ret, FlattenSeq(q))
  BY DEF UntilError
<1>4. q \in Seq(Seq(S)) /\ Len(q) = n
  <2> HIDE DEF n
  <2> QED
    BY <1>2
<1>5. UntilError(s).shown \in Seq(S)
  <2> HIDE DEF q, bad, n
  <2> QED
    BY <1>3, <1>4, FlattenType DEF Out
<1>6. ASSUME NEW x \in ToSet(UntilError(s).shown)
      PROVE  \E i \in 1 .. Len(s) : x \in ToSet(s[i].shown)
  <2>1. x \in Within(q)
    <3> HIDE DEF q, bad, n
    <3> QED
      BY <1>3, <1>4, <1>6, FlattenHolds DEF Out
  <2>2. PICK i \in 1 .. n : x \in ToSet(s[i].shown)
    <3> HIDE DEF n
    <3> QED
      BY <1>4, <2>1 DEF Within
  <2> QED
    BY <1>2, <2>2
<1>7. UntilError(s).ret = "ok" => bad = {}
  <2>1. SUFFICES ASSUME bad # {} PROVE s[n].ret # "ok"
    BY <1>3 DEF Out
  <2>2. n \in bad
    BY <1>1, <2>1
  <2> QED
    BY <2>2
<1>8. ASSUME UntilError(s).ret = "ok"
      PROVE  /\ \A i \in 1 .. Len(s) : s[i].ret = "ok"
             /\ UntilError(s).shown = FlattenSeq([i \in 1 .. Len(s) |-> s[i].shown])
  <2>1. bad = {}
    BY <1>7, <1>8
  <2>2. n = Len(s)
    BY <2>1
  <2>3. UntilError(s).shown = FlattenSeq(q)
    BY <1>3 DEF Out
  <2> HIDE DEF n
  <2> QED
    BY <2>1, <2>2, <2>3
<1> QED
  BY <1>5, <1>6, <1>8

-----------------------------------------------------------------------------
(* Counters *)

\* An agent is found by its domain.
LEMMA FirstIs ==
  ASSUME NEW agents, Len(agents) \in Nat, NEW domain
  PROVE  /\ First(agents, domain) \in 0 .. Len(agents)
         /\ First(agents, domain) # 0 => agents[First(agents, domain)].domain = domain
         /\ \A i \in 1 .. Len(agents) : agents[i].domain = domain => First(agents, domain) # 0
<1> DEFINE I == {i \in 1 .. Len(agents) : agents[i].domain = domain}
<1>1. First(agents, domain) = IF I # {} THEN Min(I) ELSE 0
  BY DEF First, SelectInSeq
<1>2. I # {} => Min(I) \in I
  <2>1. SUFFICES ASSUME I # {} PROVE Min(I) \in I
    OBVIOUS
  <2>2. I \in SUBSET Nat
    OBVIOUS
  <2> HIDE DEF I
  <2>3. \E m \in I : \A y \in I : m <= y
    BY <2>1, <2>2, LeastNumber
  <2> QED
    BY <2>3 DEF Min
<1>3. I # {} => First(agents, domain) \in I
  BY <1>1, <1>2
<1>4. I = {} => First(agents, domain) = 0
  BY <1>1
<1> QED
  BY <1>3, <1>4

\* Addresses in different strides differ.
LEMMA Apart ==
  ASSUME NEW stride \in Nat, NEW q \in Nat, NEW r \in Nat, NEW d \in Nat, NEW e \in Nat,
         d < stride, e < stride, q * stride + d = r * stride + e
  PROVE  q = r /\ d = e
<1>1. ASSUME NEW a \in Nat, NEW b \in Nat, NEW x \in Nat, NEW y \in Nat,
             y < stride, a < b, a * stride + y = b * stride + x
      PROVE  FALSE
  <2>1. PICK k \in Nat : b = a + 1 + k
    <3>1. b - a - 1 \in Nat /\ b = a + 1 + (b - a - 1)
      BY <1>1
    <3> QED
      BY <3>1
  <2>2. (a + 1 + k) * stride = a * stride + stride + k * stride
    OBVIOUS
  <2>3. a * stride \in Nat /\ k * stride \in Nat
    OBVIOUS
  <2> DEFINE m == a * stride
             n == k * stride
  <2>4. m + y = m + stride + n + x /\ m \in Nat /\ n \in Nat
    BY <1>1, <2>1, <2>2, <2>3
  <2> HIDE DEF m, n
  <2> QED
    BY <1>1, <2>4
<1>2. ~(q < r) /\ ~(r < q)
  BY <1>1
<1>3. q = r
  BY <1>2
<1>4. q * stride \in Nat
  OBVIOUS
<1> DEFINE m == q * stride
<1>5. m \in Nat /\ m + d = m + e
  BY <1>3, <1>4
<1> HIDE DEF m
<1> QED
  BY <1>3, <1>5

\* The remainder and the quotient of an RMID.
LEMMA Divided ==
  ASSUME NEW r \in Nat, NEW clump \in Nat \ {0}
  PROVE  /\ r \div clump \in Nat /\ r % clump \in 0 .. (clump - 1)
         /\ r = (r \div clump) * clump + (r % clump)
  OBVIOUS

\* Where a copy reads an RMID.
CopiedAt(r, clump, stride, offset) == (r \div clump) * stride + offset + (r % clump) * 8

OneIsCopied(r, clump, stride, offset, size) ==
  copy_generic_rmid_range(r, r, clump, stride, offset, size).ret = "ok"

\* A copy of one RMID reads one register.
LEMMA OneCopied ==
  ASSUME NEW r \in Nat, NEW clump \in Nat, NEW stride \in Nat, NEW offset \in Nat, NEW size \in Nat,
         OneIsCopied(r, clump, stride, offset, size)
  PROVE  /\ clump # 0
         /\ copy_generic_rmid_range(r, r, clump, stride, offset, size).at
              = <<CopiedAt(r, clump, stride, offset)>>
<1> DEFINE Piece(q) ==
             LET from == Max({r, q * clump})
                 to == Min({r, q * clump + clump - 1})
             IN [i \in 1 .. (to - from + 1) |->
                   q * stride + offset + ((from % clump) + i - 1) * RDT_REG_SIZE]
           fits(p) == Last(p) + RDT_REG_SIZE <= size
           pieces == [n \in 1 .. ((r \div clump) - (r \div clump) + 1) |->
                        Piece((r \div clump) + n - 1)]
           out == {n \in DOMAIN pieces : ~fits(pieces[n])}
           copy == copy_generic_rmid_range(r, r, clump, stride, offset, size)
           v == (r \div clump) * stride + offset + (r % clump) * RDT_REG_SIZE
<1>1. copy = IF clump = 0 \/ stride = 0 \/ size = 0 \/ r > r THEN Copy("param", <<>>)
             ELSE IF out = {} THEN Copy("ok", FlattenSeq(pieces))
             ELSE Copy("param", FlattenSeq(SubSeq(pieces, 1, Min(out) - 1)))
  BY DEF copy_generic_rmid_range
<1>2. clump # 0 /\ copy.at = FlattenSeq(pieces)
  <2> HIDE DEF pieces, out
  <2> QED
    BY <1>1 DEF Copy, OneIsCopied
<1>3. r \div clump \in Nat /\ r % clump \in Nat /\ r = (r \div clump) * clump + (r % clump) /\ r % clump < clump
      /\ (r \div clump) * clump \in Nat
  <2>1. clump \in Nat \ {0}
    BY <1>2
  <2>2. /\ r \div clump \in Nat /\ r % clump \in 0 .. (clump - 1)
        /\ r = (r \div clump) * clump + (r % clump)
    BY <2>1, Divided
  <2>3. \A q \in Nat : q * clump \in Nat
    OBVIOUS
  <2> HIDE DEF pieces
  <2> QED
    BY <2>1, <2>2, <2>3
<1>4. Piece(r \div clump) = <<v>>
  <2> DEFINE m == (r \div clump) * clump
  <2>1. m \in Nat /\ m <= r /\ r <= m + clump - 1 /\ m + clump - 1 \in Nat
    <3>1. m \in Nat /\ r = m + (r % clump)
      BY <1>3
    <3> HIDE DEF m
    <3> QED
      BY <1>3, <3>1
  <2>2. Max({r, m}) = r /\ Min({r, m + clump - 1}) = r
    <3> DEFINE k == m + clump - 1
    <3>1. m \in Nat /\ m <= r /\ r <= k /\ k \in Nat
      BY <2>1
    <3> HIDE DEF m, k
    <3>2. Max({r, m}) = IF r <= m THEN m ELSE r
      BY <3>1, TwoBounds
    <3>3. Min({r, k}) = IF r <= k THEN r ELSE k
      BY <3>1, TwoBounds
    <3>4. Max({r, m}) = r /\ Min({r, k}) = r
      BY <3>1, <3>2, <3>3
    <3> QED
      BY <3>4 DEF k
  <2>3. Piece(r \div clump) = [i \in 1 .. (r - r + 1) |->
                                 (r \div clump) * stride + offset + ((r % clump) + i - 1) * RDT_REG_SIZE]
    BY <2>2
  <2>4. r - r + 1 = 1 /\ (r % clump) + 1 - 1 = r % clump
    BY <1>3
  <2> DEFINE w(i) == (r \div clump) * stride + offset + ((r % clump) + i - 1) * RDT_REG_SIZE
  <2>5. w(1) = v
    BY <2>4
  <2>6. Piece(r \div clump) = [i \in 1 .. 1 |-> w(i)]
    BY <2>3, <2>4
  <2> HIDE DEF w, v, Piece
  <2>7. [i \in 1 .. 1 |-> w(i)] = <<w(1)>>
    OBVIOUS
  <2> QED
    BY <2>5, <2>6, <2>7
<1>5. pieces = <<<<v>>>>
  <2>1. (r \div clump) - (r \div clump) + 1 = 1 /\ (r \div clump) + 1 - 1 = r \div clump
    BY <1>3
  <2> DEFINE w(n) == Piece((r \div clump) + n - 1)
  <2>2. w(1) = <<v>>
    BY <1>4, <2>1
  <2>3. pieces = [n \in 1 .. 1 |-> w(n)]
    BY <2>1
  <2> HIDE DEF w, v, Piece, pieces
  <2>4. [n \in 1 .. 1 |-> w(n)] = <<w(1)>>
    OBVIOUS
  <2> QED
    BY <2>2, <2>3, <2>4
<1>6. FlattenSeq(<<<<v>>>>) = <<v>>
  <2> DEFINE V == {v}
             p == <<v>>
  <2>1. p \in Seq(V)
    OBVIOUS
  <2> HIDE DEF V, p, v
  <2>2. FlattenSeq(<<p>>) = p
    BY <2>1, FlattenOne
  <2> QED
    BY <2>2 DEF p
<1>7. v = CopiedAt(r, clump, stride, offset)
  BY DEF CopiedAt, RDT_REG_SIZE
<1> HIDE DEF pieces, v
<1> QED
  BY <1>2, <1>5, <1>6, <1>7

LEMMA CpuAgentIs ==
  ASSUME NEW i \in DOMAIN CpuAgents
  PROVE  /\ CpuAgents[i].domain \in Nat /\ CpuAgents[i].cmrc \in Nat /\ CpuAgents[i].mmrc \in Nat
         /\ CpuAgents[i].marc \in Nat /\ CpuAgents[i].clump \in Nat /\ CpuAgents[i].stride \in Nat
         /\ CpuAgents[i].factors \in Nat
         /\ CpuAgents[i].factors \in {0, 1, MaxRmids + 1}
         /\ CpuAgents[i].stride >= CpuAgents[i].clump * RDT_REG_SIZE
         /\ CpuAgents[i].socket = (i - 1) \div CpuPerSocket
<1>1. CpuAgents[i] \in CpuAgent
  BY AgentsAssumption
<1> QED
  BY <1>1, AgentsAssumption DEF CpuAgent

\* Two RMIDs that are read from the same register.
CopiedTogether(r, s, clump, stride, offset) ==
  CopiedAt(r, clump, stride, offset) = CopiedAt(s, clump, stride, offset)
Dealt(clump, stride) == clump # 0 /\ clump * 8 <= stride

\* RMIDs are read from different registers when their clumps do not overlap.
LEMMA ClumpsApart ==
  ASSUME NEW clump \in Nat, NEW stride \in Nat, Dealt(clump, stride), NEW offset \in Nat,
         NEW r \in Nat, NEW s \in Nat, CopiedTogether(r, s, clump, stride, offset)
  PROVE  r = s
<1> DEFINE q == r \div clump
           p == s \div clump
           d == r % clump
           e == s % clump
<1>1. clump \in Nat \ {0} /\ clump * 8 <= stride
  BY DEF Dealt
<1>2. /\ q \in Nat /\ d \in 0 .. (clump - 1) /\ r = q * clump + d
      /\ p \in Nat /\ e \in 0 .. (clump - 1) /\ s = p * clump + e
  BY <1>1, Divided
<1>3. q * stride + offset + d * 8 = p * stride + offset + e * 8
  BY DEF CopiedAt, CopiedTogether
<1> HIDE DEF q, p, d, e
<1>4. d * 8 \in Nat /\ e * 8 \in Nat /\ d * 8 < stride /\ e * 8 < stride
  BY <1>1, <1>2
<1>5. q * stride \in Nat /\ p * stride \in Nat
  BY <1>2
<1>6. q * stride + d * 8 = p * stride + e * 8
  <2> DEFINE x == q * stride
             y == p * stride
  <2>1. x + offset + d * 8 = y + offset + e * 8 /\ x \in Nat /\ y \in Nat
    BY <1>3, <1>5
  <2> HIDE DEF x, y
  <2>2. x + d * 8 = y + e * 8
    BY <1>2, <2>1
  <2> QED
    BY <2>2 DEF x, y
<1> DEFINE m == d * 8
           n == e * 8
<1>7. m \in Nat /\ n \in Nat /\ m < stride /\ n < stride /\ q * stride + m = p * stride + n
  BY <1>4, <1>6
<1> HIDE DEF m, n
<1>8. q = p /\ m = n
  BY <1>2, <1>7, Apart
<1>9. d = e
  BY <1>2, <1>8 DEF m, n
<1> QED
  BY <1>2, <1>8, <1>9

\* The RMIDs that the four quarters of the bandwidth registers hold.
AllRmids == 0 .. 1023

\* Where an RMID of a region is: in which quarter, and where in it.
MbmPlace(n, k, a, b, c) ==
  k = 32 * b + 8 * a + c /\ mbm_offset(n, k) = 16384 * a + 64 * b + 8 * c + 2048 * n

LEMMA MbmPlaced ==
  ASSUME NEW k \in AllRmids, NEW n \in 0 .. 3
  PROVE  \E a \in 0 .. 3, b \in 0 .. 31, c \in 0 .. 7 : MbmPlace(n, k, a, b, c)
<1> DEFINE x == (k % 32) \div 8
           y == k \div 32
           z == k % 8
<1>1. x \in 0 .. 3 /\ y \in 0 .. 31 /\ z \in 0 .. 7 /\ k = 32 * y + 8 * x + z
  BY DEF AllRmids
<1>2. mbm_offset(n, k) = (x * 4 * 4096) + ((y * 8 + z) * 8) + n * 2048
  BY DEF mbm_offset, PAGE_SIZE, RDT_REG_SIZE, MBM_REGION_SIZE
<1> HIDE DEF x, y, z
<1>3. mbm_offset(n, k) = 16384 * x + 64 * y + 8 * z + 2048 * n
  BY <1>1, <1>2
<1>4. MbmPlace(n, k, x, y, z)
  BY <1>1, <1>3 DEF MbmPlace
<1> QED
  BY <1>1, <1>4

MbmTogether(g, r, h, s) == mbm_offset(g, r) = mbm_offset(h, s)

\* The bandwidth counters of RMIDs and regions do not overlap.
LEMMA MbmApart ==
  ASSUME NEW r \in AllRmids, NEW s \in AllRmids, NEW g \in 0 .. 3, NEW h \in 0 .. 3,
         MbmTogether(g, r, h, s)
  PROVE  r = s /\ g = h
<1>1. PICK a \in 0 .. 3, b \in 0 .. 31, c \in 0 .. 7 : MbmPlace(g, r, a, b, c)
  BY MbmPlaced
<1>2. PICK x \in 0 .. 3, y \in 0 .. 31, z \in 0 .. 7 : MbmPlace(h, s, x, y, z)
  BY MbmPlaced
<1>3. /\ r = 32 * b + 8 * a + c /\ mbm_offset(g, r) = 16384 * a + 64 * b + 8 * c + 2048 * g
      /\ s = 32 * y + 8 * x + z /\ mbm_offset(h, s) = 16384 * x + 64 * y + 8 * z + 2048 * h
  BY <1>1, <1>2 DEF MbmPlace
<1>4. 16384 * a + 64 * b + 8 * c + 2048 * g = 16384 * x + 64 * y + 8 * z + 2048 * h
  BY <1>3 DEF MbmTogether
<1>5. a = x
  BY <1>4
<1>6. g = h
  BY <1>4, <1>5
<1>7. b = y
  BY <1>4, <1>5, <1>6
<1>8. c = z
  BY <1>4, <1>5, <1>6, <1>7
<1> QED
  BY <1>3, <1>5, <1>6, <1>7, <1>8

\* The kinds of counters that are dumped.
CounterTypes == {"l3", "mbm", "io-l3", "io-total", "io-miss"}
AgentsOf(type) == IF type \in {"l3", "mbm"} THEN CpuAgents ELSE DevAgents

\* A counter that is shown, and two that are read from the same register.
Counted(a, type, n, k) == Counter(a, type, n, k).ret = "ok"
CountedTogether(a, type, g, r, h, s) == Counter(a, type, g, r).at = Counter(a, type, h, s).at

LEMMA MbmCounted ==
  ASSUME NEW a, NEW n \in Nat, NEW k \in AllRmids, Counted(a, "mbm", n, k)
  PROVE  n \in 0 .. 3 /\ Counter(a, "mbm", n, k).at[1] = mbm_offset(n, k)
<1> DEFINE at == mbm_offset(n, k)
           c == get_l3_mbm_region_rmid_range_v1(a, n, k, k)
<1>1. Counter(a, "mbm", n, k) = c
  BY DEF Counter
<1>2. at \in Nat /\ k - k + 1 = 1 /\ ~(k > k)
  BY DEF AllRmids, mbm_offset, PAGE_SIZE, RDT_REG_SIZE, MBM_REGION_SIZE
<1>3. c = CASE a.mmrc = 0 \/ k > k -> Copy("param", <<>>)
            [] n < 0 \/ n >= PQOS_MAX_MEM_REGIONS -> Copy("error", <<>>)
            [] at + (k - k + 1) * RDT_REG_SIZE > a.mmrc * PAGE_SIZE -> Copy("param", <<>>)
            [] OTHER -> Copy("ok", [j \in 1 .. (k - k + 1) |-> at + (j - 1) * RDT_REG_SIZE])
  BY DEF get_l3_mbm_region_rmid_range_v1
<1>4. c.ret = "ok"
  BY <1>1 DEF Counted
<1>5. n < 4 /\ c.at = [j \in 1 .. (k - k + 1) |-> at + (j - 1) * RDT_REG_SIZE]
  <2> HIDE DEF c, at
  <2> QED
    BY <1>3, <1>4 DEF Copy, PQOS_MAX_MEM_REGIONS
<1> HIDE DEF at, c
<1>6. c.at[1] = at
  BY <1>2, <1>5 DEF RDT_REG_SIZE
<1>7. n \in 0 .. 3
  BY <1>5
<1> QED
  BY <1>1, <1>6, <1>7 DEF at

\* A type of counters that is copied from clumps.
Clumped(a, type, clump, stride, offset, size) ==
  /\ clump * 8 <= stride
  /\ \A n, k : Counter(a, type, n, k) = copy_generic_rmid_range(k, k, clump, stride, offset, size)

LEMMA OthersClumped ==
  ASSUME NEW type \in CounterTypes \ {"mbm"}, NEW i \in DOMAIN AgentsOf(type)
  PROVE  \E clump \in Nat, stride \in Nat, offset \in Nat, size \in Nat :
           Clumped(AgentsOf(type)[i], type, clump, stride, offset, size)
<1> DEFINE a == AgentsOf(type)[i]
<1>1. CASE type = "l3"
  <2>1. i \in DOMAIN CpuAgents /\ a = CpuAgents[i]
    BY <1>1 DEF AgentsOf
  <2>2. a.clump \in Nat /\ a.stride \in Nat /\ a.clump * 8 <= a.stride /\ a.cmrc * PAGE_SIZE \in Nat /\ 0 \in Nat
    BY <2>1, CpuAgentIs DEF PAGE_SIZE, RDT_REG_SIZE
  <2> HIDE DEF a
  <2>3. Clumped(a, type, a.clump, a.stride, 0, a.cmrc * PAGE_SIZE)
    BY <1>1, <2>2 DEF Clumped, Counter, get_l3_cmt_rmid_range_v1
  <2>4. \E clump \in Nat, stride \in Nat, offset \in Nat, size \in Nat :
          Clumped(a, type, clump, stride, offset, size)
    BY <2>2, <2>3
  <2> QED
    BY <2>4 DEF a
<1>2. CASE type \in {"io-l3", "io-total", "io-miss"}
  <2>1. i \in DOMAIN DevAgents /\ a = DevAgents[i]
    BY <1>2 DEF AgentsOf
  <2>2. /\ a.clump \in Nat /\ PAGE_SIZE \in Nat /\ a.clump * 8 <= PAGE_SIZE
        /\ a.cmrd * PAGE_SIZE \in Nat /\ a.ibrd * PAGE_SIZE \in Nat
        /\ a.offset \in Nat /\ a.total \in Nat /\ a.miss \in Nat
    BY <2>1, DevAgentIs DEF PAGE_SIZE, RDT_REG_SIZE
  <2> HIDE DEF a
  <2>3. type = "io-l3" => Clumped(a, type, a.clump, PAGE_SIZE, a.offset, a.cmrd * PAGE_SIZE)
    BY <2>2 DEF Clumped, Counter, get_iol3_cmt_rmid_range_v1
  <2>4. type = "io-total" => Clumped(a, type, a.clump, PAGE_SIZE, a.total, a.ibrd * PAGE_SIZE)
    BY <2>2 DEF Clumped, Counter, get_total_iol3_mbm_rmid_range_v1
  <2>5. type = "io-miss" => Clumped(a, type, a.clump, PAGE_SIZE, a.miss, a.ibrd * PAGE_SIZE)
    BY <2>2 DEF Clumped, Counter, get_miss_iol3_mbm_rmid_range_v1
  <2>6. \E clump \in Nat, stride \in Nat, offset \in Nat, size \in Nat :
          Clumped(a, type, clump, stride, offset, size)
    BY <1>2, <2>2, <2>3, <2>4, <2>5
  <2> QED
    BY <2>6 DEF a
<1> QED
  BY <1>1, <1>2 DEF CounterTypes

LEMMA ClumpCounted ==
  ASSUME NEW a, NEW type, NEW clump \in Nat, NEW stride \in Nat, NEW offset \in Nat, NEW size \in Nat,
         Clumped(a, type, clump, stride, offset, size), NEW n, NEW k \in Nat, Counted(a, type, n, k)
  PROVE  /\ Dealt(clump, stride)
         /\ Counter(a, type, n, k).at = <<CopiedAt(k, clump, stride, offset)>>
<1>1. Counter(a, type, n, k) = copy_generic_rmid_range(k, k, clump, stride, offset, size) /\ clump * 8 <= stride
  BY DEF Clumped
<1>2. OneIsCopied(k, clump, stride, offset, size)
  BY <1>1 DEF Counted, OneIsCopied
<1>3. clump # 0 /\ copy_generic_rmid_range(k, k, clump, stride, offset, size).at
                      = <<CopiedAt(k, clump, stride, offset)>>
  BY <1>2, OneCopied
<1> QED
  BY <1>1, <1>3 DEF Dealt

LEMMA MbmDiffer ==
  ASSUME NEW a, NEW g \in Nat, NEW h \in Nat, NEW r \in AllRmids, NEW s \in AllRmids,
         Counted(a, "mbm", g, r), Counted(a, "mbm", h, s), CountedTogether(a, "mbm", g, r, h, s)
  PROVE  r = s /\ g = h
<1>1. g \in 0 .. 3 /\ Counter(a, "mbm", g, r).at[1] = mbm_offset(g, r)
  BY MbmCounted
<1>2. h \in 0 .. 3 /\ Counter(a, "mbm", h, s).at[1] = mbm_offset(h, s)
  BY MbmCounted
<1>3. MbmTogether(g, r, h, s)
  BY <1>1, <1>2 DEF CountedTogether, MbmTogether
<1> QED
  BY <1>1, <1>2, <1>3, MbmApart

LEMMA ClumpsDiffer ==
  ASSUME NEW a, NEW type, NEW clump \in Nat, NEW stride \in Nat, NEW offset \in Nat, NEW size \in Nat,
         Clumped(a, type, clump, stride, offset, size), NEW n, NEW r \in Nat, NEW s \in Nat,
         Counted(a, type, n, r), Counted(a, type, n, s), CountedTogether(a, type, n, r, n, s)
  PROVE  r = s
<1>1. Dealt(clump, stride) /\ Counter(a, type, n, r).at = <<CopiedAt(r, clump, stride, offset)>>
  BY ClumpCounted
<1>2. Dealt(clump, stride) /\ Counter(a, type, n, s).at = <<CopiedAt(s, clump, stride, offset)>>
  BY ClumpCounted
<1>3. CopiedTogether(r, s, clump, stride, offset)
  <2>1. <<CopiedAt(r, clump, stride, offset)>> = <<CopiedAt(s, clump, stride, offset)>>
    BY <1>1, <1>2 DEF CountedTogether
  <2>2. \A x, y : <<x>> = <<y>> => x = y
    OBVIOUS
  <2> QED
    BY <2>1, <2>2 DEF CopiedTogether
<1> QED
  BY <1>1, <1>3, ClumpsApart

\* Different RMIDs and regions have different counters.
LEMMA CountersDiffer ==
  ASSUME NEW type \in CounterTypes, NEW i \in DOMAIN AgentsOf(type),
         NEW g \in Nat, NEW h \in Nat, NEW r \in AllRmids, NEW s \in AllRmids, type # "mbm" => g = h,
         Counted(AgentsOf(type)[i], type, g, r), Counted(AgentsOf(type)[i], type, h, s),
         CountedTogether(AgentsOf(type)[i], type, g, r, h, s)
  PROVE  r = s /\ g = h
<1> DEFINE a == AgentsOf(type)[i]
<1>1. CASE type = "mbm"
  <2>1. Counted(a, "mbm", g, r) /\ Counted(a, "mbm", h, s) /\ CountedTogether(a, "mbm", g, r, h, s)
    BY <1>1
  <2> HIDE DEF a
  <2> QED
    BY <2>1, MbmDiffer
<1>2. CASE type # "mbm"
  <2>1. PICK clump \in Nat, stride \in Nat, offset \in Nat, size \in Nat :
          Clumped(a, type, clump, stride, offset, size)
    BY <1>2, OthersClumped
  <2>2. g = h /\ Counted(a, type, g, r) /\ Counted(a, type, g, s) /\ CountedTogether(a, type, g, r, g, s)
    BY <1>2
  <2>3. r \in Nat /\ s \in Nat
    BY DEF AllRmids
  <2> HIDE DEF a
  <2>4. r = s
    BY <2>1, <2>2, <2>3, ClumpsDiffer
  <2> QED
    BY <2>2, <2>4
<1> QED
  BY <1>1, <1>2

\* The line that a dump shows of an RMID, and all the lines it may show.
LineOf(type, upscale, p) ==
  LET a == AgentsOf(type)[p[1]]
  IN [domain |-> a.domain, region |-> p[2], rmid |-> p[3], at |-> Counter(a, type, p[2], p[3]).at,
      factor |-> IF upscale /\ type \in Corrected THEN factor(a, p[3]) ELSE -1]
Places(type) ==
  {p \in (DOMAIN AgentsOf(type)) \X Nat \X Nat :
     Counted(AgentsOf(type)[p[1]], type, p[2], p[3]) /\ (type # "mbm" => p[2] = 0)}
RmidLines(type, upscale) == {LineOf(type, upscale, p) : p \in Places(type)}

LEMMA RmidsShown ==
  ASSUME NEW d, NEW i \in DOMAIN AgentsOf(d.type), NEW g \in Nat, d.type # "mbm" => g = 0,
         d.rmids \in Seq(Nat)
  PROVE  dump_rmids_of(d, AgentsOf(d.type)[i], g).shown \in Seq(RmidLines(d.type, d.upscale))
<1> DEFINE a == AgentsOf(d.type)[i]
           L == RmidLines(d.type, d.upscale)
           c(r) == Counter(a, d.type, g, r)
           line(r) == [domain |-> a.domain, region |-> g, rmid |-> r, at |-> c(r).at,
                       factor |-> IF d.upscale /\ d.type \in Corrected THEN factor(a, r) ELSE -1]
           dump(r) == Out(c(r).ret, IF c(r).ret = "ok" THEN <<line(r)>> ELSE <<>>)
           s == [n \in 1 .. Len(d.rmids) |-> dump(d.rmids[n])]
<1>1. dump_rmids_of(d, a, g) = UntilError(s)
  BY DEF dump_rmids_of
<1>2. ASSUME NEW r \in Nat
      PROVE  dump(r).shown \in Seq(L)
  <2>1. CASE c(r).ret = "ok"
    <3> DEFINE p == <<i, g, r>>
    <3>1. p \in Places(d.type)
      BY <2>1 DEF Places, Counted
    <3>2. line(r) = LineOf(d.type, d.upscale, p)
      BY DEF LineOf
    <3>3. line(r) \in L
      BY <3>1, <3>2 DEF RmidLines
    <3>4. dump(r).shown = <<line(r)>>
      BY <2>1 DEF Out
    <3> HIDE DEF dump, line, L
    <3> QED
      BY <3>3, <3>4
  <2>2. CASE c(r).ret # "ok"
    <3>1. dump(r).shown = <<>>
      BY <2>2 DEF Out
    <3> HIDE DEF dump, L
    <3> QED
      BY <3>1
  <2> QED
    BY <2>1, <2>2
<1>3. Len(s) \in Nat /\ DOMAIN s = 1 .. Len(s) /\ \A n \in 1 .. Len(s) : s[n].shown \in Seq(L)
  <2>1. Len(d.rmids) \in Nat /\ \A n \in 1 .. Len(d.rmids) : d.rmids[n] \in Nat
    BY Elements
  <2> HIDE DEF dump, L
  <2> QED
    BY <1>2, <2>1
<1>4. UntilError(s).shown \in Seq(L)
  <2> HIDE DEF s, L
  <2> QED
    BY <1>3, UntilErrorIs
<1> QED
  BY <1>1, <1>4

LEMMA RmidDumpShown ==
  ASSUME NEW d, d.type \in CounterTypes, d.rmids \in Seq(Nat), d.regions \in Seq(Nat), d.domains \in Seq(Nat)
  PROVE  mmio_dump_rmids(d).shown \in Seq(RmidLines(d.type, d.upscale))
<1> DEFINE L == RmidLines(d.type, d.upscale)
           cpu == d.type \in {"l3", "mbm"}
           regions == IF d.type = "mbm" THEN d.regions ELSE <<0>>
           idx(domain) == IF cpu THEN get_cpu_agent_idx_by_domain_id(domain)
                          ELSE get_dev_agent_idx_by_domain_id(domain)
           agent(i) == IF cpu THEN CpuAgents[i] ELSE DevAgents[i]
           inner(i) == [n \in 1 .. Len(regions) |-> dump_rmids_of(d, agent(i), regions[n])]
           dump(domain) == IF idx(domain) = 0 THEN Out("error", <<>>) ELSE UntilError(inner(idx(domain)))
           s == [n \in 1 .. Len(d.domains) |-> dump(d.domains[n])]
<1>1. mmio_dump_rmids(d).shown \in {<<>>, UntilError(s).shown}
  BY DEF mmio_dump_rmids, Out
<1>2. Len(regions) \in Nat /\ \A n \in 1 .. Len(regions) : regions[n] \in Nat /\ (d.type # "mbm" => regions[n] = 0)
  <2>1. CASE d.type = "mbm"
    BY <2>1, Elements
  <2>2. CASE d.type # "mbm"
    BY <2>2
  <2> QED
    BY <2>1, <2>2
<1>3. ASSUME NEW domain \in Nat
      PROVE  dump(domain).shown \in Seq(L)
  <2>1. CASE idx(domain) = 0
    <3>1. dump(domain).shown = <<>>
      BY <2>1 DEF Out
    <3> HIDE DEF dump, L
    <3> QED
      BY <3>1
  <2>2. CASE idx(domain) # 0
    <3> DEFINE i == idx(domain)
               q == inner(i)
    <3>1. idx(domain) = First(AgentsOf(d.type), domain) /\ \A k : agent(k) = AgentsOf(d.type)[k]
      BY DEF AgentsOf, get_cpu_agent_idx_by_domain_id, get_dev_agent_idx_by_domain_id
    <3>2. Len(AgentsOf(d.type)) \in Nat /\ DOMAIN AgentsOf(d.type) = 1 .. Len(AgentsOf(d.type))
      BY AgentsAssumption, Elements DEF AgentsOf
    <3>3. i \in DOMAIN AgentsOf(d.type)
      <4> HIDE DEF idx
      <4> QED
        BY <2>2, <3>1, <3>2, FirstIs
    <3> HIDE DEF idx, regions, i, agent
    <3>4. ASSUME NEW n \in 1 .. Len(regions)
          PROVE  q[n].shown \in Seq(L)
      <4>1. q[n] = dump_rmids_of(d, AgentsOf(d.type)[i], regions[n])
        BY <3>1
      <4>2. regions[n] \in Nat /\ (d.type # "mbm" => regions[n] = 0)
        BY <1>2
      <4> HIDE DEF q
      <4> QED
        BY <3>3, <4>1, <4>2, RmidsShown
    <3>5. Len(q) = Len(regions) /\ DOMAIN q = 1 .. Len(regions)
      BY <1>2
    <3>6. dump(domain) = UntilError(q)
      BY <2>2 DEF i
    <3> HIDE DEF q, L, dump
    <3>7. UntilError(q).shown \in Seq(L)
      BY <1>2, <3>4, <3>5, UntilErrorIs
    <3> QED
      BY <3>6, <3>7
  <2> QED
    BY <2>1, <2>2
<1>4. Len(s) \in Nat /\ DOMAIN s = 1 .. Len(s) /\ \A n \in 1 .. Len(s) : s[n].shown \in Seq(L)
  <2>1. Len(d.domains) \in Nat /\ \A n \in 1 .. Len(d.domains) : d.domains[n] \in Nat
    BY Elements
  <2> HIDE DEF dump, L
  <2> QED
    BY <1>3, <2>1
<1> HIDE DEF s, L
<1>5. UntilError(s).shown \in Seq(L)
  BY <1>4, UntilErrorIs
<1>6. <<>> \in Seq(L)
  OBVIOUS
<1>7. mmio_dump_rmids(d).shown \in Seq(L)
  BY <1>1, <1>5, <1>6
<1> QED
  BY <1>7 DEF L

LEMMA RmidOptionShown ==
  ASSUME mrrm \in Nat, NEW o \in RmidDumps
  PROVE  \/ dump_rmid_regs(o).shown = <<>>
         \/ o.type \in CounterTypes /\ dump_rmid_regs(o).shown \in Seq(RmidLines(o.type, o.upscale))
<1> DEFINE domains == Parsed(o.domains, MAX_DOMAIN_IDS, MAX_DOMAINS)
           rmids == Parsed(o.rmids, MAX_RMIDS, MAX_RMIDS)
           regions == IF o.regions = <<>> THEN Table(<<>>)
                      ELSE pqos_parse_mem_regions(o.regions, PQOS_MAX_MEM_REGIONS)
           all == [i \in 1 .. mmio_get_num_mem_regions |-> i - 1]
           d == [type |-> o.type, domains |-> domains.tab, rmids |-> rmids.tab,
                 regions |-> IF regions.tab # <<>> THEN regions.tab ELSE all,
                 upscale |-> o.upscale]
<1>1. /\ o.domains \in Seq(Token) /\ o.rmids \in Seq(Token) /\ o.regions \in Seq(Token)
      /\ o.type = "none" \/ o.type \in CounterTypes
  BY InputsAssumption DEF CounterTypes
<1>2. \/ dump_rmid_regs(o).shown = <<>>
      \/ o.type # "none" /\ dump_rmid_regs(o) = mmio_dump_rmids(d)
  BY DEF dump_rmid_regs, Out
<1>3. domains.tab \in Seq(Nat) /\ rmids.tab \in Seq(Nat)
  BY <1>1, ParsedIs DEF Filled
<1>4. regions.tab \in Seq(Nat)
  <2>1. CASE o.regions = <<>>
    <3>1. regions.tab = <<>>
      BY <2>1 DEF Table
    <3> HIDE DEF regions
    <3> QED
      BY <3>1
  <2>2. CASE o.regions # <<>>
    <3>1. regions = pqos_parse_mem_regions(o.regions, PQOS_MAX_MEM_REGIONS)
      BY <2>2
    <3> HIDE DEF regions
    <3> QED
      BY <1>1, <3>1, RegionsParsed
  <2> QED
    BY <2>1, <2>2
<1>5. all \in Seq(Nat)
  <2>1. mmio_get_num_mem_regions \in Nat
    BY TwoBounds DEF mmio_get_num_mem_regions, PQOS_MAX_MEM_REGIONS
  <2> QED
    BY <2>1
<1>6. d.regions \in Seq(Nat) /\ d.domains \in Seq(Nat) /\ d.rmids \in Seq(Nat) /\ d.type = o.type /\ d.upscale = o.upscale
  <2> HIDE DEF domains, rmids, regions, all
  <2> QED
    BY <1>3, <1>4, <1>5
<1> HIDE DEF d
<1>7. d.type \in CounterTypes => mmio_dump_rmids(d).shown \in Seq(RmidLines(d.type, d.upscale))
  BY <1>6, RmidDumpShown
<1> QED
  BY <1>1, <1>2, <1>6, <1>7

\* Two agents of a table with the same domain are the same.
LEMMA AgentFound ==
  ASSUME NEW type, NEW i \in DOMAIN AgentsOf(type)
  PROVE  /\ First(AgentsOf(type), AgentsOf(type)[i].domain) = i
         /\ \A j \in DOMAIN AgentsOf(type) : AgentsOf(type)[j].domain = AgentsOf(type)[i].domain => i = j
         /\ AgentsOf(type)[i].factors \in {0, 1, MaxRmids + 1}
<1> DEFINE agents == AgentsOf(type)
<1>1. /\ Len(agents) \in Nat /\ DOMAIN agents = 1 .. Len(agents)
      /\ \A j, k \in DOMAIN agents : agents[j].domain = agents[k].domain => j = k
      /\ \A j \in DOMAIN agents : agents[j].factors \in {0, 1, MaxRmids + 1}
  <2>1. CASE type \in {"l3", "mbm"}
    <3>1. agents = CpuAgents
      BY <2>1 DEF AgentsOf
    <3> HIDE DEF agents
    <3> QED
      BY <3>1, AgentsAssumption, Elements
  <2>2. CASE type \notin {"l3", "mbm"}
    <3>1. agents = DevAgents
      BY <2>2 DEF AgentsOf
    <3> HIDE DEF agents
    <3> QED
      BY <3>1, AgentsAssumption, Elements
  <2> QED
    BY <2>1, <2>2
<1> HIDE DEF agents
<1>2. i \in DOMAIN agents
  BY DEF agents
<1>3. First(agents, agents[i].domain) # 0 /\ First(agents, agents[i].domain) \in 0 .. Len(agents)
      /\ (First(agents, agents[i].domain) # 0 => agents[First(agents, agents[i].domain)].domain = agents[i].domain)
  BY <1>1, <1>2, FirstIs
<1>4. First(agents, agents[i].domain) \in 1 .. Len(agents)
  BY <1>1, <1>3
<1>5. First(agents, agents[i].domain) = i
  BY <1>1, <1>2, <1>3, <1>4
<1> QED
  BY <1>1, <1>2, <1>5 DEF agents

LEMMA MaxRmidsIs == MaxRmids \in Nat /\ \A r \in Nat : r <= MaxRmids => r \in AllRmids
<1>1. MaxRmids \in 0 .. 1023
  BY AgentsAssumption
<1> QED
  BY <1>1 DEF AllRmids

LEMMA LinesApart ==
  ASSUME NEW type \in CounterTypes, NEW upscale, NEW x \in RmidLines(type, upscale), NEW y \in RmidLines(type, upscale),
         x.rmid <= MaxRmids, y.rmid <= MaxRmids, x.domain = y.domain, x.at = y.at
  PROVE  x.rmid = y.rmid /\ x.region = y.region
<1>1. PICK p \in Places(type) : x = LineOf(type, upscale, p)
  BY DEF RmidLines
<1>2. PICK q \in Places(type) : y = LineOf(type, upscale, q)
  BY DEF RmidLines
<1>3. /\ p[1] \in DOMAIN AgentsOf(type) /\ p[2] \in Nat /\ p[3] \in Nat /\ (type # "mbm" => p[2] = 0)
      /\ Counted(AgentsOf(type)[p[1]], type, p[2], p[3])
  BY DEF Places
<1>4. /\ q[1] \in DOMAIN AgentsOf(type) /\ q[2] \in Nat /\ q[3] \in Nat /\ (type # "mbm" => q[2] = 0)
      /\ Counted(AgentsOf(type)[q[1]], type, q[2], q[3])
  BY DEF Places
<1>5. /\ x.rmid = p[3] /\ x.region = p[2] /\ x.domain = AgentsOf(type)[p[1]].domain
      /\ x.at = Counter(AgentsOf(type)[p[1]], type, p[2], p[3]).at
  BY <1>1 DEF LineOf
<1>6. /\ y.rmid = q[3] /\ y.region = q[2] /\ y.domain = AgentsOf(type)[q[1]].domain
      /\ y.at = Counter(AgentsOf(type)[q[1]], type, q[2], q[3]).at
  BY <1>2 DEF LineOf
<1>7. p[1] = q[1]
  BY <1>3, <1>4, <1>5, <1>6, AgentFound
<1>8. p[3] \in AllRmids /\ q[3] \in AllRmids
  BY <1>3, <1>4, <1>5, <1>6, MaxRmidsIs
<1>9. CountedTogether(AgentsOf(type)[p[1]], type, p[2], p[3], q[2], q[3])
  BY <1>5, <1>6, <1>7 DEF CountedTogether
<1>10. p[3] = q[3] /\ p[2] = q[2]
  <2>1. Counted(AgentsOf(type)[p[1]], type, q[2], q[3])
    BY <1>4, <1>7
  <2>2. type # "mbm" => p[2] = q[2]
    BY <1>3, <1>4
  <2> QED
    BY <1>3, <1>4, <1>8, <1>9, <2>1, <2>2, CountersDiffer
<1> QED
  BY <1>5, <1>6, <1>10

LEMMA FactorFits ==
  ASSUME NEW type \in CounterTypes, NEW upscale, NEW x \in RmidLines(type, upscale), x.rmid <= MaxRmids
  PROVE  x.factor < AgentsOf(type)[First(AgentsOf(type), x.domain)].factors
<1>1. PICK p \in Places(type) : x = LineOf(type, upscale, p)
  BY DEF RmidLines
<1>2. p[1] \in DOMAIN AgentsOf(type) /\ p[3] \in Nat
  BY DEF Places
<1> DEFINE a == AgentsOf(type)[p[1]]
<1>3. x.rmid = p[3] /\ x.domain = a.domain /\ x.factor \in {-1, factor(a, p[3])}
  BY <1>1 DEF LineOf
<1>4. First(AgentsOf(type), x.domain) = p[1] /\ a.factors \in {0, 1, MaxRmids + 1}
  BY <1>2, <1>3, AgentFound
<1>5. p[3] <= MaxRmids /\ MaxRmids \in Nat
  BY <1>3, MaxRmidsIs
<1> DEFINE f == a.factors
<1>6. factor(a, p[3]) = CASE f = 0 -> -1 [] f = 1 -> 0 [] OTHER -> p[3]
  BY DEF factor
<1>7. f \in {0, 1, MaxRmids + 1}
  BY <1>4
<1> HIDE DEF f
<1>8. factor(a, p[3]) < f /\ -1 < f
  BY <1>2, <1>5, <1>6, <1>7
<1>9. x.factor < f
  BY <1>3, <1>8
<1> QED
  BY <1>4, <1>9 DEF f

\* What the utility has shown is what its dump functions give.
DumpsTold ==
  /\ last.op = "dump" =>
       /\ last.arg \in Dumps
       /\ last.ret = dump_mmio_regs(last.arg).ret /\ last.got = dump_mmio_regs(last.arg).shown
  /\ last.op = "dump_rmids" =>
       \/ last.got = <<>>
       \/ last.arg.type \in CounterTypes /\ last.got \in Seq(RmidLines(last.arg.type, last.arg.upscale))

LEMMA CountersApartHolds ==
  ASSUME DumpsTold
  PROVE  CountersApart
<1> SUFFICES ASSUME last.op = "dump_rmids"
             PROVE  CountersApart
  BY DEF CountersApart
<1> DEFINE type == last.arg.type
           got == last.got
           cpu == type \in {"l3", "mbm"}
           known == {n \in DOMAIN got : got[n].rmid <= MaxRmids}
           agent(x) == IF cpu THEN CpuAgents[First(CpuAgents, x.domain)]
                       ELSE DevAgents[First(DevAgents, x.domain)]
<1>1. \/ got = <<>>
      \/ type \in CounterTypes /\ got \in Seq(RmidLines(type, last.arg.upscale))
  BY DEF DumpsTold
<1>2. ASSUME NEW n \in known
      PROVE  type \in CounterTypes /\ got[n] \in RmidLines(type, last.arg.upscale) /\ got[n].rmid <= MaxRmids
  BY <1>1
<1>3. \A x : agent(x) = AgentsOf(type)[First(AgentsOf(type), x.domain)]
  BY DEF AgentsOf
<1> HIDE DEF agent, known
<1>4. ASSUME NEW m \in known, NEW n \in known, got[m].domain = got[n].domain, got[m].at = got[n].at
      PROVE  got[m].rmid = got[n].rmid /\ got[m].region = got[n].region
  <2> DEFINE x == got[m]
             y == got[n]
  <2>1. /\ type \in CounterTypes /\ x \in RmidLines(type, last.arg.upscale) /\ y \in RmidLines(type, last.arg.upscale)
        /\ x.rmid <= MaxRmids /\ y.rmid <= MaxRmids /\ x.domain = y.domain /\ x.at = y.at
    BY <1>2, <1>4
  <2> HIDE DEF x, y, type
  <2>2. x.rmid = y.rmid /\ x.region = y.region
    BY <2>1, LinesApart
  <2> QED
    BY <2>2 DEF x, y
<1>5. ASSUME NEW n \in known
      PROVE  got[n].factor < agent(got[n]).factors
  <2>1. type \in CounterTypes /\ got[n] \in RmidLines(type, last.arg.upscale) /\ got[n].rmid <= MaxRmids
    BY <1>2
  <2> HIDE DEF type, got
  <2>2. got[n].factor < AgentsOf(type)[First(AgentsOf(type), got[n].domain)].factors
    BY <2>1, FactorFits
  <2> QED
    BY <1>3, <2>2
<1> QED
  BY <1>4, <1>5 DEF CountersApart, known, agent

-----------------------------------------------------------------------------
(* What a dump of registers prints *)

\* Sixteen bytes go into a line; the last line has what is left.
LEMMA LinesCount ==
  ASSUME NEW elems \in Nat \ {0}, NEW width \in {1, 8}, NEW per, per = IF width = 8 THEN 2 ELSE 16,
         NEW lines, lines = (elems + per - 1) \div per
  PROVE  /\ lines \in Nat \ {0} /\ per * width = 16
         /\ \A i \in 1 .. lines : elems - (i - 1) * per \in Nat \ {0}
         /\ \A i \in 1 .. (lines - 1) : elems - (i - 1) * per >= per
         /\ elems - (lines - 1) * per <= per
         /\ (lines - 1) * 16 + (elems - (lines - 1) * per) * width = elems * width
<1>1. CASE width = 8
  <2>1. per = 2
    BY <1>1
  <2> QED
    BY <1>1, <2>1
<1>2. CASE width = 1
  <2>1. per = 16
    BY <1>2
  <2> QED
    BY <1>2, <2>1
<1> QED
  BY <1>1, <1>2

\* The k-th byte of a range of registers that begins at from.
ByteAt(from, width, le, k) ==
  LET e == (k - 1) \div width
  IN from + (IF le THEN k - 1 ELSE e * width + (e + 1) * width - k)

\* The k-th byte is the n-th of line i.
InLine(from, elems, width, le, per, i, n, k) ==
  /\ i \in Nat /\ n \in 1 .. 16 /\ i * 16 + n = k
  /\ i + 1 <= (elems + per - 1) \div per
  /\ n <= per * width /\ n <= (elems - i * per) * width
  /\ from + (i * per + (n - 1) \div width) * width
         + (IF le THEN (((n - 1) % width) + 1) - 1 ELSE width - (((n - 1) % width) + 1))
       = ByteAt(from, width, le, k)

LEMMA ByteInLine ==
  ASSUME NEW width \in {1, 8}, NEW per, per = IF width = 8 THEN 2 ELSE 16, NEW from \in Nat,
         NEW le \in BOOLEAN, NEW elems \in Nat \ {0}, NEW k \in Nat \ {0}, k <= elems * width
  PROVE  \E i, n : InLine(from, elems, width, le, per, i, n, k)
<1> DEFINE i == (k - 1) \div 16
           n == ((k - 1) % 16) + 1
<1>1. InLine(from, elems, width, le, per, i, n, k)
  <2>1. CASE width = 8
    <3>1. per = 2
      BY <2>1
    <3> QED
      BY <2>1, <3>1 DEF ByteAt, InLine
  <2>2. CASE width = 1
    <3>1. per = 16
      BY <2>2
    <3> QED
      BY <2>2, <3>1 DEF ByteAt, InLine
  <2> QED
    BY <2>1, <2>2
<1> QED
  BY <1>1

\* b is the bytes of a range, one after the other.
BytesOf(b, from, bytes, width, le) ==
  b \in Seq(Int) /\ Len(b) = bytes /\ \A k \in 1 .. bytes : b[k] = ByteAt(from, width, le, k)

\* print_hex_dump() prints the bytes of a range one after the other.
LEMMA HexBytes ==
  ASSUME NEW from \in Nat, NEW elems \in Nat \ {0}, NEW width \in {1, 8}, NEW le \in BOOLEAN
  PROVE  BytesOf(Bytes(print_hex_dump(from, elems, width, le)), from, elems * width, width, le)
<1> DEFINE per == IF width = 8 THEN 2 ELSE 16
           lines == (elems + per - 1) \div per
           Byte(e, k) == from + e * width + (IF le THEN k - 1 ELSE width - k)
           at(i, n) == Byte(i * per + (n - 1) \div width, ((n - 1) % width) + 1)
           long(i) == hex_line(elems, per, i) * width
           Line(i) == [n \in 1 .. long(i) |-> at(i, n)]
           q == [i \in 1 .. lines |-> Line(i - 1)]
<1>1. print_hex_dump(from, elems, width, le) = q
  BY DEF print_hex_dump
<1>2. /\ lines \in Nat \ {0} /\ per * width = 16 /\ per \in Nat
      /\ \A i \in 1 .. lines : elems - (i - 1) * per \in Nat \ {0}
      /\ \A i \in 1 .. (lines - 1) : elems - (i - 1) * per >= per
      /\ elems - (lines - 1) * per <= per
      /\ (lines - 1) * 16 + (elems - (lines - 1) * per) * width = elems * width
  <2>1. per \in Nat
    OBVIOUS
  <2> HIDE DEF per
  <2> QED
    BY <2>1, LinesCount DEF per
<1>3. \A i, n \in Nat : at(i, n) \in Int
  <2>1. per \in Nat
    BY <1>2
  <2> HIDE DEF per
  <2>2. CASE width = 1
    BY <2>1, <2>2
  <2>3. CASE width = 8
    BY <2>1, <2>3
  <2> QED
    BY <2>2, <2>3
<1>4. ASSUME NEW i \in 1 .. lines
      PROVE  LET rest == elems - (i - 1) * per
             IN long(i - 1) = IF per <= rest THEN 16 ELSE rest * width
  <2> DEFINE rest == elems - (i - 1) * per
  <2>1. rest \in Nat /\ per \in Nat
    BY <1>2
  <2>2. hex_line(elems, per, i - 1) = Min({per, rest})
    BY DEF hex_line
  <2> HIDE DEF rest, per
  <2>3. hex_line(elems, per, i - 1) = IF per <= rest THEN per ELSE rest
    BY <2>1, <2>2, TwoBounds
  <2>4. long(i - 1) = IF per <= rest THEN per * width ELSE rest * width
    BY <2>3
  <2> QED
    BY <1>2, <2>4 DEF rest
<1>5. \A i \in 1 .. lines : long(i - 1) \in Nat /\ long(i - 1) <= 16
  <2> SUFFICES ASSUME NEW i \in 1 .. lines PROVE long(i - 1) \in Nat /\ long(i - 1) <= 16
    OBVIOUS
  <2> DEFINE rest == elems - (i - 1) * per
             l == long(i - 1)
  <2>1. rest \in Nat /\ per \in Nat /\ per * width = 16
    BY <1>2
  <2>2. l = IF per <= rest THEN 16 ELSE rest * width
    BY <1>4
  <2> HIDE DEF rest, l
  <2>3. l \in Nat /\ l <= 16
    <3> HIDE DEF per
    <3>1. CASE width = 1
      BY <2>1, <2>2, <3>1
    <3>2. CASE width = 8
      BY <2>1, <2>2, <3>2
    <3> QED
      BY <3>1, <3>2
  <2> QED
    BY <2>3 DEF l
<1>6. \A i \in 1 .. lines : Line(i - 1) \in Seq(Int) /\ Len(Line(i - 1)) = long(i - 1)
  <2> SUFFICES ASSUME NEW i \in 1 .. lines
               PROVE  Line(i - 1) \in Seq(Int) /\ Len(Line(i - 1)) = long(i - 1)
    OBVIOUS
  <2>1. long(i - 1) \in Nat /\ i - 1 \in Nat
    BY <1>2, <1>5
  <2>2. \A n \in 1 .. long(i - 1) : at(i - 1, n) \in Int
    <3> HIDE DEF at, long
    <3> QED
      BY <1>3, <2>1
  <2> HIDE DEF at, long
  <2> QED
    BY <2>1, <2>2
<1>7. q \in Seq(Seq(Int)) /\ Len(q) = lines /\ \A i \in 1 .. lines : q[i] = Line(i - 1)
  <2>1. lines \in Nat
    BY <1>2
  <2> HIDE DEF Line, lines
  <2> QED
    BY <1>6, <2>1
<1>8. Uniform(q, 16)
  <2>1. \A i \in 1 .. lines : Len(q[i]) = long(i - 1)
    BY <1>6, <1>7
  <2>2. \A i \in 1 .. (lines - 1) : i \in 1 .. lines /\ long(i - 1) = 16
    <3> SUFFICES ASSUME NEW i \in 1 .. (lines - 1) PROVE i \in 1 .. lines /\ long(i - 1) = 16
      OBVIOUS
    <3>1. i \in 1 .. lines
      BY <1>2
    <3>2. per <= elems - (i - 1) * per
      BY <1>2
    <3> HIDE DEF long, lines
    <3> QED
      BY <1>4, <3>1, <3>2
  <2> HIDE DEF q, long, lines
  <2> QED
    BY <1>5, <1>7, <2>1, <2>2 DEF Uniform
<1>9. /\ Len(FlattenSeq(q)) = (lines - 1) * 16 + long(lines - 1)
      /\ \A i \in 1 .. lines : \A j \in 1 .. long(i - 1) : FlattenSeq(q)[(i - 1) * 16 + j] = at(i - 1, j)
  <2>1. /\ Len(FlattenSeq(q)) = (Len(q) - 1) * 16 + Len(q[Len(q)])
        /\ \A i \in 1 .. Len(q) : \A j \in 1 .. Len(q[i]) :
             FlattenSeq(q)[(i - 1) * 16 + j] = q[i][j]
    <3>1. Len(q) # 0 /\ q \in Seq(Seq(Int)) /\ 16 \in Nat
      BY <1>2, <1>7
    <3> HIDE DEF q
    <3>2. Strung(q, 16)
      BY <1>8, <3>1, FlattenUniform
    <3> QED
      BY <3>2 DEF Strung
  <2>2. lines \in 1 .. lines
    BY <1>2
  <2>3. \A i \in 1 .. lines : Len(q[i]) = long(i - 1) /\ \A j \in 1 .. long(i - 1) : q[i][j] = at(i - 1, j)
    <3>1. \A i : \A j \in 1 .. long(i - 1) : Line(i - 1)[j] = at(i - 1, j)
      OBVIOUS
    <3> HIDE DEF q, Line, at, long, lines
    <3> QED
      BY <1>6, <1>7, <3>1
  <2> HIDE DEF q, at, long, lines
  <2> QED
    BY <1>7, <2>1, <2>2, <2>3
<1>10. Len(FlattenSeq(q)) = elems * width
  <2>1. lines \in 1 .. lines
    BY <1>2
  <2> DEFINE rest == elems - (lines - 1) * per
  <2>2. long(lines - 1) = IF per <= rest THEN 16 ELSE rest * width
    BY <1>4, <2>1
  <2>3. rest <= per /\ per * width = 16 /\ (lines - 1) * 16 + rest * width = elems * width
    BY <1>2
  <2>4. rest \in Nat /\ per \in Nat
    BY <1>2, <2>1
  <2> HIDE DEF rest, long, per, lines
  <2>5. per <= rest => per = rest
    BY <2>3, <2>4
  <2>6. long(lines - 1) = rest * width
    BY <2>2, <2>3, <2>5
  <2> QED
    BY <1>9, <2>3, <2>6
<1>11. ASSUME NEW k \in 1 .. (elems * width)
       PROVE  FlattenSeq(q)[k] = ByteAt(from, width, le, k)
  <2>1. PICK i, n : InLine(from, elems, width, le, per, i, n, k)
    <3>1. k \in Nat \ {0} /\ k <= elems * width
      <4>1. elems * width \in Nat
        OBVIOUS
      <4> QED
        BY <4>1
    <3>2. per = IF width = 8 THEN 2 ELSE 16
      OBVIOUS
    <3> HIDE DEF per
    <3> QED
      BY <3>1, <3>2, ByteInLine
  <2>a. /\ i \in Nat /\ n \in 1 .. 16 /\ i * 16 + n = k /\ i + 1 <= lines
        /\ n <= per * width /\ n <= (elems - i * per) * width
        /\ at(i, n) = ByteAt(from, width, le, k)
    <3> HIDE DEF per
    <3> QED
      BY <2>1 DEF InLine
  <2>2. i + 1 \in 1 .. lines /\ (i + 1) - 1 = i
    BY <1>2, <2>a
  <2>3. long(i) = IF per <= elems - i * per THEN 16 ELSE (elems - i * per) * width
    BY <1>4, <2>2
  <2>4. long(i) \in Nat
    BY <1>5, <2>2
  <2>5. n \in 1 .. long(i)
    <3> HIDE DEF long, per, lines
    <3> QED
      BY <1>2, <2>a, <2>3, <2>4
  <2> HIDE DEF q, at, long, lines
  <2>6. FlattenSeq(q)[i * 16 + n] = at(i, n)
    BY <1>9, <2>2, <2>5
  <2> QED
    BY <2>a, <2>6
<1> HIDE DEF q
<1>12. FlattenSeq(q) \in Seq(Int)
  BY <1>7, FlattenType
<1> QED
  BY <1>1, <1>10, <1>11, <1>12 DEF Bytes, BytesOf

\* The lines show exactly the elements asked for of a block.
ShownExactly(lines, size, offset, length, width, le) ==
  LET from == offset * width
      to == IF length = 0 THEN size - (size % width) ELSE from + length * width
      b == Bytes(lines)
  IN /\ to <= size /\ Len(b) = to - from /\ DOMAIN b = 1 .. (to - from)
     /\ \A k \in 1 .. (to - from) : b[k] = ByteAt(from, width, le, k)

LEMMA RangeFits ==
  ASSUME NEW size \in Nat, NEW offset \in Nat, NEW length \in Nat, NEW width \in {1, 8},
         NEW n, n = IF length = 0 THEN size \div width - offset ELSE length,
         offset < size \div width, n <= size \div width - offset,
         NEW to, to = IF length = 0 THEN size - (size % width) ELSE offset * width + length * width
  PROVE  n \in Nat \ {0} /\ to <= size /\ to - offset * width = n * width /\ offset * width \in Nat
<1>1. CASE width = 1
  BY <1>1
<1>2. CASE width = 8
  BY <1>2
<1> QED
  BY <1>1, <1>2

LEMMA RangeShown ==
  ASSUME NEW size \in Nat, NEW offset \in Nat, NEW length \in Nat, NEW width, NEW le \in BOOLEAN,
         dump_mmio_range(size, offset, length, width, le).ret = "ok"
  PROVE  /\ width \in {1, 8}
         /\ ShownExactly(dump_mmio_range(size, offset, length, width, le).shown, size, offset, length, width, le)
<1> DEFINE available == size \div width
           n == IF length = 0 THEN available - offset ELSE length
           from == offset * width
           to == IF length = 0 THEN size - (size % width) ELSE from + length * width
           lines == print_hex_dump(from, n, width, le)
<1>1. /\ width \in {1, 8} /\ ~(offset >= available) /\ ~(n > available - offset)
      /\ dump_mmio_range(size, offset, length, width, le).shown = lines
  BY DEF dump_mmio_range, Out
<1>2. available \in Int /\ n \in Int
  <2>1. CASE width = 1
    BY <2>1
  <2>2. CASE width = 8
    BY <2>2
  <2> QED
    BY <1>1, <2>1, <2>2
<1>3. offset < available /\ n <= available - offset
  <2> HIDE DEF available, n
  <2> QED
    BY <1>1, <1>2
<1>4. n \in Nat \ {0} /\ to <= size /\ to - from = n * width /\ from \in Nat
  <2> HIDE DEF n, to
  <2> QED
    BY <1>1, <1>3, RangeFits DEF n, to
<1> DEFINE b == Bytes(lines)
<1>5. /\ b \in Seq(Int) /\ Len(b) = n * width
      /\ \A k \in 1 .. (n * width) : b[k] = ByteAt(from, width, le, k)
  <2>1. n \in Nat \ {0} /\ from \in Nat /\ width \in {1, 8}
    BY <1>1, <1>4
  <2> HIDE DEF from, n
  <2>2. BytesOf(b, from, n * width, width, le)
    BY <2>1, HexBytes
  <2> QED
    BY <2>2 DEF BytesOf
<1>6. DOMAIN b = 1 .. (n * width)
  <2> HIDE DEF b
  <2> QED
    BY <1>5, Elements
<1> QED
  BY <1>1, <1>4, <1>5, <1>6 DEF ShownExactly

\* A loop whose turns show one thing each shows as many things as it has turns.
OneEach(s) ==
  /\ Len(s) \in Nat \ {0} /\ DOMAIN s = 1 .. Len(s)
  /\ \A i \in 1 .. Len(s) : \/ s[i].shown = <<>> /\ s[i].ret # "ok"
                            \/ s[i].shown = <<s[i].shown[1]>>

LEMMA SinglesShown ==
  ASSUME NEW s, OneEach(s), UntilError(s).ret = "ok"
  PROVE  /\ Len(UntilError(s).shown) = Len(s) /\ DOMAIN UntilError(s).shown = 1 .. Len(s)
         /\ \A i \in 1 .. Len(s) : s[i].ret = "ok" /\ UntilError(s).shown[i] = s[i].shown[1]
<1> DEFINE S == {s[i].shown[1] : i \in 1 .. Len(s)}
           q == [i \in 1 .. Len(s) |-> s[i].shown]
<1>a. Len(s) \in Nat \ {0} /\ DOMAIN s = 1 .. Len(s)
  BY DEF OneEach
<1>1. \A i \in 1 .. Len(s) : s[i].shown \in Seq(S)
  <2> SUFFICES ASSUME NEW i \in 1 .. Len(s) PROVE s[i].shown \in Seq(S)
    OBVIOUS
  <2> DEFINE x == s[i].shown[1]
  <2>1. x \in S
    OBVIOUS
  <2>2. s[i].shown = <<>> \/ s[i].shown = <<x>>
    BY DEF OneEach
  <2> HIDE DEF x, S
  <2>3. <<>> \in Seq(S) /\ <<x>> \in Seq(S)
    BY <2>1
  <2> QED
    BY <2>2, <2>3
<1> HIDE DEF S
<1>2. /\ \A i \in 1 .. Len(s) : s[i].ret = "ok"
      /\ UntilError(s).shown = FlattenSeq(q) /\ UntilError(s).shown \in Seq(S)
  BY <1>a, <1>1, UntilErrorIs
<1>3. q \in Seq(Seq(S)) /\ Len(q) = Len(s) /\ \A i \in 1 .. Len(s) : q[i] = s[i].shown
  BY <1>a, <1>1
<1>4. \A i \in 1 .. Len(s) : Len(q[i]) = 1 /\ q[i][1] = s[i].shown[1]
  <2> SUFFICES ASSUME NEW i \in 1 .. Len(s) PROVE Len(q[i]) = 1 /\ q[i][1] = s[i].shown[1]
    OBVIOUS
  <2> DEFINE x == s[i].shown[1]
  <2>1. q[i] = <<x>>
    BY <1>2, <1>3 DEF OneEach
  <2> HIDE DEF x, q
  <2> QED
    BY <2>1 DEF x
<1> HIDE DEF q
<1>5. Uniform(q, 1)
  <2>1. \A i \in 1 .. (Len(q) - 1) : i \in 1 .. Len(q)
    BY <1>a, <1>3
  <2>2. 1 <= 1
    OBVIOUS
  <2> QED
    BY <1>3, <1>4, <2>1, <2>2, Zenon DEF Uniform
<1>6. Strung(q, 1)
  <2>1. Len(q) # 0 /\ q \in Seq(Seq(S)) /\ 1 \in Nat
    BY <1>a, <1>3
  <2> QED
    BY <1>5, <2>1, FlattenUniform
<1>7. Len(FlattenSeq(q)) = Len(s)
  <2>1. Len(FlattenSeq(q)) = (Len(s) - 1) * 1 + Len(q[Len(s)])
    BY <1>3, <1>6 DEF Strung
  <2>2. Len(q[Len(s)]) = 1
    BY <1>a, <1>4
  <2>3. \A m \in Nat : (m - 1) * 1 + 1 = m
    OBVIOUS
  <2> QED
    BY <1>a, <2>1, <2>2, <2>3, Zenon
<1>8. \A i \in 1 .. Len(s) : FlattenSeq(q)[i] = s[i].shown[1]
  <2> SUFFICES ASSUME NEW i \in 1 .. Len(s) PROVE FlattenSeq(q)[i] = s[i].shown[1]
    OBVIOUS
  <2>1. i \in 1 .. Len(q) /\ 1 \in 1 .. Len(q[i]) /\ (i - 1) * 1 + 1 = i
    BY <1>a, <1>3, <1>4
  <2>2. FlattenSeq(q)[(i - 1) * 1 + 1] = q[i][1]
    BY <1>6, <2>1 DEF Strung
  <2> QED
    BY <1>4, <2>1, <2>2
<1>9. DOMAIN UntilError(s).shown = 1 .. Len(UntilError(s).shown)
  BY <1>2, Elements
<1> QED
  BY <1>2, <1>7, <1>8, <1>9

\* The agents that have a register space.
SpaceAgents(space) == IF space \in CpuSpaces THEN CpuAgents ELSE DevAgents

\* The line of a domain shows what was asked for of its agent.
LineExact(d, domain, line) ==
  LET i == First(SpaceAgents(d.space), domain)
  IN /\ line.domain = domain /\ i \in DOMAIN SpaceAgents(d.space) /\ d.width \in {1, 8}
     /\ ShownExactly(line.lines, Pages(SpaceAgents(d.space)[i], d.space) * PAGE_SIZE,
                     d.offset, d.length, d.width, d.le)

LEMMA PagesAre ==
  ASSUME NEW space \in CpuSpaces \cup DevSpaces, NEW i \in DOMAIN SpaceAgents(space)
  PROVE  Pages(SpaceAgents(space)[i], space) * PAGE_SIZE \in Nat
<1>1. CASE space \in CpuSpaces
  <2>1. i \in DOMAIN CpuAgents /\ SpaceAgents(space) = CpuAgents
    BY <1>1 DEF SpaceAgents
  <2> DEFINE a == CpuAgents[i]
  <2>2. a.cmrc \in Nat /\ a.mmrc \in Nat /\ a.marc \in Nat
    BY <2>1, CpuAgentIs
  <2> HIDE DEF a
  <2>3. Pages(a, space) \in Nat
    BY <1>1, <2>2 DEF Pages, CpuSpaces
  <2> QED
    BY <2>1, <2>3 DEF a, PAGE_SIZE
<1>2. CASE space \notin CpuSpaces /\ space \in DevSpaces
  <2>1. i \in DOMAIN DevAgents /\ SpaceAgents(space) = DevAgents
    BY <1>2 DEF SpaceAgents
  <2> DEFINE a == DevAgents[i]
  <2>2. a.cmrd \in Nat /\ a.ibrd \in Nat /\ a.card \in Nat
    BY <2>1, DevAgentIs
  <2> HIDE DEF a
  <2>3. Pages(a, space) \in Nat
    BY <1>2, <2>2 DEF Pages, DevSpaces
  <2> QED
    BY <2>1, <2>3 DEF a, PAGE_SIZE
<1> QED
  BY <1>1, <1>2

LEMMA SpaceShown ==
  ASSUME NEW d, d.space \in CpuSpaces \cup DevSpaces, d.offset \in Nat, d.length \in Nat, d.le \in BOOLEAN,
         NEW domain, First(SpaceAgents(d.space), domain) # 0,
         NEW x, x = mmio_dump_space(SpaceAgents(d.space)[First(SpaceAgents(d.space), domain)], d)
  PROVE  /\ x.shown = <<x.shown[1]>>
         /\ x.ret = "ok" => LineExact(d, domain, x.shown[1])
<1> DEFINE agents == SpaceAgents(d.space)
           i == First(agents, domain)
           a == agents[i]
           size == Pages(a, d.space) * PAGE_SIZE
           r == dump_mmio_range(size, d.offset, d.length, d.width, d.le)
           line == [domain |-> a.domain, space |-> d.space, lines |-> r.shown]
<1>1. x = Out(r.ret, <<line>>)
  BY DEF mmio_dump_space
<1>2. x.ret = r.ret /\ x.shown = <<line>>
  BY <1>1 DEF Out
<1>3. x.shown[1] = line
  <2> HIDE DEF line
  <2> QED
    BY <1>2
<1>4. Len(agents) \in Nat /\ DOMAIN agents = 1 .. Len(agents)
  BY AgentsAssumption, Elements DEF SpaceAgents
<1>5. i \in DOMAIN agents /\ a.domain = domain
  <2>1. i # 0
    OBVIOUS
  <2> HIDE DEF agents
  <2> QED
    BY <1>4, <2>1, FirstIs
<1>6. size \in Nat
  <2> HIDE DEF i
  <2> QED
    BY <1>5, PagesAre
<1>7. ASSUME r.ret = "ok"
      PROVE  d.width \in {1, 8} /\ ShownExactly(r.shown, size, d.offset, d.length, d.width, d.le)
  <2> HIDE DEF size
  <2> QED
    BY <1>6, <1>7, RangeShown
<1>8. line.domain = domain /\ line.lines = r.shown
  BY <1>5
<1>9. r.ret = "ok" => LineExact(d, domain, line)
  <2> HIDE DEF line, r
  <2> QED
    BY <1>5, <1>7, <1>8 DEF LineExact
<1> HIDE DEF line, r
<1> QED
  BY <1>2, <1>3, <1>9

\* A dump that returns OK shows its domains in turn.
LEMMA DumpShown ==
  ASSUME NEW d, d.domains \in Seq(Nat), d.offset \in Nat, d.length \in Nat, d.le \in BOOLEAN,
         mmio_dump(d).ret = "ok"
  PROVE  /\ d.domains # <<>> /\ Len(mmio_dump(d).shown) = Len(d.domains)
         /\ DOMAIN mmio_dump(d).shown = 1 .. Len(d.domains)
         /\ \A n \in 1 .. Len(d.domains) : LineExact(d, d.domains[n], mmio_dump(d).shown[n])
<1> DEFINE c(domain) == get_cpu_agent_idx_by_domain_id(domain)
           v(domain) == get_dev_agent_idx_by_domain_id(domain)
           dump(domain) ==
             CASE c(domain) # 0 /\ v(domain) = 0 /\ d.space \in CpuSpaces ->
                    mmio_dump_space(CpuAgents[c(domain)], d)
               [] c(domain) = 0 /\ v(domain) # 0 /\ d.space \in DevSpaces ->
                    mmio_dump_space(DevAgents[v(domain)], d)
               [] OTHER -> Out("error", <<>>)
           s == [n \in 1 .. Len(d.domains) |-> dump(d.domains[n])]
<1>1. d.domains # <<>> /\ d.space \in CpuSpaces \cup DevSpaces /\ mmio_dump(d) = UntilError(s)
  BY DEF mmio_dump, Out
<1>2. CpuSpaces \cap DevSpaces = {}
  BY DEF CpuSpaces, DevSpaces
<1>3. ASSUME NEW domain
      PROVE  /\ \/ dump(domain).shown = <<>> /\ dump(domain).ret # "ok"
                \/ dump(domain).shown = <<dump(domain).shown[1]>>
             /\ dump(domain).ret = "ok" => LineExact(d, domain, dump(domain).shown[1])
  <2> DEFINE i == First(SpaceAgents(d.space), domain)
  <2>1. CASE c(domain) # 0 /\ v(domain) = 0 /\ d.space \in CpuSpaces
    <3>1. dump(domain) = mmio_dump_space(CpuAgents[c(domain)], d)
      BY <2>1
    <3>2. SpaceAgents(d.space) = CpuAgents /\ c(domain) = i
      BY <2>1 DEF SpaceAgents, get_cpu_agent_idx_by_domain_id
    <3>3. dump(domain) = mmio_dump_space(SpaceAgents(d.space)[i], d) /\ i # 0
      BY <2>1, <3>1, <3>2
    <3> HIDE DEF dump
    <3> QED
      BY <1>1, <3>3, SpaceShown
  <2>2. CASE c(domain) = 0 /\ v(domain) # 0 /\ d.space \in DevSpaces
    <3>1. dump(domain) = mmio_dump_space(DevAgents[v(domain)], d)
      BY <2>2
    <3>2. SpaceAgents(d.space) = DevAgents /\ v(domain) = i
      BY <1>2, <2>2 DEF SpaceAgents, get_dev_agent_idx_by_domain_id
    <3>3. dump(domain) = mmio_dump_space(SpaceAgents(d.space)[i], d) /\ i # 0
      BY <2>2, <3>1, <3>2
    <3> HIDE DEF dump
    <3> QED
      BY <1>1, <3>3, SpaceShown
  <2>3. CASE /\ ~(c(domain) # 0 /\ v(domain) = 0 /\ d.space \in CpuSpaces)
             /\ ~(c(domain) = 0 /\ v(domain) # 0 /\ d.space \in DevSpaces)
    <3>1. dump(domain) = Out("error", <<>>)
      BY <2>3
    <3>2. dump(domain).shown = <<>> /\ dump(domain).ret = "error"
      BY <3>1 DEF Out
    <3> HIDE DEF dump
    <3> QED
      BY <3>2
  <2> QED
    BY <2>1, <2>2, <2>3
<1> HIDE DEF dump
<1>4. Len(s) = Len(d.domains) /\ DOMAIN s = 1 .. Len(s) /\ Len(s) \in Nat \ {0}
  <2>1. Len(d.domains) \in Nat \ {0}
    BY <1>1
  <2> QED
    BY <2>1
<1>5. OneEach(s)
  <2>1. \A n \in 1 .. Len(s) : s[n] = dump(d.domains[n])
    BY <1>4
  <2> HIDE DEF s
  <2> QED
    BY <1>3, <1>4, <2>1 DEF OneEach
<1>6. ASSUME NEW n \in 1 .. Len(s)
      PROVE  s[n].ret = "ok" => LineExact(d, d.domains[n], s[n].shown[1])
  <2>1. s[n] = dump(d.domains[n])
    BY <1>4
  <2> QED
    BY <1>3, <2>1
<1> HIDE DEF s
<1>7. /\ Len(UntilError(s).shown) = Len(s) /\ DOMAIN UntilError(s).shown = 1 .. Len(s)
      /\ \A n \in 1 .. Len(s) : s[n].ret = "ok" /\ UntilError(s).shown[n] = s[n].shown[1]
  BY <1>1, <1>5, SinglesShown
<1> QED
  BY <1>1, <1>4, <1>6, <1>7

-----------------------------------------------------------------------------
(* Sockets *)

NoRepeats(s) == \A i, j \in 1 .. Len(s) : s[i] = s[j] => i = j

\* A table deals its agents to sockets, per of them to each.
Dealing(agents, per) ==
  /\ per \in Nat \ {0} /\ Len(agents) \in Nat /\ DOMAIN agents = 1 .. Len(agents)
  /\ \A i \in 1 .. Len(agents) : agents[i].domain \in Nat /\ agents[i].socket = (i - 1) \div per
  /\ \A i, j \in 1 .. Len(agents) : agents[i].domain = agents[j].domain => i = j

\* The position of an agent in such a table.
LEMMA SocketPlace ==
  ASSUME NEW per \in Nat \ {0}, NEW k \in Nat \ {0}
  PROVE  /\ (k - 1) \div per \in Nat
         /\ \E j \in 1 .. per : k = ((k - 1) \div per) * per + j
         /\ \A s \in Nat, j \in 1 .. per : k = s * per + j => s = (k - 1) \div per
<1> DEFINE s == (k - 1) \div per
           m == (k - 1) % per
<1>1. s \in Nat /\ m \in 0 .. (per - 1) /\ k - 1 = s * per + m
  <2>1. k - 1 \in Nat
    OBVIOUS
  <2> QED
    BY <2>1, Divided
<1> HIDE DEF s, m
<1>2. m + 1 \in 1 .. per /\ k = s * per + (m + 1)
  <2>1. s * per \in Nat
    BY <1>1
  <2> QED
    BY <1>1, <2>1
<1>3. ASSUME NEW r \in Nat, NEW j \in 1 .. per, k = r * per + j
      PROVE  r = s
  <2>1. j - 1 \in Nat /\ m \in Nat /\ j - 1 < per /\ m < per /\ per \in Nat
    BY <1>1
  <2>2. r * per + (j - 1) = s * per + m
    <3>1. r * per \in Nat /\ s * per \in Nat
      BY <1>1
    <3> QED
      BY <1>1, <1>3, <3>1
  <2> QED
    BY <1>1, <2>1, <2>2, Apart
<1> QED
  BY <1>1, <1>2, <1>3 DEF s

\* The domains of sockets, as the utility puts them in a row.
SocketRows(t, agents, per) ==
  [i \in 1 .. Len(t) |-> [j \in 1 .. per |-> agents[t[i] * per + j].domain]]
Seated(t, agents, per) == \A i \in 1 .. Len(t) : (t[i] + 1) * per <= Len(agents)

LEMMA SocketRow ==
  ASSUME NEW agents, NEW per, Dealing(agents, per), NEW t \in Seq(Nat), Seated(t, agents, per),
         NEW i \in 1 .. Len(t), NEW j \in 1 .. per
  PROVE  t[i] * per + j \in 1 .. Len(agents) /\ t[i] * per \in Nat
<1> DEFINE s == t[i]
<1>1. s \in Nat /\ per \in Nat /\ Len(agents) \in Nat
  BY Elements DEF Dealing
<1>2. (s + 1) * per <= Len(agents)
  BY DEF Seated
<1> HIDE DEF s
<1>3. (s + 1) * per = s * per + per /\ s * per \in Nat
  BY <1>1, Product
<1>4. s * per + j \in 1 .. Len(agents)
  BY <1>1, <1>2, <1>3
<1> QED
  BY <1>3, <1>4 DEF s

LEMMA SocketsRowed ==
  ASSUME NEW agents, NEW per, Dealing(agents, per), NEW t \in Seq(Nat), Seated(t, agents, per), t # <<>>
  PROVE  LET q == SocketRows(t, agents, per)
         IN /\ q \in Seq(Seq(Nat)) /\ Len(q) = Len(t)
            /\ \A i \in 1 .. Len(t) : Len(q[i]) = per /\ DOMAIN q[i] = 1 .. per
            /\ \A i \in 1 .. Len(t) : \A j \in 1 .. per : q[i][j] = agents[t[i] * per + j].domain
            /\ Strung(q, per)
<1> DEFINE row(i) == [j \in 1 .. per |-> agents[t[i] * per + j].domain]
           q == SocketRows(t, agents, per)
<1>1. Len(t) \in Nat \ {0} /\ per \in Nat \ {0}
  BY Elements DEF Dealing
<1>2. \A i \in 1 .. Len(t) : \A j \in 1 .. per : agents[t[i] * per + j].domain \in Nat
  BY SocketRow DEF Dealing
<1>3. \A i \in 1 .. Len(t) : /\ row(i) \in Seq(Nat) /\ Len(row(i)) = per /\ DOMAIN row(i) = 1 .. per
                             /\ \A j \in 1 .. per : row(i)[j] = agents[t[i] * per + j].domain
  BY <1>1, <1>2
<1>4. q = [i \in 1 .. Len(t) |-> row(i)]
  BY DEF SocketRows
<1> HIDE DEF row
<1>5. q \in Seq(Seq(Nat)) /\ Len(q) = Len(t) /\ \A i \in 1 .. Len(t) : q[i] = row(i)
  BY <1>1, <1>3, <1>4
<1> HIDE DEF q
<1>6. \A i \in 1 .. Len(t) : Len(q[i]) = per /\ DOMAIN q[i] = 1 .. per
  BY <1>3, <1>5
<1>7. Uniform(q, per)
  <2>1. per <= per /\ \A i \in 1 .. (Len(q) - 1) : i \in 1 .. Len(q)
    BY <1>1, <1>5
  <2> QED
    BY <1>5, <1>6, <2>1, Zenon DEF Uniform
<1>8. Strung(q, per)
  <2>1. Len(q) # 0 /\ per \in Nat
    BY <1>1, <1>5
  <2> QED
    BY <1>5, <1>7, <2>1, FlattenUniform
<1> QED
  BY <1>3, <1>5, <1>6, <1>8 DEF q

LEMMA SocketsApart ==
  ASSUME NEW agents, NEW per, Dealing(agents, per), NEW t \in Seq(Nat), Seated(t, agents, per), t # <<>>,
         NoRepeats(t)
  PROVE  NoRepeats(FlattenSeq(SocketRows(t, agents, per)))
<1> DEFINE q == SocketRows(t, agents, per)
           b == FlattenSeq(q)
<1>1. /\ q \in Seq(Seq(Nat)) /\ Len(q) = Len(t)
      /\ \A i \in 1 .. Len(t) : Len(q[i]) = per /\ DOMAIN q[i] = 1 .. per
      /\ \A i \in 1 .. Len(t) : \A j \in 1 .. per : q[i][j] = agents[t[i] * per + j].domain
      /\ Strung(q, per)
  BY SocketsRowed
<1>2. Len(t) \in Nat \ {0} /\ per \in Nat \ {0} /\ \A i \in 1 .. Len(t) : t[i] \in Nat
  BY Elements DEF Dealing
<1> HIDE DEF q
<1>3. Len(b) = Len(t) * per
  <2> DEFINE m == Len(t) - 1
  <2>1. m \in Nat /\ Len(t) = m + 1 /\ Len(t) \in 1 .. Len(t)
    BY <1>2
  <2>2. Len(b) = m * per + per
    BY <1>1, <2>1 DEF Strung
  <2> HIDE DEF m, b
  <2>3. (m + 1) * per = m * per + per
    BY <1>2, <2>1, Product
  <2> QED
    BY <2>1, <2>2, <2>3
<1>4. ASSUME NEW n \in 1 .. Len(b)
      PROVE  \E i \in 1 .. Len(t), j \in 1 .. per :
               n = (i - 1) * per + j /\ b[n] = agents[t[i] * per + j].domain
  <2>1. n \in Nat \ {0} /\ n <= Len(t) * per
    <3>1. Len(t) * per \in Nat
      BY <1>2
    <3> HIDE DEF b
    <3> QED
      BY <1>3, <3>1
  <2> DEFINE s == (n - 1) \div per
  <2>2. s \in Nat
    BY <1>2, <2>1, SocketPlace
  <2>3. PICK j \in 1 .. per : n = s * per + j
    BY <1>2, <2>1, SocketPlace
  <2> HIDE DEF s
  <2>4. s < Len(t)
    <3>1. SUFFICES ASSUME s >= Len(t) PROVE FALSE
      BY <1>2, <2>2
    <3>2. PICK k \in Nat : s = Len(t) + k
      <4>1. s - Len(t) \in Nat /\ s = Len(t) + (s - Len(t))
        BY <1>2, <2>2, <3>1
      <4> QED
        BY <4>1
    <3>3. (Len(t) + k) * per = Len(t) * per + k * per /\ Len(t) * per \in Nat /\ k * per \in Nat
      BY <1>2
    <3> DEFINE x == Len(t) * per
               y == k * per
    <3>4. n = x + y + j /\ n <= x /\ x \in Nat /\ y \in Nat
      BY <2>1, <2>3, <3>2, <3>3
    <3> HIDE DEF x, y
    <3> QED
      BY <3>4
  <2>5. s + 1 \in 1 .. Len(t) /\ (s + 1) - 1 = s
    BY <1>2, <2>2, <2>4
  <2>6. b[((s + 1) - 1) * per + j] = q[s + 1][j]
    BY <1>1, <2>5 DEF Strung
  <2> HIDE DEF b
  <2> QED
    BY <1>1, <2>3, <2>5, <2>6
<1>5. ASSUME NEW m \in 1 .. Len(b), NEW n \in 1 .. Len(b), b[m] = b[n]
      PROVE  m = n
  <2>1. PICK i \in 1 .. Len(t), j \in 1 .. per : m = (i - 1) * per + j /\ b[m] = agents[t[i] * per + j].domain
    BY <1>4
  <2>2. PICK k \in 1 .. Len(t), l \in 1 .. per : n = (k - 1) * per + l /\ b[n] = agents[t[k] * per + l].domain
    BY <1>4
  <2>3. t[i] * per + j \in 1 .. Len(agents) /\ t[k] * per + l \in 1 .. Len(agents)
    BY SocketRow
  <2> HIDE DEF b
  <2>4. t[i] * per + j = t[k] * per + l
    BY <1>5, <2>1, <2>2, <2>3 DEF Dealing
  <2> DEFINE x == t[i]
             y == t[k]
             u == j - 1
             v == l - 1
  <2>5. x \in Nat /\ y \in Nat /\ u \in Nat /\ v \in Nat /\ u < per /\ v < per /\ per \in Nat
    BY <1>2
  <2>6. x * per + u = y * per + v
    <3>1. t[i] * per \in Nat /\ t[k] * per \in Nat
      BY SocketRow
    <3>2. \A a, c \in Nat : a + j = c + l => a + (j - 1) = c + (l - 1)
      OBVIOUS
    <3> QED
      BY <2>4, <3>1, <3>2, Zenon
  <2> HIDE DEF x, y, u, v
  <2>7. x = y /\ u = v
    BY <2>5, <2>6, Apart
  <2>8. i = k
    BY <2>7 DEF NoRepeats, x, y
  <2>9. j = l
    BY <2>7 DEF u, v
  <2> QED
    BY <2>1, <2>2, <2>8, <2>9
<1> QED
  BY <1>5 DEF NoRepeats, q

LEMMA SocketsNamed ==
  ASSUME NEW agents, NEW per, Dealing(agents, per), NEW t \in Seq(Nat), Seated(t, agents, per), t # <<>>
  PROVE  /\ FlattenSeq(SocketRows(t, agents, per)) \in Seq(Nat)
         /\ ToSet(FlattenSeq(SocketRows(t, agents, per)))
              = {agents[k].domain : k \in {h \in DOMAIN agents : agents[h].socket \in ToSet(t)}}
<1> DEFINE q == SocketRows(t, agents, per)
           D == {agents[k].domain : k \in {h \in DOMAIN agents : agents[h].socket \in ToSet(t)}}
<1>1. /\ q \in Seq(Seq(Nat)) /\ Len(q) = Len(t)
      /\ \A i \in 1 .. Len(t) : Len(q[i]) = per /\ DOMAIN q[i] = 1 .. per
      /\ \A i \in 1 .. Len(t) : \A j \in 1 .. per : q[i][j] = agents[t[i] * per + j].domain
  BY SocketsRowed
<1>2. per \in Nat \ {0} /\ DOMAIN t = 1 .. Len(t) /\ \A i \in 1 .. Len(t) : t[i] \in Nat
  BY Elements DEF Dealing
<1> HIDE DEF q
<1>3. FlattenSeq(q) \in Seq(Nat) /\ ToSet(FlattenSeq(q)) = Within(q)
  BY <1>1, FlattenType, FlattenHolds
<1>4. ASSUME NEW x \in Within(q)
      PROVE  x \in D
  <2>1. PICK i \in 1 .. Len(t) : x \in ToSet(q[i])
    BY <1>1 DEF Within
  <2>2. PICK j \in 1 .. per : x = q[i][j]
    BY <1>1, <2>1 DEF ToSet
  <2> DEFINE k == t[i] * per + j
  <2>3. x = agents[k].domain
    BY <1>1, <2>2
  <2>4. k \in 1 .. Len(agents)
    BY SocketRow
  <2>5. t[i] = (k - 1) \div per
    <3>1. k \in Nat \ {0}
      BY <2>4
    <3> QED
      BY <1>2, <3>1, SocketPlace
  <2> HIDE DEF k
  <2>6. agents[k].socket = t[i] /\ k \in DOMAIN agents
    BY <2>4, <2>5 DEF Dealing
  <2>7. t[i] \in ToSet(t)
    BY <1>2 DEF ToSet
  <2> QED
    BY <2>3, <2>6, <2>7
<1>5. ASSUME NEW k \in DOMAIN agents, agents[k].socket \in ToSet(t)
      PROVE  agents[k].domain \in Within(q)
  <2>1. k \in 1 .. Len(agents) /\ agents[k].socket = (k - 1) \div per /\ Len(agents) \in Nat
    BY DEF Dealing
  <2>2. PICK i \in 1 .. Len(t) : agents[k].socket = t[i]
    BY <1>2, <1>5 DEF ToSet
  <2>3. PICK j \in 1 .. per : k = t[i] * per + j
    <3>1. k \in Nat \ {0}
      BY <2>1
    <3>2. \E j \in 1 .. per : k = ((k - 1) \div per) * per + j
      BY <1>2, <3>1, SocketPlace
    <3> QED
      BY <2>1, <2>2, <3>2
  <2>4. agents[k].domain = q[i][j] /\ j \in DOMAIN q[i]
    BY <1>1, <2>3
  <2>5. agents[k].domain \in ToSet(q[i])
    BY <2>4 DEF ToSet
  <2> QED
    BY <1>1, <2>5 DEF Within
<1> QED
  BY <1>3, <1>4, <1>5 DEF q

\* How many agents the utility expects on a socket.
PerSocket(space) == IF space \in CpuSpaces THEN CpuPerSocket ELSE DevPerSocket

LEMMA AgentsAreDealt == ASSUME NEW space PROVE Dealing(SpaceAgents(space), PerSocket(space))
<1>1. CASE space \in CpuSpaces
  <2>1. Len(CpuAgents) \in Nat /\ DOMAIN CpuAgents = 1 .. Len(CpuAgents)
    BY AgentsAssumption, Elements
  <2>2. Dealing(CpuAgents, CpuPerSocket)
    BY <2>1, AgentsAssumption, CpuAgentIs DEF Dealing
  <2> QED
    BY <1>1, <2>2 DEF SpaceAgents, PerSocket
<1>2. CASE space \notin CpuSpaces
  <2>1. Len(DevAgents) \in Nat /\ DOMAIN DevAgents = 1 .. Len(DevAgents)
    BY AgentsAssumption, Elements
  <2>2. Dealing(DevAgents, DevPerSocket)
    BY <2>1, AgentsAssumption, DevAgentIs DEF Dealing
  <2> QED
    BY <1>2, <2>2 DEF SpaceAgents, PerSocket
<1> QED
  BY <1>1, <1>2

-----------------------------------------------------------------------------
(* The option --dump *)

\* The domains that the option asks for.
Asked(o) ==
  IF o.domains # <<>> THEN NamedBy(o.domains)
  ELSE {SpaceAgents(o.space)[i].domain :
          i \in {k \in DOMAIN SpaceAgents(o.space) : SpaceAgents(o.space)[k].socket \in NamedBy(o.sockets)}}

\* A list of domains that names what the option asks for, each once.
Names(domains, o) == domains \in Seq(Nat) /\ NoRepeats(domains) /\ ToSet(domains) = Asked(o)

\* What the library is asked to dump for it.
Request(o, d) ==
  /\ Names(d.domains, o)
  /\ d.space = o.space /\ d.offset = o.offset /\ d.length = o.length
  /\ d.width = o.width /\ d.le = o.le

\* The domains of the sockets in a table, and all of them in a row.
TablesOf(t, space) ==
  [i \in 1 .. Len(t) |-> get_socket_domain_ids(t[i], SpaceAgents(space), PerSocket(space))]
InRow(of) == FlattenSeq([i \in 1 .. Len(of) |-> of[i].tab])

LEMMA SocketsAsked ==
  ASSUME NEW o, NEW t \in Seq(Nat), t # <<>>, NoRepeats(t), ToSet(t) = NamedBy(o.sockets), o.domains = <<>>,
         \A i \in DOMAIN TablesOf(t, o.space) : TablesOf(t, o.space)[i].ok
  PROVE  Names(InRow(TablesOf(t, o.space)), o)
<1> DEFINE agents == SpaceAgents(o.space)
           per == PerSocket(o.space)
           of == TablesOf(t, o.space)
<1>a. Len(of) = Len(t) /\ \A i \in 1 .. Len(t) : of[i].ok /\ of[i] = get_socket_domain_ids(t[i], agents, per)
  <2>1. DOMAIN of = 1 .. Len(t) /\ Len(t) \in Nat
    BY Elements DEF TablesOf
  <2>2. \A i \in 1 .. Len(t) : of[i] = get_socket_domain_ids(t[i], agents, per)
    BY DEF TablesOf
  <2>3. Len(of) = Len(t)
    BY <2>1 DEF TablesOf
  <2> HIDE DEF of
  <2> QED
    BY <2>1, <2>2, <2>3 DEF of
<1>1. Dealing(agents, per) /\ Len(t) \in Nat
  BY AgentsAreDealt, Elements
<1> HIDE DEF agents, per, of
<1>2. ASSUME NEW i \in 1 .. Len(t)
      PROVE  (t[i] + 1) * per <= Len(agents) /\ of[i].tab = [j \in 1 .. per |-> agents[t[i] * per + j].domain]
  <2>1. of[i].ok /\ of[i] = get_socket_domain_ids(t[i], agents, per)
    BY <1>a
  <2>2. ~((t[i] + 1) * per > Len(agents))
    BY <2>1 DEF get_socket_domain_ids, Gone, Table
  <2> DEFINE row == [j \in 1 .. per |-> agents[t[i] * per + j].domain]
  <2>3. of[i].tab = row
    <3>1. of[i] = Table(row)
      BY <2>1, <2>2 DEF get_socket_domain_ids
    <3> HIDE DEF row
    <3> QED
      BY <3>1 DEF Table
  <2>4. (t[i] + 1) * per \in Nat /\ Len(agents) \in Nat
    <3>1. t[i] \in Nat /\ per \in Nat /\ Len(agents) \in Nat
      BY <1>1, Elements DEF Dealing
    <3> QED
      BY <3>1, Product
  <2> QED
    BY <2>2, <2>3, <2>4
<1>3. Seated(t, agents, per)
  BY <1>2 DEF Seated
<1>5. InRow(of) = FlattenSeq(SocketRows(t, agents, per))
  <2>1. [i \in 1 .. Len(t) |-> of[i].tab] = SocketRows(t, agents, per)
    BY <1>2, Zenon DEF SocketRows
  <2> QED
    BY <1>a, <2>1 DEF InRow
<1> DEFINE domains == FlattenSeq(SocketRows(t, agents, per))
<1>6. domains \in Seq(Nat) /\ ToSet(domains) = {agents[k].domain : k \in {h \in DOMAIN agents : agents[h].socket \in ToSet(t)}}
  BY <1>1, <1>3, SocketsNamed
<1>7. NoRepeats(domains)
  BY <1>1, <1>3, SocketsApart
<1>8. ToSet(domains) = Asked(o)
  BY <1>6 DEF Asked, agents
<1> QED
  BY <1>5, <1>6, <1>7, <1>8 DEF Names, of

LEMMA OptionAsks ==
  ASSUME NEW o \in Dumps, dump_mmio_regs(o).ret = "ok"
  PROVE  \E d : Request(o, d) /\ dump_mmio_regs(o) = mmio_dump(d)
<1> DEFINE sockets == Parsed(o.sockets, MAX_DOMAIN_IDS, MAX_DOMAINS)
           domains == Parsed(o.domains, MAX_DOMAIN_IDS, MAX_DOMAINS)
           cpu == o.space \in CpuSpaces
           of == [i \in 1 .. Len(sockets.tab) |->
                    IF cpu THEN get_socket_domain_ids(sockets.tab[i], CpuAgents, CpuPerSocket)
                    ELSE get_socket_domain_ids(sockets.tab[i], DevAgents, DevPerSocket)]
           named == IF domains.tab # <<>> THEN domains
                    ELSE [ok |-> \A i \in DOMAIN of : of[i].ok,
                          tab |-> FlattenSeq([i \in 1 .. Len(of) |-> of[i].tab])]
           d == [domains |-> named.tab, space |-> o.space, offset |-> o.offset,
                 length |-> o.length, width |-> o.width, le |-> o.le]
<1>1. /\ sockets.ok /\ domains.ok /\ named.ok /\ dump_mmio_regs(o) = mmio_dump(d)
      /\ ~(sockets.tab = <<>> /\ domains.tab = <<>>)
  BY DEF dump_mmio_regs, Out
<1>2. o.sockets \in Seq(Token) /\ o.domains \in Seq(Token)
  BY InputsAssumption
<1>3. /\ Filled(domains, NamedBy(o.domains)) /\ (domains.tab = <<>> <=> o.domains = <<>>)
      /\ Filled(sockets, NamedBy(o.sockets))
  <2> HIDE DEF named
  <2> QED
    BY <1>1, <1>2, ParsedIs
<1>4. of = TablesOf(sockets.tab, o.space)
  <2> HIDE DEF sockets
  <2> QED
    BY DEF SpaceAgents, PerSocket, TablesOf
<1> HIDE DEF domains, sockets, of
<1>5. Names(named.tab, o)
  <2>1. CASE domains.tab # <<>>
    <3>1. named = domains /\ o.domains # <<>>
      BY <1>3, <2>1
    <3> HIDE DEF named
    <3> QED
      BY <1>1, <1>3, <3>1 DEF Filled, NoRepeats, Asked, Names
  <2>2. CASE domains.tab = <<>>
    <3>1. named.tab = InRow(of) /\ \A i \in DOMAIN of : of[i].ok
      BY <1>1, <2>2 DEF InRow
    <3>2. sockets.tab # <<>> /\ o.domains = <<>>
      BY <1>1, <1>3, <2>2
    <3>3. sockets.tab \in Seq(Nat) /\ NoRepeats(sockets.tab) /\ ToSet(sockets.tab) = NamedBy(o.sockets)
      <4> HIDE DEF named
      <4> QED
        BY <1>1, <1>3 DEF Filled, NoRepeats
    <3> DEFINE t == sockets.tab
    <3> HIDE DEF named, t
    <3>4. /\ t \in Seq(Nat) /\ t # <<>> /\ NoRepeats(t) /\ ToSet(t) = NamedBy(o.sockets) /\ of = TablesOf(t, o.space)
          /\ \A i \in DOMAIN TablesOf(t, o.space) : TablesOf(t, o.space)[i].ok
      BY <1>4, <3>1, <3>2, <3>3 DEF t
    <3>5. Names(InRow(TablesOf(t, o.space)), o)
      BY <3>2, <3>4, SocketsAsked
    <3> QED
      BY <3>1, <3>4, <3>5
  <2> QED
    BY <2>1, <2>2
<1> HIDE DEF named
<1>6. Request(o, d)
  BY <1>5 DEF Request
<1> QED
  BY <1>1, <1>6

\* A sequence without repeats is as long as its set is large.
LEMMA CountedOnce ==
  ASSUME NEW S, NEW s \in Seq(S), NoRepeats(s)
  PROVE  Cardinality(ToSet(s)) = Len(s)
<1>1. Len(s) \in Nat /\ DOMAIN s = 1 .. Len(s)
  BY Elements
<1>2. s \in [1 .. Len(s) -> ToSet(s)]
  BY <1>1 DEF ToSet
<1>3. s \in Bijection(1 .. Len(s), ToSet(s))
  BY <1>1, <1>2 DEF Bijection, Injection, Surjection, ToSet, NoRepeats, IsInjective
<1>4. ExistsBijection(1 .. Len(s), ToSet(s))
  BY <1>3 DEF ExistsBijection
<1> QED
  BY <1>1, <1>4, FS_CountingElements

LEMMA DumpExactHolds ==
  ASSUME DumpsTold
  PROVE  DumpExact
<1> SUFFICES ASSUME last.op = "dump", last.ret = "ok"
             PROVE  DumpExact
  BY DEF DumpExact
<1> DEFINE o == last.arg
           got == last.got
<1>1. o \in Dumps /\ dump_mmio_regs(o).ret = "ok" /\ got = dump_mmio_regs(o).shown
  BY DEF DumpsTold
<1> HIDE DEF o, got
<1>2. o.offset \in Nat /\ o.length \in Nat /\ o.le \in BOOLEAN
  BY <1>1, InputsAssumption
<1>3. PICK d : Request(o, d) /\ dump_mmio_regs(o) = mmio_dump(d)
  BY <1>1, OptionAsks
<1> DEFINE D == d.domains
<1>4. /\ D \in Seq(Nat) /\ NoRepeats(D) /\ ToSet(D) = Asked(o) /\ d.space = o.space
      /\ d.offset = o.offset /\ d.length = o.length /\ d.width = o.width /\ d.le = o.le
  BY <1>3 DEF Request, Names
<1>5. /\ Len(got) = Len(D) /\ DOMAIN got = 1 .. Len(D)
      /\ \A n \in 1 .. Len(D) : LineExact(d, D[n], got[n])
  <2>1. mmio_dump(d).ret = "ok" /\ got = mmio_dump(d).shown
    BY <1>1, <1>3
  <2>2. d.offset \in Nat /\ d.length \in Nat /\ d.le \in BOOLEAN
    BY <1>2, <1>4
  <2> QED
    BY <1>4, <2>1, <2>2, DumpShown
<1> HIDE DEF D
<1>6. Len(D) \in Nat /\ DOMAIN D = 1 .. Len(D)
  BY <1>4, Elements
<1>7. \A n \in 1 .. Len(D) : got[n].domain = D[n]
  BY <1>5 DEF LineExact
<1>8. {got[n].domain : n \in DOMAIN got} = Asked(o)
  BY <1>4, <1>5, <1>6, <1>7 DEF ToSet
<1>9. Len(got) = Cardinality(Asked(o))
  BY <1>4, <1>5, CountedOnce
<1> DEFINE agents == IF o.space \in CpuSpaces THEN CpuAgents ELSE DevAgents
           size(n) == Pages(agents[First(agents, got[n].domain)], o.space) * PAGE_SIZE
           from == o.offset * o.width
           to(n) == IF o.length = 0 THEN size(n) - (size(n) % o.width) ELSE from + o.length * o.width
           b(n) == Bytes(got[n].lines)
           e(k) == (k - 1) \div o.width
<1>10. ASSUME NEW n \in DOMAIN got
       PROVE  /\ to(n) <= size(n) /\ Len(b(n)) = to(n) - from
              /\ \A k \in DOMAIN b(n) :
                   b(n)[k] = from + (IF o.le THEN k - 1 ELSE e(k) * o.width + (e(k) + 1) * o.width - k)
  <2>1. LineExact(d, D[n], got[n]) /\ got[n].domain = D[n]
    BY <1>5, <1>7
  <2>2. SpaceAgents(d.space) = agents
    BY <1>4 DEF SpaceAgents
  <2>3. ShownExactly(got[n].lines, size(n), o.offset, o.length, o.width, o.le)
    <3> HIDE DEF agents
    <3> QED
      BY <1>4, <2>1, <2>2 DEF LineExact
  <2> HIDE DEF size
  <2> QED
    BY <2>3 DEF ShownExactly, ByteAt
<1>11. Asked(o) = IF o.domains # <<>> THEN UNION {ToSet(Upwards(o.domains[n])) : n \in DOMAIN o.domains}
                  ELSE {agents[i].domain : i \in {k \in DOMAIN agents :
                          \E n \in DOMAIN o.sockets : agents[k].socket \in ToSet(Upwards(o.sockets[n]))}}
  <2>1. \A x : x \in NamedBy(o.sockets) <=> \E n \in DOMAIN o.sockets : x \in ToSet(Upwards(o.sockets[n]))
    BY DEF NamedBy
  <2>2. SpaceAgents(o.space) = agents
    BY DEF SpaceAgents
  <2> HIDE DEF agents
  <2>3. {agents[i].domain : i \in {k \in DOMAIN agents : agents[k].socket \in NamedBy(o.sockets)}}
          = {agents[i].domain : i \in {k \in DOMAIN agents :
               \E n \in DOMAIN o.sockets : agents[k].socket \in ToSet(Upwards(o.sockets[n]))}}
    BY <2>1
  <2> QED
    BY <2>2, <2>3 DEF Asked, NamedBy
<1> HIDE DEF size, to, b, e
<1> QED
  BY <1>8, <1>9, <1>10, <1>11 DEF DumpExact, o, got, size, to, b, e

LEMMA DumpsNext ==
  ASSUME mrrm \in Nat, DumpsTold, [Next]_vars
  PROVE  DumpsTold'
<1>1. ASSUME NEW op, NEW arg, NEW ret, NEW fault, NEW got, Call(op, arg, ret, fault, got),
             op \notin {"dump", "dump_rmids"}
      PROVE  DumpsTold'
  <2>1. last'.op = op
    BY <1>1 DEF Call
  <2> QED
    BY <1>1, <2>1 DEF DumpsTold
<1>2. ASSUME NEW s \in MbaSets, mmio_mba_set(s)
      PROVE  DumpsTold'
  <2>1. \E ret, fault, got : Call("mba_set", s, ret, fault, got)
    BY <1>2 DEF mmio_mba_set
  <2> QED
    BY <1>1, <2>1
<1>3. ASSUME NEW s \in MbaGets, mmio_mba_get(s)
      PROVE  DumpsTold'
  <2>1. \E ret, fault, got : Call("mba_get", s, ret, fault, got)
    BY <1>3 DEF mmio_mba_get
  <2> QED
    BY <1>1, <2>1
<1>4. ASSUME NEW ca \in CatSets, mmio_l3ca_set(ca)
      PROVE  DumpsTold'
  <2>1. \E ret, fault, got : Call("l3ca_set", ca, ret, fault, got)
    BY <1>4 DEF mmio_l3ca_set
  <2> QED
    BY <1>1, <2>1
<1>5. ASSUME NEW s \in CatGets, mmio_l3ca_get(s)
      PROVE  DumpsTold'
  <2>1. \E ret, fault, got : Call("l3ca_get", s, ret, fault, got)
    BY <1>5 DEF mmio_l3ca_get
  <2> QED
    BY <1>1, <2>1
<1>6. ASSUME mmio_alloc_reset
      PROVE  DumpsTold'
  <2>1. \E ret, fault : Call("reset", <<>>, ret, fault, <<>>)
    BY <1>6 DEF mmio_alloc_reset
  <2> QED
    BY <1>1, <2>1
<1>7. ASSUME NEW mode \in {0, 1}, mmio_set_mbm_mba_mode(mode)
      PROVE  DumpsTold'
  <2>1. \E ret, fault : Call("mode", mode, ret, fault, <<>>)
    BY <1>7 DEF mmio_set_mbm_mba_mode
  <2> QED
    BY <1>1, <2>1
<1>8. ASSUME NEW o \in Dumps, pqos_dump(o)
      PROVE  DumpsTold'
  <2> DEFINE r == dump_mmio_regs(o)
  <2>1. Call("dump", o, r.ret, FALSE, r.shown)
    BY <1>8 DEF pqos_dump
  <2>2. last'.op = "dump" /\ last'.arg = o /\ last'.ret = r.ret /\ last'.got = r.shown
    <3> HIDE DEF r
    <3> QED
      BY <2>1 DEF Call
  <2> QED
    BY <2>2 DEF DumpsTold
<1>9. ASSUME NEW o \in RmidDumps, pqos_dump_rmids(o)
      PROVE  DumpsTold'
  <2> DEFINE r == dump_rmid_regs(o)
  <2>1. Call("dump_rmids", o, r.ret, FALSE, r.shown)
    BY <1>9 DEF pqos_dump_rmids
  <2>2. \/ r.shown = <<>>
        \/ o.type \in CounterTypes /\ r.shown \in Seq(RmidLines(o.type, o.upscale))
    BY RmidOptionShown
  <2> HIDE DEF r
  <2>3. last'.op = "dump_rmids" /\ last'.arg = o /\ last'.got = r.shown
    BY <2>1 DEF Call
  <2> QED
    BY <2>2, <2>3 DEF DumpsTold
<1>10. ASSUME print_info
       PROVE  DumpsTold'
  <2>1. \E ret, fault, got : Call("dump_info", <<>>, ret, fault, got)
    BY <1>10 DEF print_info
  <2> QED
    BY <1>1, <2>1
<1>11. ASSUME UNCHANGED vars
       PROVE  DumpsTold'
  <2>1. last' = last
    BY <1>11 DEF vars
  <2> QED
    BY <2>1 DEF DumpsTold
<1>12. Finished => UNCHANGED vars
  BY DEF Finished
<1> QED
  BY <1>2, <1>3, <1>4, <1>5, <1>6, <1>7, <1>8, <1>9, <1>10, <1>11, <1>12 DEF Next

-----------------------------------------------------------------------------
(* The theorems *)

LEMMA SoundInit ==
  ASSUME Init
  PROVE  RegistersSound
<1>1. mba \in Words
  <2>1. MBA_MAX_BW \in 0 .. MBA_MAX_BW
    BY InputsAssumption
  <2> QED
    BY <2>1 DEF Init, Words
<1>2. Masks(cbm)
  <2>1. \A i \in CatAgents : FullMask(i) \in 0 .. FullMask(i)
    BY InputsAssumption
  <2> QED
    BY <2>1 DEF Init, Masks
<1>3. Agree(cbm)
  <2>1. \A i \in CatAgents, c \in Classes : \A a \in cbm_pages(DevAgents[i], c) :
          a \in CbmAddrs(i)
    BY DEF CbmAddrs
  <2>2. \A i \in CatAgents : \A a \in CbmAddrs(i) : cbm[i][a] = FullMask(i)
    BY DEF Init
  <2> QED
    BY <2>1, <2>2, FirstPage DEF Agree, get_iol3_cbm_clos_v1
<1>4. StateSound
  BY <1>1, <1>2, <1>3, StateIs, FaultsAssumption DEF Init
<1>5. ReportedIsSet /\ ResetRestores
  BY DEF Init, ReportedIsSet, ResetRestores
<1> QED
  BY <1>4, <1>5 DEF StateSound, RegistersSound

\* A step that changes nothing.
LEMMA Stutters ==
  ASSUME RegistersSound, UNCHANGED vars
  PROVE  RegistersSound'
<1>1. UNCHANGED mrrm /\ UNCHANGED mba /\ UNCHANGED cbm /\ UNCHANGED tme /\ UNCHANGED calls
      /\ UNCHANGED last
  BY DEF vars
<1>2. StateSound
  BY DEF StateSound, RegistersSound
<1>3. StateSound'
  BY <1>1, <1>2, StateIs, StateIsNext
<1>4. ReportedIsSet'
  <2>1. ReportedIsSet
    BY DEF RegistersSound
  <2> QED
    BY <1>1, <2>1 DEF ReportedIsSet
<1>5. ResetRestores'
  <2>1. ResetRestores
    BY DEF RegistersSound
  <2>2. Regions' = Regions
    BY <1>1 DEF Regions, mmio_get_num_mem_regions
  <2> QED
    BY <1>1, <2>1, <2>2 DEF ResetRestores, get_mba_bw_region_clos_v1, get_iol3_cbm_clos_v1
<1> QED
  BY <1>3, <1>4, <1>5 DEF StateSound, RegistersSound

LEMMA SoundNext ==
  ASSUME RegistersSound, [Next]_vars
  PROVE  RegistersSound' /\ [BandwidthStep /\ CacheStep]_vars
<1>1. StateSound
  BY DEF StateSound, RegistersSound
<1>2. ASSUME UNCHANGED vars
      PROVE  RegistersSound' /\ [BandwidthStep /\ CacheStep]_vars
  BY <1>2, Stutters
<1> DEFINE Goal == StateSound' /\ ReportedIsSet' /\ ResetRestores' /\ BandwidthStep /\ CacheStep
<1>3. ASSUME NEW s \in MbaSets, mmio_mba_set(s)
      PROVE  Goal
  BY <1>1, <1>3, MbaSetSound
<1>4. ASSUME NEW s \in MbaGets, mmio_mba_get(s)
      PROVE  Goal
  <2>1. UNCHANGED <<mba, cbm, tme>>
    BY <1>4 DEF mmio_mba_get
  <2>2. \E ret, fault, got : Call("mba_get", s, ret, fault, got)
    BY <1>4 DEF mmio_mba_get
  <2> QED
    BY <1>1, <2>1, <2>2, ReadSound
<1>5. ASSUME NEW ca \in CatSets, mmio_l3ca_set(ca)
      PROVE  Goal
  BY <1>1, <1>5, CatSetSound
<1>6. ASSUME NEW s \in CatGets, mmio_l3ca_get(s)
      PROVE  Goal
  <2>1. UNCHANGED <<mba, cbm, tme>>
    BY <1>6 DEF mmio_l3ca_get
  <2>2. \E ret, fault, got : Call("l3ca_get", s, ret, fault, got)
    BY <1>6 DEF mmio_l3ca_get
  <2> QED
    BY <1>1, <2>1, <2>2, ReadSound
<1>7. ASSUME mmio_alloc_reset
      PROVE  Goal
  BY <1>1, <1>7, ResetSound
<1>8. ASSUME NEW mode \in {0, 1}, mmio_set_mbm_mba_mode(mode)
      PROVE  Goal
  BY <1>1, <1>8, ModeSound
<1>9. ASSUME NEW o \in Dumps, pqos_dump(o)
      PROVE  Goal
  BY <1>1, <1>9, ReadSound DEF pqos_dump
<1>10. ASSUME NEW o \in RmidDumps, pqos_dump_rmids(o)
       PROVE  Goal
  BY <1>1, <1>10, ReadSound DEF pqos_dump_rmids
<1>11. ASSUME print_info
       PROVE  Goal
  BY <1>1, <1>11, ReadSound DEF print_info
<1>12. Finished => UNCHANGED vars
  BY DEF Finished
<1>13. Goal => RegistersSound' /\ [BandwidthStep /\ CacheStep]_vars
  BY DEF StateSound, RegistersSound
<1> QED
  BY <1>2, <1>3, <1>4, <1>5, <1>6, <1>7, <1>8, <1>9, <1>10, <1>11, <1>12, <1>13 DEF Next

\* What mmio_allocation.c reports of the registers is so, whatever mappings
\* fail: reported limits are set, the first page of a cache block stands for
\* all, and a reset that returns OK restored every class of every agent.
THEOREM RegistersAreSound == Spec => []RegistersSound
<1>1. Init => RegistersSound
  BY SoundInit
<1>2. RegistersSound /\ [Next]_vars => RegistersSound'
  BY SoundNext
<1> QED
  BY <1>1, <1>2, PTL DEF Spec

\* mmio_mba_set() and mmio_l3ca_set() change what they were asked to change and
\* nothing else: a refusal nothing, a success every lane to the last value asked
\* for it, an interrupted call each lane to a value asked for it or not at all.
THEOREM SetsAreExact == Spec => SetsExact
<1>1. RegistersSound /\ [Next]_vars => [BandwidthStep /\ CacheStep]_vars
  BY SoundNext
<1> QED
  BY <1>1, RegistersAreSound, PTL DEF Spec, SetsExact

\* A dump of --dump or --dump-rmid shows what was asked for, each once, and no
\* counter in the place of another, for every layout of agents, sockets and
\* regions and for every list that the user types.
THEOREM DumpsAreExact == Spec => []DumpsExact
<1>1. Init => DumpsTold
  BY DEF Init, DumpsTold
<1>2. RegistersSound /\ DumpsTold /\ [Next]_vars => DumpsTold'
  BY MrrmNat, DumpsNext DEF RegistersSound, StateSound
<1>3. DumpsTold => DumpsExact
  BY DumpExactHolds, CountersApartHolds DEF DumpsExact
<1> QED
  BY <1>1, <1>2, <1>3, RegistersAreSound, PTL DEF Spec

=============================================================================
