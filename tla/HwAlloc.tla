------------------------------ MODULE HwAlloc ------------------------------
(***************************************************************************)
(* Allocation through the MSR interface: lib/allocation.c, the reset of    *)
(* lib/allocation_common.c and the capability updates of lib/cap.c.        *)
(*                                                                         *)
(* The state is what outlives a process, the registers (class of each      *)
(* core, definition of each class, feature enable bits, class of each I/O  *)
(* channel), and what the library caches of them in its capability         *)
(* structures.  Every API call holds the API lock, so a call is one step;  *)
(* only the reset is cut at the helpers it calls, because a process may    *)
(* die, or a register access fail, between two of them.                    *)
(***************************************************************************)
EXTENDS Naturals, FiniteSets

CONSTANTS
  Core,       \* logical cores
  Tech,       \* technologies the platform has, a subset of AllTech
  Dom,        \* Dom[t][c]: id of the resource of technology t core c uses
  NumClos,    \* NumClos[t]: number of class registers of technology t
  Supported,  \* features the platform has, a subset of Feature
  Chan,       \* I/O channels that can be tagged with a class
  Def,        \* definitions a class may have: way masks, throttling values
  Full,       \* the definition that gives access to the entire resource
  MaxCa,      \* bound on the number of classes in one set call
  Requests,   \* feature configurations an application asks a reset for
  Faults      \* the circumstances a run admits, a subset of FaultKinds

AllTech == {"L3", "L2", "MBA", "SMBA"}

Feature == {"l3cdp", "l3iordt", "l2cdp", "mba40"}

TechOf(f) == CASE f \in {"l3cdp", "l3iordt"} -> "L3"
               [] f = "l2cdp" -> "L2"
               [] f = "mba40" -> "MBA"

CdpOf(t) == CASE t = "L3" -> "l3cdp" [] t = "L2" -> "l2cdp" [] OTHER -> "none"

(***************************************************************************)
(* "msr"   : reading or writing a register fails (a core went offline)     *)
(* "mmio"  : mapping the table of an I/O channel fails                     *)
(* "mem"   : there is no memory for a list of resource ids                 *)
(* "crash" : the process dies inside a call                                *)
(***************************************************************************)
FaultKinds == {"msr", "mmio", "mem", "crash"}

Ids(t) == {Dom[t][c] : c \in Core}

\* A class register: technology, resource id and index.
Slot == UNION {{t} \X Ids(t) \X (0 .. NumClos[t] - 1) : t \in Tech}

\* A feature enable bit: feature and resource id.
Knob == UNION {{f} \X Ids(TechOf(f)) : f \in Supported}

Class == {0} \cup UNION {0 .. NumClos[t] - 1 : t \in AllTech}

Setting == {"on", "off"}

Request == [Feature -> {"ON", "OFF", "ANY"}]

ASSUME TechAssumption ==
  /\ Tech \subseteq AllTech
  /\ NumClos \in [AllTech -> Nat]
  /\ \A t \in AllTech : NumClos[t] > 0 <=> t \in Tech

\* The note above hw_alloc_assoc_unused(): "our assumption that mba id and
\* cat ids are same for a core".  An L2 cluster lies in one L3.
ASSUME TopologyAssumption ==
  /\ Dom \in [AllTech -> [Core -> Nat]]
  /\ Dom["MBA"] = Dom["L3"] /\ Dom["SMBA"] = Dom["L3"]
  /\ \A c, d \in Core : Dom["L2"][c] = Dom["L2"][d] => Dom["L3"][c] = Dom["L3"][d]

ASSUME FeatureAssumption ==
  /\ Supported \subseteq Feature
  /\ \A f \in Supported : TechOf(f) \in Tech
  /\ Requests \subseteq Request

\* CDP pairs the class registers.
ASSUME EvenAssumption == \A f \in Supported \cap {"l3cdp", "l2cdp"} : NumClos[TechOf(f)] % 2 = 0

ASSUME DefAssumption == Full \in Def /\ MaxCa \in Nat /\ Faults \subseteq FaultKinds

VARIABLES
  assoc,   \* class field of the PQR_ASSOC register of each core
  clos,    \* the class registers
  feat,    \* the feature enable bits
  chan,    \* class each I/O channel is tagged with
  cap,     \* cached capabilities: cdp_on, iordt_on, mba40_on
  phase,   \* "off": no library; "idle"; or the part of a reset that is next
  req,     \* the configuration the reset in progress was asked for
  call     \* the last API call that returned, and what it returned

vars == <<assoc, clos, feat, chan, cap, phase, req, call>>

hw == <<assoc, clos, feat, chan>>

\* The parts of alloc_reset() in order.
NextPhase(p) ==
  CASE p = "L3" -> "L2"
    [] p = "L2" -> "MBA"
    [] p = "MBA" -> "SMBA"
    [] p = "SMBA" -> "assoc"
    [] p = "assoc" -> "l3cdp"
    [] p = "l3cdp" -> "l3iordt"
    [] p = "l3iordt" -> "l2cdp"
    [] p = "l2cdp" -> "mba40"
    [] p = "mba40" -> "idle"

Phase == AllTech \cup Feature \cup {"off", "idle", "assoc"}

Call == [op : {"none", "init", "fini", "assoc_set", "assign", "release", "set",
               "probe", "assoc_channel", "reset"},
         ret : {"OK", "PARAM", "RESOURCE", "ERROR"},
         cores : SUBSET Core, tech : SUBSET AllTech, class : Class]

Any == [f \in Feature |-> "ANY"]

TypeOK ==
  /\ assoc \in [Core -> Class]
  /\ clos \in [Slot -> Def]
  /\ feat \in [Knob -> Setting]
  /\ chan \in [Chan -> Class]
  /\ cap \in [Supported -> Setting]
  /\ phase \in Phase
  /\ req \in Request
  /\ call \in Call

\* The registers after power on.  The tables of the I/O channels are not
\* specified: they are memory another program may have written.
Init ==
  /\ assoc = [c \in Core |-> 0]
  /\ clos = [s \in Slot |-> Full]
  /\ feat = [k \in Knob |-> "off"]
  /\ chan \in [Chan -> Class]
  /\ cap = [f \in Supported |-> "off"]
  /\ phase = "off"
  /\ req = Any
  /\ call = [op |-> "none", ret |-> "OK", cores |-> {}, tech |-> {}, class |-> 0]

-----------------------------------------------------------------------------
\* How a call returns when only its result is of interest.
Return(op, ret) ==
  call' = [op |-> op, ret |-> ret, cores |-> {}, tech |-> {}, class |-> 0]

Can(fault) == fault \in Faults

CapCdp(t) == CdpOf(t) \in Supported /\ cap[CdpOf(t)] = "on"

(***************************************************************************)
(* A definition named M_... is a mutated form of the one after it: a bug   *)
(* the code could have had, used to show that a property would notice.     *)
(***************************************************************************)

\* pqos_l3ca_get_clos_num() and its siblings: num_classes of the capability,
\* which is halved while CDP is on.
NumClasses(t) ==
  IF t \notin Tech THEN 0
  ELSE IF CapCdp(t) THEN NumClos[t] \div 2 ELSE NumClos[t]

\* The registers of one class, and the class a register belongs to.
ClassOf(t, m) == IF CapCdp(t) THEN m \div 2 ELSE m

\* What hw_l3ca_get(), hw_l2ca_get() and hw_mba_get() return for class k.
GetClos(t, i, k) ==
  IF CapCdp(t) THEN <<clos[<<t, i, 2 * k>>], clos[<<t, i, 2 * k + 1>>]>>
               ELSE <<clos[<<t, i, k>>]>>

\* hw_alloc_assoc_write() for every core of W.
hw_alloc_assoc_write(W, k) ==
  assoc' = [c \in Core |-> IF c \in W THEN k ELSE assoc[c]]

-----------------------------------------------------------------------------
(* Searching for a class no core uses *)

\* hw_alloc_assoc_unused(): "highest CLOS number for requested technologies",
\* the chain of comparisons of the code, 0 standing for none yet.
NumClosReq(T) ==
  LET lower(n, t) == IF t \in T /\ (n = 0 \/ n > NumClasses(t))
                     THEN NumClasses(t) ELSE n
      l3 == IF "L3" \in T THEN NumClasses("L3") ELSE 0
  IN lower(lower(lower(l3, "L2"), "MBA"), "SMBA")

\* Mutant: for an L2 request only the cores of the L2 cluster are looked at.
M_Neighbours(T, id) ==
  IF T = {"L2"} THEN {c \in Core : Dom["L2"][c] = id["L2"]}
  ELSE {c \in Core : \A t \in T \ {"L2"} : Dom[t][c] = id[t]}

\* The cores whose class counts: those that share the requested resources.
\* An L2 request is widened to the L3, MBA or SMBA domain of the cluster.
Neighbours(T, id) ==
  LET mates == {c \in Core : Dom["L2"][c] = id["L2"]}
      wide  == {t \in {"L3", "MBA", "SMBA"} : NumClasses(t) > 0}
      first == CASE "L3" \in wide -> "L3" [] "MBA" \in wide -> "MBA"
                 [] OTHER -> "SMBA"
      mate  == CHOOSE c \in mates : TRUE
  IN IF T # {"L2"} THEN {c \in Core : \A t \in T \ {"L2"} : Dom[t][c] = id[t]}
     ELSE IF mates = {} \/ wide = {} THEN Core
     ELSE {c \in Core : Dom[first][c] = Dom[first][mate]}

\* Mutant: the loop over the cores misses the first one.
M_UsedClasses(T, id) ==
  {assoc[c] : c \in {d \in Neighbours(T, id) : \E e \in Core : e < d}}

\* A class above those of L3, MBA and SMBA only matters in the L2 cluster.
UsedClasses(T, id) ==
  {assoc[c] : c \in {d \in Neighbours(T, id) :
     \/ \E t \in {"L3", "MBA", "SMBA"} : assoc[d] < NumClasses(t)
     \/ "L2" \notin T
     \/ Dom["L2"][d] = id["L2"]}}

UnusedClasses(T, id) == (1 .. NumClosReq(T) - 1) \ UsedClasses(T, id)

\* The search starts at the highest class and takes the first it finds.
Highest(S) == {k \in S : \A j \in S : j <= k}

-----------------------------------------------------------------------------
(* API calls *)

\* pqos_alloc_assoc_set() / hw_alloc_assoc_set().  The bound ignores SMBA.
hw_alloc_assoc_set(c, k) ==
  LET valid == \E t \in {"L3", "L2", "MBA"} : k < NumClasses(t)
  IN /\ phase = "idle"
     /\ \/ /\ ~valid
           /\ Return("assoc_set", "PARAM")
           /\ UNCHANGED assoc
        \/ /\ valid
           /\ hw_alloc_assoc_write({c}, k)
           /\ Return("assoc_set", "OK")
        \/ /\ valid /\ Can("msr")
           /\ Return("assoc_set", "ERROR")
           /\ UNCHANGED assoc
     /\ UNCHANGED <<clos, feat, chan, cap, phase, req>>

\* The resource ids hw_alloc_assign() passes on: of the requested technologies,
\* and of L2 only when nothing else is requested; the others stay 0.
AssignIds(T, S) ==
  LET c == CHOOSE d \in S : TRUE
  IN [t \in AllTech |-> IF t \in T /\ (t # "L2" \/ T = {"L2"}) THEN Dom[t][c] ELSE 0]

\* "Check if core belongs to one resource entity"
OneEntity(T, S) ==
  \A t \in T : (t # "L2" \/ T = {"L2"}) =>
    \A c, d \in S : Dom[t][c] = Dom[t][d]

\* pqos_alloc_assign() / hw_alloc_assign().  The cores are written in the
\* caller's order, so a failing write leaves any part of them moved.
hw_alloc_assign(T, S) ==
  LET free == UnusedClasses(T, AssignIds(T, S))
      able == OneEntity(T, S) /\ NumClosReq(T) > 0
  IN /\ phase = "idle"
     /\ \/ /\ ~OneEntity(T, S)
           /\ Return("assign", "PARAM")
           /\ UNCHANGED assoc
        \/ /\ OneEntity(T, S) /\ NumClosReq(T) = 0
           /\ Return("assign", "ERROR")
           /\ UNCHANGED assoc
        \/ /\ able /\ free = {}
           /\ \/ Return("assign", "RESOURCE")
              \/ Can("msr") /\ Return("assign", "ERROR")
           /\ UNCHANGED assoc
        \/ /\ able
           /\ \E k \in Highest(free) :
                /\ hw_alloc_assoc_write(S, k)
                /\ call' = [op |-> "assign", ret |-> "OK", cores |-> S, tech |-> T,
                            class |-> k]
        \/ /\ able /\ Can("msr")
           /\ \E k \in Highest(free), W \in SUBSET S :
                W # S /\ hw_alloc_assoc_write(W, k)
           /\ Return("assign", "ERROR")
     /\ UNCHANGED <<clos, feat, chan, cap, phase, req>>

\* pqos_alloc_release() / hw_alloc_release(): every core is tried.
hw_alloc_release(S) ==
  /\ phase = "idle"
  /\ \E bad \in SUBSET S :
       /\ bad # {} => Can("msr")
       /\ hw_alloc_assoc_write(S \ bad, 0)
       /\ Return("release", IF bad = {} THEN "OK" ELSE "ERROR")
  /\ UNCHANGED <<clos, feat, chan, cap, phase, req>>

\* An entry of the table a set call takes: with cdp "no", or for MBA, data is
\* the mask or value and code is not there.
Entry(t) ==
  [cdp : {"no"}, data : Def, code : {Full}]
    \cup IF t \in {"L3", "L2"} THEN [cdp : {"yes"}, data : Def, code : Def] ELSE {}

\* The sets of classes a table is about; the last class does not exist.
ClassSets(t) == {K \in SUBSET (0 .. NumClos[t]) : Cardinality(K) \in 1 .. MaxCa}

\* Mutant: a CDP class takes its code mask for both registers.
M_Value(t, m, ca) ==
  LET e == ca[ClassOf(t, m)] IN IF CapCdp(t) /\ e.cdp = "yes" THEN e.code ELSE e.data

\* What register m gets: with CDP on, the data mask goes to register 2k and
\* the code mask to 2k + 1 of class k.
Value(t, m, ca) ==
  LET e == ca[ClassOf(t, m)]
  IN IF CapCdp(t) /\ m % 2 = 1 /\ e.cdp = "yes" THEN e.code ELSE e.data

Touched(t, i, K) == {s \in Slot : s[1] = t /\ s[2] = i /\ ClassOf(t, s[3]) \in K}

\* The registers written before an error: whole classes in the caller's
\* order, then at most the data half of one more.  The bandwidth calls read
\* back what they wrote, and may fail after the last write.
WrittenSets(t, i, K) ==
  {W \in SUBSET Touched(t, i, K) :
     \E D \in SUBSET K :
       \/ W = Touched(t, i, D) /\ (D # K \/ t \in {"MBA", "SMBA"})
       \/ CapCdp(t) /\ \E k \in K \ D : W = Touched(t, i, D) \cup {<<t, i, 2 * k>>}}

Write(t, W, ca) ==
  clos' = [s \in Slot |-> IF s \in W THEN Value(t, s[3], ca) ELSE clos[s]]

\* The loop that writes a table ca of entries indexed by class.  Masks are
\* taken to be non-zero, contiguous and within the cache: the checks that
\* reject others come first and change nothing.  The register of a class that
\* does not exist cannot be written, and a CDP entry is refused when the loop
\* gets to it while CDP is off.
WriteTable(t, i, ca) ==
  LET K     == DOMAIN ca
      legal == {k \in K : k < NumClasses(t) /\ (CapCdp(t) \/ ca[k].cdp = "no")}
  IN \/ /\ legal = K
        /\ Write(t, Touched(t, i, K), ca)
        /\ Return("set", "OK")
     \/ /\ legal # K \/ Can("msr")
        /\ \E W \in WrittenSets(t, i, K) :
             /\ W \subseteq Touched(t, i, legal)
             /\ Write(t, W, ca)
        /\ Return("set", "ERROR")

\* "Check if class id's are within allowed range", then write.
CheckedTable(t, i, ca) ==
  LET known == \A k \in DOMAIN ca : k < NumClasses(t)
  IN \/ ~known /\ Return("set", "PARAM") /\ UNCHANGED clos
     \/ known /\ WriteTable(t, i, ca)

SetCall(t) == /\ phase = "idle" /\ t \in Tech
              /\ UNCHANGED <<assoc, feat, chan, cap, phase, req>>

\* Only hw_l3ca_set() checks the length of the table and not the class ids.
hw_l3ca_set(i, ca) ==
  LET long == Cardinality(DOMAIN ca) > NumClasses("L3")
  IN /\ SetCall("L3")
     /\ \/ long /\ Return("set", "ERROR") /\ UNCHANGED clos
        \/ ~long /\ WriteTable("L3", i, ca)
hw_l2ca_set(i, ca) == SetCall("L2") /\ CheckedTable("L2", i, ca)
hw_mba_set(i, ca) == SetCall("MBA") /\ CheckedTable("MBA", i, ca)
hw_smba_set_amd(i, ca) == SetCall("SMBA") /\ CheckedTable("SMBA", i, ca)

SetClos(t, i, ca) ==
  \/ t = "L3" /\ hw_l3ca_set(i, ca)
  \/ t = "L2" /\ hw_l2ca_set(i, ca)
  \/ t = "MBA" /\ hw_mba_set(i, ca)
  \/ t = "SMBA" /\ hw_smba_set_amd(i, ca)

\* hw_l3ca_get_min_cbm_bits() and hw_l2ca_get_min_cbm_bits(): narrow masks
\* are tried on a class no core uses, then its definition is restored.  The
\* search counts resources from 0 and takes the count for the id.
GetMinCbmBits(t) ==
  LET index   == 0 .. Cardinality(Ids(t)) - 1
      free(j) == UnusedClasses({t}, [u \in AllTech |-> IF u = t THEN j ELSE 0])
      found   == {j \in index : free(j) # {}}
      first   == {j \in found : \A n \in found : j <= n}
  IN /\ phase = "idle" /\ t \in Tech
     /\ \/ /\ found = {}
           /\ Return("probe", "RESOURCE")
           /\ UNCHANGED clos
        \/ /\ first \cap Ids(t) # {}
           /\ Return("probe", "OK")
           /\ UNCHANGED clos
        \/ /\ first \ Ids(t) # {} \/ Can("msr")
           /\ Return("probe", "ERROR")
           /\ UNCHANGED clos
        \/ /\ Can("msr")
           /\ \E j \in first \cap Ids(t), d \in Def : \E k \in Highest(free(j)) :
                \E W \in SUBSET Touched(t, j, {k}) :
                  clos' = [s \in Slot |-> IF s \in W THEN d ELSE clos[s]]
           /\ Return("probe", "ERROR")
     /\ UNCHANGED <<assoc, feat, chan, cap, phase, req>>

hw_l3ca_get_min_cbm_bits == GetMinCbmBits("L3")
hw_l2ca_get_min_cbm_bits == GetMinCbmBits("L2")

CapOn(f) == f \in Supported /\ cap[f] = "on"

\* hw_alloc_assoc_set_channel() / iordt_assoc_write()
hw_alloc_assoc_set_channel(x, k) ==
  LET valid == k = 0 \/ k < NumClasses("L3")
  IN /\ phase = "idle" /\ "L3" \in Tech
     /\ \/ /\ CapOn("l3iordt") /\ valid
           /\ chan' = [chan EXCEPT ![x] = k]
           /\ Return("assoc_channel", "OK")
        \/ /\ CapOn("l3iordt") /\ ~valid
           /\ Return("assoc_channel", "PARAM")
           /\ UNCHANGED chan
        \/ /\ ~CapOn("l3iordt") \/ (valid /\ Can("mmio"))
           /\ Return("assoc_channel", "ERROR")
           /\ UNCHANGED chan
     /\ UNCHANGED <<assoc, clos, feat, cap, phase, req>>

-----------------------------------------------------------------------------
(* alloc_reset(), part by part *)

\* A reset that cannot go on returns ERROR and leaves what it did.
Fail == phase' = "idle" /\ req' = Any /\ Return("reset", "ERROR")

\* A reset that gets no list of resource ids leaves with the last value of
\* ret, which is OK.
Quit == phase' = "idle" /\ req' = Any /\ Return("reset", "OK")

\* A part is done: the next one follows, and after the last the call returns.
Advance ==
  /\ phase' = NextPhase(phase)
  /\ \/ /\ phase = "mba40"
        /\ req' = Any
        /\ Return("reset", "OK")
     \/ /\ phase # "mba40"
        /\ UNCHANGED <<req, call>>

\* The checks before anything is written: a feature of a technology that is
\* absent cannot be configured, one that is not supported not turned on.
AllocReset(r) ==
  LET absent == \/ Tech \cap {"L3", "L2", "MBA"} = {}
                \/ \E f \in Feature : r[f] # "ANY" /\ TechOf(f) \notin Tech
      unable == \E f \in Feature \ Supported : r[f] = "ON"
  IN /\ phase = "idle"
     /\ \/ /\ absent
           /\ Return("reset", "RESOURCE")
           /\ UNCHANGED <<phase, req>>
        \/ /\ ~absent /\ unable
           /\ Return("reset", "PARAM")
           /\ UNCHANGED <<phase, req>>
        \/ /\ ~absent /\ ~unable
           /\ phase' = "L3"
           /\ req' = r
           /\ UNCHANGED call
     /\ UNCHANGED <<assoc, clos, feat, chan, cap>>

\* Mutant: the number of classes is not doubled when CDP is on.
M_MaxClos(t) == NumClasses(t)

\* max_l3_clos, max_l2_clos: "if (cdp && cdp_on) max_clos = max_clos * 2"
MaxClos(t) == IF CapCdp(t) THEN NumClasses(t) * 2 ELSE NumClasses(t)

\* hw_alloc_reset_clos() on every resource of a technology, in the order of
\* their ids.  All registers of a resource are tried before it gives up.
ResetClos(t) ==
  LET mine == {s \in Slot : s[1] = t /\ s[3] < MaxClos(t)}
      wipe(W) == clos' = [s \in Slot |-> IF s \in W THEN Full ELSE clos[s]]
  IN /\ phase = t
     /\ \/ wipe(mine) /\ Advance
        \/ /\ Can("msr") /\ t \in Tech
           /\ \E i \in Ids(t) : \E W \in SUBSET {s \in mine : s[2] = i} :
                /\ W # {s \in mine : s[2] = i}
                /\ wipe({s \in mine : s[2] < i} \cup W)
           /\ Fail
        \/ Can("mem") /\ t \in Tech /\ UNCHANGED clos /\ Quit
     /\ UNCHANGED <<assoc, feat, chan, cap>>

ResetL3ca == ResetClos("L3")
ResetL2ca == ResetClos("L2")
ResetMba == ResetClos("MBA")
ResetSmba == ResetClos("SMBA")

\* hw_alloc_reset_assoc_channels(): nothing unless the capability says that
\* I/O RDT is on; bad are the channels whose table cannot be mapped.
ResetAssocChannels(bad) ==
  chan' = [x \in Chan |-> IF CapOn("l3iordt") /\ x \notin bad THEN 0 ELSE chan[x]]

\* Mutant: only the channels are reset, the cores keep their class.
M_ResetAssoc ==
  /\ phase = "assoc"
  /\ ResetAssocChannels({})
  /\ Advance
  /\ UNCHANGED <<assoc, clos, feat, cap>>

\* hw_alloc_reset_assoc(): every core and every channel is tried.
ResetAssoc ==
  /\ phase = "assoc"
  /\ \E bad \in SUBSET Core, out \in SUBSET Chan :
       /\ bad # {} => Can("msr")
       /\ out # {} => Can("mmio") /\ CapOn("l3iordt")
       /\ assoc' = [c \in Core |-> IF c \in bad THEN assoc[c] ELSE 0]
       /\ ResetAssocChannels(out)
       /\ IF bad = {} /\ out = {} THEN Advance ELSE Fail
  /\ UNCHANGED <<clos, feat, cap>>

\* The bit of a feature is the same on every resource, and which it is.
Uniform(f) == \A k, j \in Knob : k[1] = f /\ j[1] = f => feat[k] = feat[j]
Enabled(f) == IF \E k \in Knob : k[1] = f /\ feat[k] = "on" THEN "on" ELSE "off"

\* Does a part have to write the bit, as the capability sees it?
Turn(f) == /\ f \in Supported
           /\ \/ req[f] = "ON" /\ cap[f] = "off"
              \/ req[f] = "OFF" /\ cap[f] = "on"
Asked(f) == IF req[f] = "ON" THEN "on" ELSE "off"

\* The loops below write the bit of every resource, in the order of their
\* ids, and stop at the first error.
SwitchAll(f) ==
  feat' = [k \in Knob |-> IF k[1] = f /\ Turn(f) THEN Asked(f) ELSE feat[k]]
SwitchSome(f) ==
  /\ Turn(f)
  /\ \E i \in Ids(TechOf(f)) :
       feat' = [k \in Knob |-> IF k[1] = f /\ k[2] < i THEN Asked(f) ELSE feat[k]]

Switch(f, done) == IF done THEN SwitchAll(f) ELSE SwitchSome(f)

hw_alloc_reset_l3cdp(done) == Switch("l3cdp", done)
hw_alloc_reset_l3iordt(done) == Switch("l3iordt", done)
hw_alloc_reset_l2cdp(done) == Switch("l2cdp", done)
hw_alloc_reset_mba40(done) == Switch("mba40", done)

\* Mutant: the value of the request is stored, not what it stands for.
M_Follow(f) == IF Turn(f) THEN req[f] ELSE cap[f]

\* What a capability becomes when it is set from the request.
Follow(f) == IF Turn(f) THEN Asked(f) ELSE cap[f]

\* _pqos_cap_l3cdp_change(): the capability is discovered again from the
\* registers after the bits were written, I/O RDT included; when that fails
\* (a read error, or bits that differ) cdp_on follows the request.
CapL3cdpChange ==
  LET mine == Supported \cap {"l3cdp", "l3iordt"}
      seen == cap' = [f \in Supported |-> IF f \in mine THEN Enabled(f)' ELSE cap[f]]
      kept == cap' = [f \in Supported |-> IF f = "l3cdp" THEN Follow(f) ELSE cap[f]]
  IN \/ (\A f \in mine : Uniform(f)') /\ seen
     \/ (Can("msr") \/ \E f \in mine : ~Uniform(f)') /\ kept

ResetL3cdp ==
  /\ phase = "l3cdp"
  /\ \/ hw_alloc_reset_l3cdp(TRUE) /\ CapL3cdpChange /\ Advance
     \/ Can("msr") /\ hw_alloc_reset_l3cdp(FALSE) /\ Fail /\ UNCHANGED cap
  /\ UNCHANGED <<assoc, clos, chan>>

\* Turning I/O RDT on also resets the channels, before the capability changes.
ResetL3iordt ==
  /\ phase = "l3iordt"
  /\ \/ /\ hw_alloc_reset_l3iordt(TRUE)
        /\ IF Turn("l3iordt") /\ req["l3iordt"] = "ON" THEN ResetAssocChannels({})
                                                       ELSE UNCHANGED chan
        /\ cap' = [f \in Supported |-> IF f = "l3iordt" THEN Follow(f) ELSE cap[f]]
        /\ Advance
     \/ Can("msr") /\ hw_alloc_reset_l3iordt(FALSE) /\ Fail /\ UNCHANGED <<cap, chan>>
  /\ UNCHANGED <<assoc, clos>>

\* Mutant: the capability is not refreshed.
M_CapL2cdpChange == UNCHANGED cap

CapL2cdpChange ==
  LET set(v) == cap' = [f \in Supported |-> IF f = "l2cdp" THEN v ELSE cap[f]]
  IN \/ Uniform("l2cdp")' /\ set(Enabled("l2cdp")')
     \/ (Can("msr") \/ ~Uniform("l2cdp")') /\ set(Follow("l2cdp"))

ResetL2cdp ==
  /\ phase = "l2cdp"
  /\ \/ hw_alloc_reset_l2cdp(TRUE) /\ CapL2cdpChange /\ Advance
     \/ Can("msr") /\ hw_alloc_reset_l2cdp(FALSE) /\ Fail /\ UNCHANGED cap
  /\ UNCHANGED <<assoc, clos, chan>>

\* No capability is changed here.
ResetMba40 ==
  /\ phase = "mba40"
  /\ \/ hw_alloc_reset_mba40(TRUE) /\ Advance
     \/ Can("msr") /\ hw_alloc_reset_mba40(FALSE) /\ Fail
  /\ UNCHANGED <<assoc, clos, chan, cap>>

-----------------------------------------------------------------------------
(* The library comes and goes; the registers stay *)

\* Capability discovery of pqos_init(): bits that differ between resources
\* make hw_cap_l3_feature() or hw_cap_l2ca_cdp() fail and with it the init;
\* of mba40 the last resource read decides.
Discover ==
  LET last(k) == \A j \in Knob : j[1] = "mba40" => j[2] <= k[2]
      mba40   == \E k \in Knob : k[1] = "mba40" /\ last(k) /\ feat[k] = "on"
  IN [f \in Supported |-> IF f # "mba40" THEN Enabled(f)
                          ELSE IF mba40 THEN "on" ELSE "off"]

PqosInit ==
  /\ phase = "off"
  /\ \/ /\ \A f \in Supported \ {"mba40"} : Uniform(f)
        /\ cap' = Discover
        /\ phase' = "idle"
        /\ Return("init", "OK")
     \/ /\ \E f \in Supported \ {"mba40"} : ~Uniform(f)
        /\ Return("init", "ERROR")
        /\ UNCHANGED <<cap, phase>>
  /\ UNCHANGED <<assoc, clos, feat, chan, req>>

\* The library is gone, and with it what it cached.
Gone ==
  /\ phase' = "off"
  /\ cap' = [f \in Supported |-> "off"]
  /\ req' = Any
  /\ Return("fini", "OK")

\* pqos_fini(), or the process dies.
PqosFini ==
  /\ phase = "idle" \/ (phase # "off" /\ Can("crash"))
  /\ Gone
  /\ UNCHANGED hw

\* The process dies while it switches a feature, resource by resource.
DieSwitching ==
  /\ phase \in Feature /\ Can("crash")
  /\ SwitchSome(phase)
  /\ Gone
  /\ UNCHANGED <<assoc, clos, chan>>

Next ==
  \/ PqosInit
  \/ PqosFini
  \/ DieSwitching
  \/ \E c \in Core, k \in Class : hw_alloc_assoc_set(c, k)
  \/ \E T \in (SUBSET AllTech) \ {{}}, S \in (SUBSET Core) \ {{}} : hw_alloc_assign(T, S)
  \/ \E S \in (SUBSET Core) \ {{}} : hw_alloc_release(S)
  \/ \E t \in Tech : \E i \in Ids(t), K \in ClassSets(t) :
       \E ca \in [K -> Entry(t)] : SetClos(t, i, ca)
  \/ hw_l3ca_get_min_cbm_bits
  \/ hw_l2ca_get_min_cbm_bits
  \/ \E x \in Chan, k \in Class : hw_alloc_assoc_set_channel(x, k)
  \/ \E r \in Requests : AllocReset(r)
  \/ ResetL3ca
  \/ ResetL2ca
  \/ ResetMba
  \/ ResetSmba
  \/ ResetAssoc
  \/ ResetL3cdp
  \/ ResetL3iordt
  \/ ResetL2cdp
  \/ ResetMba40

Spec == Init /\ [][Next]_vars

-----------------------------------------------------------------------------
(* Properties *)

\* The class an assign call returned is not the default one, and no other core
\* uses it wherever it has a meaning: for no technology is there a core
\* outside the caller's that shares the resource and the class.
Exclusive ==
  /\ call.class # 0
  /\ \A t \in Tech : call.class < NumClasses(t) =>
       \A c \in call.cores, d \in Core \ call.cores :
         Dom[t][c] = Dom[t][d] => assoc[d] # call.class

\* hw_alloc_assign() gives out a class no other core uses, on any mix of
\* technologies and any topology, when it is asked for technologies the
\* platform has.
AssignExclusive ==
  phase = "idle" /\ call.op = "assign" /\ call.ret = "OK" /\ call.tech \subseteq Tech =>
    Exclusive

\* The comment on pqos_alloc_reset() in pqos.h: "all cores associated with
\* CLOS0", "all CLOS are set to give access to entire resource".  It holds of
\* every reset that returns OK, whatever errors and resets came before.
ResetRestores ==
  phase = "idle" /\ call.op = "reset" /\ call.ret = "OK" =>
    /\ \A c \in Core : assoc[c] = 0
    /\ \A s \in Slot : clos[s] = Full

\* What the library believes of CDP and I/O RDT is what the registers say,
\* whenever an API call may rely on it.
CapMatchesHw ==
  phase = "idle" =>
    \A k \in Knob : k[1] # "mba40" => feat[k] = cap[k[1]]

\* Number of classes the registers of a resource implement.
HwClasses(t, i) ==
  IF CdpOf(t) \in Supported /\ feat[<<CdpOf(t), i>>] = "on"
  THEN NumClos[t] \div 2 ELSE NumClos[t]

\* No core is left with a class that none of its resources has, although CDP
\* halves the number of classes while cores use them.
ClassesExist ==
  \A c \in Core : \E t \in Tech : assoc[c] < HwClasses(t, Dom[t][c])

\* A set call that returns OK changes what the get call returns for the
\* classes of its table, to what the table says, and for no other class.
SetIsWhatGetReturns ==
  [][call'.op = "set" /\ call'.ret = "OK" =>
     \A t \in Tech : \A i \in Ids(t), K \in ClassSets(t) :
       \A ca \in [K -> Entry(t)] : SetClos(t, i, ca) =>
           /\ \A k \in K :
                GetClos(t, i, k)' =
                  IF ~CapCdp(t) THEN <<ca[k].data>>
                  ELSE <<ca[k].data, IF ca[k].cdp = "yes" THEN ca[k].code ELSE ca[k].data>>
           /\ \A u \in Tech : \A j \in Ids(u) : \A k \in 0 .. NumClasses(u) - 1 :
                (u # t \/ j # i \/ k \notin K) => GetClos(u, j, k)' = GetClos(u, j, k)]_vars

\* Probing for the minimum number of mask bits never changes the definition
\* of a class some core uses, not even when restoring it fails.
ProbeIsHarmless ==
  [][hw_l3ca_get_min_cbm_bits \/ hw_l2ca_get_min_cbm_bits =>
       \A c \in Core : \A t \in Tech : assoc[c] < NumClasses(t) =>
         GetClos(t, Dom[t][c], assoc[c])' = GetClos(t, Dom[t][c], assoc[c])]_vars
=============================================================================
