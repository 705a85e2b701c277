--------------------------- MODULE HwAllocProofs ---------------------------
(***************************************************************************)
(* Proofs about HwAlloc for every platform: any number of cores, classes   *)
(* and resources, any topology that meets TopologyAssumption.              *)
(***************************************************************************)
EXTENDS HwAlloc, TLAPS

\* Halving for CDP keeps the number of classes a natural number, and what is
\* below it is a class.
LEMMA NumClassesBound ==
  ASSUME NEW t \in AllTech
  PROVE  /\ NumClasses(t) \in Nat
         /\ NumClasses(t) <= NumClos[t]
<1>1. NumClos[t] \in Nat
  BY TechAssumption
<1>2. t \notin Tech => NumClos[t] = 0
  BY TechAssumption
<1> QED
  BY <1>1, <1>2 DEF NumClasses

LEMMA BelowIsClass ==
  ASSUME NEW t \in AllTech, NEW k \in Nat, k < NumClasses(t)
  PROVE  k \in Class
<1>1. NumClos[t] \in Nat /\ NumClasses(t) \in Nat /\ NumClasses(t) <= NumClos[t]
  BY NumClassesBound, TechAssumption
<1>2. k \in 0 .. NumClos[t] - 1
  BY <1>1
<1> QED
  BY <1>2 DEF Class

LEMMA ZeroIsClass == 0 \in Class
  BY DEF Class

\* The bound of the search is the number of classes of some technology.
LEMMA RequestBound ==
  ASSUME NEW T \in SUBSET AllTech
  PROVE  NumClosReq(T) = 0 \/ \E t \in AllTech : NumClosReq(T) = NumClasses(t)
<1> QED
  BY DEF NumClosReq, AllTech

\* What the search offers is a class, and not the default one.
LEMMA UnusedIsClass ==
  ASSUME NEW T \in SUBSET AllTech, NEW id, NEW k \in UnusedClasses(T, id)
  PROVE  /\ k \in Nat \ {0}
         /\ k \in Class
         /\ k < NumClosReq(T)
         /\ k \notin UsedClasses(T, id)
<1>1. k \in 1 .. NumClosReq(T) - 1 /\ k \notin UsedClasses(T, id)
  BY DEF UnusedClasses
<1>2. CASE NumClosReq(T) = 0
  BY <1>1, <1>2
<1>3. CASE NumClosReq(T) # 0
  <2>1. PICK t \in AllTech : NumClosReq(T) = NumClasses(t)
    BY <1>3, RequestBound
  <2>2. NumClosReq(T) \in Nat
    BY <2>1, NumClassesBound
  <2>3. k \in Nat \ {0} /\ k < NumClasses(t)
    BY <1>1, <2>1, <2>2
  <2> QED
    BY <1>1, <2>1, <2>3, BelowIsClass
<1> QED
  BY <1>2, <1>3

-----------------------------------------------------------------------------
(* Type correctness *)

LEMMA AnyIsRequest == Any \in Request
  BY DEF Any, Request

LEMMA ReturnTyped ==
  ASSUME NEW op \in {"init", "fini", "assoc_set", "assign", "release", "set",
                     "probe", "assoc_channel", "reset"},
         NEW ret \in {"OK", "PARAM", "RESOURCE", "ERROR"},
         Return(op, ret)
  PROVE  call' \in Call
  BY ZeroIsClass, AnyIsRequest DEF Return, Call

LEMMA AssocWriteTyped ==
  ASSUME assoc \in [Core -> Class], NEW W, NEW k \in Class,
         hw_alloc_assoc_write(W, k)
  PROVE  assoc' \in [Core -> Class]
  BY DEF hw_alloc_assoc_write

LEMMA FailTyped ==
  ASSUME TypeOK, Fail
  PROVE  phase' \in Phase /\ req' \in Request /\ call' \in Call
  BY AnyIsRequest, ReturnTyped DEF TypeOK, Fail, Phase

LEMMA QuitTyped ==
  ASSUME TypeOK, Quit
  PROVE  phase' \in Phase /\ req' \in Request /\ call' \in Call
  BY AnyIsRequest, ReturnTyped DEF TypeOK, Quit, Phase

LEMMA AdvanceTyped ==
  ASSUME TypeOK, Advance, phase \in AllTech \cup Feature \cup {"assoc"}
  PROVE  phase' \in Phase /\ req' \in Request /\ call' \in Call
<1>1. phase' \in Phase
  BY DEF Advance, NextPhase, Phase, AllTech, Feature
<1>2. req' \in Request /\ call' \in Call
  BY AnyIsRequest, ReturnTyped DEF TypeOK, Advance
<1> QED
  BY <1>1, <1>2

LEMMA SwitchTyped ==
  ASSUME TypeOK, NEW f \in Feature, SwitchAll(f) \/ SwitchSome(f)
  PROVE  feat' \in [Knob -> Setting]
  BY DEF TypeOK, SwitchAll, SwitchSome, Asked, Setting

LEMMA WriteTableTyped ==
  ASSUME TypeOK, NEW t \in Tech, NEW i, NEW K, NEW ca \in [K -> Entry(t)],
         WriteTable(t, i, ca)
  PROVE  clos' \in [Slot -> Def] /\ call' \in Call
<1>1. PICK W : W \subseteq Touched(t, i, K) /\ Write(t, W, ca)
  BY DEF WriteTable, WrittenSets
<1>2. ASSUME NEW s \in Slot, s \in W
      PROVE  Value(t, s[3], ca) \in Def
  <2>1. ClassOf(t, s[3]) \in K
    BY <1>1, <1>2 DEF Touched
  <2>2. ca[ClassOf(t, s[3])] \in Entry(t)
    BY <2>1
  <2> QED
    BY <2>2, DefAssumption DEF Value, Entry
<1>3. clos' \in [Slot -> Def]
  BY <1>1, <1>2 DEF TypeOK, Write
<1>4. call' \in Call
  BY ReturnTyped DEF WriteTable
<1> QED
  BY <1>3, <1>4

LEMMA TypeInit == Init => TypeOK
  BY ZeroIsClass, AnyIsRequest, DefAssumption
  DEF Init, TypeOK, Setting, Phase, Call

LEMMA TypeStep == TypeOK /\ [Next]_vars => TypeOK'
<1> SUFFICES ASSUME TypeOK, [Next]_vars PROVE TypeOK'
  OBVIOUS
<1>1. CASE PqosInit
  <2>1. Discover \in [Supported -> Setting]
    BY DEF Discover, Enabled, Setting
  <2> QED
    BY <1>1, <2>1, ReturnTyped DEF PqosInit, TypeOK, Phase
<1>2. CASE PqosFini
  BY <1>2, ReturnTyped, AnyIsRequest DEF PqosFini, Gone, TypeOK, Phase, hw, Setting
<1>3. CASE DieSwitching
  <2>1. feat' \in [Knob -> Setting]
    BY <1>3, SwitchTyped DEF DieSwitching
  <2> QED
    BY <1>3, <2>1, ReturnTyped, AnyIsRequest
    DEF DieSwitching, Gone, TypeOK, Phase, Setting
<1>4. ASSUME NEW c \in Core, NEW k \in Class, hw_alloc_assoc_set(c, k)
      PROVE  TypeOK'
  <2>1. assoc' \in [Core -> Class]
    BY <1>4, AssocWriteTyped DEF hw_alloc_assoc_set, TypeOK
  <2>2. call' \in Call
    BY <1>4, ReturnTyped DEF hw_alloc_assoc_set
  <2> QED
    BY <1>4, <2>1, <2>2 DEF hw_alloc_assoc_set, TypeOK
<1>5. ASSUME NEW T \in SUBSET AllTech, NEW S \in SUBSET Core, hw_alloc_assign(T, S)
      PROVE  TypeOK'
  <2> DEFINE free == UnusedClasses(T, AssignIds(T, S))
  <2>1. \A k \in Highest(free) : k \in Class
    BY UnusedIsClass DEF Highest
  <2> HIDE DEF free
  <2>2. assoc' \in [Core -> Class]
    BY <1>5, <2>1, AssocWriteTyped DEF hw_alloc_assign, TypeOK, free
  <2>3. call' \in Call
    BY <1>5, <2>1, ReturnTyped, AnyIsRequest DEF hw_alloc_assign, Call, free
  <2> QED
    BY <1>5, <2>2, <2>3 DEF hw_alloc_assign, TypeOK
<1>6. ASSUME NEW S \in SUBSET Core, hw_alloc_release(S)
      PROVE  TypeOK'
  <2>1. assoc' \in [Core -> Class]
    BY <1>6, ZeroIsClass, AssocWriteTyped DEF hw_alloc_release, TypeOK
  <2>2. call' \in Call
    BY <1>6, ReturnTyped DEF hw_alloc_release
  <2> QED
    BY <1>6, <2>1, <2>2 DEF hw_alloc_release, TypeOK
<1>7. ASSUME NEW t \in Tech, NEW i, NEW K, NEW ca \in [K -> Entry(t)],
             SetClos(t, i, ca)
      PROVE  TypeOK'
  <2>1. clos' \in [Slot -> Def] /\ call' \in Call
    <3>1. CASE WriteTable(t, i, ca)
      BY <3>1, WriteTableTyped
    <3>2. CASE (Return("set", "PARAM") \/ Return("set", "ERROR")) /\ UNCHANGED clos
      BY <3>2, ReturnTyped DEF TypeOK
    <3> QED
      BY <1>7, <3>1, <3>2
      DEF SetClos, hw_l3ca_set, hw_l2ca_set, hw_mba_set, hw_smba_set_amd, CheckedTable
  <2> QED
    BY <1>7, <2>1
    DEF SetClos, hw_l3ca_set, hw_l2ca_set, hw_mba_set, hw_smba_set_amd, SetCall, TypeOK
<1>8. ASSUME NEW t \in {"L3", "L2"}, GetMinCbmBits(t)
      PROVE  TypeOK'
  <2>1. clos' \in [Slot -> Def]
    <3>1. CASE UNCHANGED clos
      BY <3>1 DEF TypeOK
    <3>2. CASE ~UNCHANGED clos
      <4>1. \E d \in Def : \E W : clos' = [s \in Slot |-> IF s \in W THEN d ELSE clos[s]]
        BY <1>8, <3>2, Zenon DEF GetMinCbmBits
      <4> QED
        BY <4>1 DEF TypeOK
    <3> QED
      BY <3>1, <3>2
  <2>2. call' \in Call
    BY <1>8, ReturnTyped DEF GetMinCbmBits
  <2> QED
    BY <1>8, <2>1, <2>2 DEF GetMinCbmBits, TypeOK
<1>9. ASSUME NEW x \in Chan, NEW k \in Class, hw_alloc_assoc_set_channel(x, k)
      PROVE  TypeOK'
  <2>1. call' \in Call
    BY <1>9, ReturnTyped DEF hw_alloc_assoc_set_channel
  <2> QED
    BY <1>9, <2>1 DEF hw_alloc_assoc_set_channel, TypeOK
<1>10. ASSUME NEW r \in Requests, AllocReset(r)
       PROVE  TypeOK'
  <2>1. r \in Request
    BY FeatureAssumption
  <2>2. call' \in Call /\ phase' \in Phase /\ req' \in Request
    BY <1>10, <2>1, ReturnTyped DEF AllocReset, TypeOK, Phase, AllTech
  <2> QED
    BY <1>10, <2>2 DEF AllocReset, TypeOK
<1>11. ASSUME NEW t \in AllTech, ResetClos(t)
       PROVE  TypeOK'
  <2>1. phase' \in Phase /\ req' \in Request /\ call' \in Call
    BY <1>11, FailTyped, QuitTyped, AdvanceTyped DEF ResetClos
  <2>2. \/ UNCHANGED clos
        \/ \E W : clos' = [s \in Slot |-> IF s \in W THEN Full ELSE clos[s]]
    BY <1>11 DEF ResetClos
  <2>3. clos' \in [Slot -> Def]
    BY <2>2, DefAssumption DEF TypeOK
  <2> QED
    BY <1>11, <2>1, <2>3 DEF ResetClos, TypeOK
<1>12. CASE ResetAssoc
  <2>1. phase' \in Phase /\ req' \in Request /\ call' \in Call
    BY <1>12, FailTyped, AdvanceTyped DEF ResetAssoc
  <2>2. assoc' \in [Core -> Class] /\ chan' \in [Chan -> Class]
    BY <1>12, ZeroIsClass DEF ResetAssoc, ResetAssocChannels, TypeOK
  <2> QED
    BY <1>12, <2>1, <2>2 DEF ResetAssoc, TypeOK
<1>13. CASE ResetL3cdp
  <2>1. feat' \in [Knob -> Setting]
    BY <1>13, SwitchTyped DEF ResetL3cdp, hw_alloc_reset_l3cdp, Switch, Feature
  <2>2. cap' \in [Supported -> Setting]
    BY <1>13 DEF ResetL3cdp, CapL3cdpChange, TypeOK, Enabled, Follow, Asked, Setting
  <2>3. phase' \in Phase /\ req' \in Request /\ call' \in Call
    BY <1>13, FailTyped, AdvanceTyped DEF ResetL3cdp, Feature
  <2> QED
    BY <1>13, <2>1, <2>2, <2>3 DEF ResetL3cdp, TypeOK
<1>14. CASE ResetL3iordt
  <2>1. feat' \in [Knob -> Setting]
    BY <1>14, SwitchTyped DEF ResetL3iordt, hw_alloc_reset_l3iordt, Switch, Feature
  <2>2. cap' \in [Supported -> Setting]
    BY <1>14 DEF ResetL3iordt, TypeOK, Follow, Asked, Setting
  <2>3. phase' \in Phase /\ req' \in Request /\ call' \in Call
    BY <1>14, FailTyped, AdvanceTyped DEF ResetL3iordt, Feature
  <2>4. chan' \in [Chan -> Class]
    BY <1>14, ZeroIsClass DEF ResetL3iordt, ResetAssocChannels, TypeOK
  <2> QED
    BY <1>14, <2>1, <2>2, <2>3, <2>4 DEF ResetL3iordt, TypeOK
<1>15. CASE ResetL2cdp
  <2>1. feat' \in [Knob -> Setting]
    BY <1>15, SwitchTyped DEF ResetL2cdp, hw_alloc_reset_l2cdp, Switch, Feature
  <2>2. cap' \in [Supported -> Setting]
    BY <1>15 DEF ResetL2cdp, CapL2cdpChange, TypeOK, Enabled, Follow, Asked, Setting
  <2>3. phase' \in Phase /\ req' \in Request /\ call' \in Call
    BY <1>15, FailTyped, AdvanceTyped DEF ResetL2cdp, Feature
  <2> QED
    BY <1>15, <2>1, <2>2, <2>3 DEF ResetL2cdp, TypeOK
<1>16. CASE ResetMba40
  <2>1. feat' \in [Knob -> Setting]
    BY <1>16, SwitchTyped DEF ResetMba40, hw_alloc_reset_mba40, Switch, Feature
  <2>2. phase' \in Phase /\ req' \in Request /\ call' \in Call
    BY <1>16, FailTyped, AdvanceTyped DEF ResetMba40, Feature
  <2> QED
    BY <1>16, <2>1, <2>2 DEF ResetMba40, TypeOK
<1>17. CASE UNCHANGED vars
  BY <1>17 DEF vars, TypeOK
<1> QED
  BY <1>1, <1>2, <1>3, <1>4, <1>5, <1>6, <1>7, <1>8, <1>9, <1>10, <1>11, <1>12,
     <1>13, <1>14, <1>15, <1>16, <1>17
  DEF Next, ResetL3ca, ResetL2ca, ResetMba, ResetSmba, AllTech,
      hw_l3ca_get_min_cbm_bits, hw_l2ca_get_min_cbm_bits

\* Every state of every behaviour is well typed: in particular a core or a
\* channel never holds a class that no technology of the platform has.
THEOREM TypeCorrect == Spec => []TypeOK
  BY TypeInit, TypeStep, PTL DEF Spec

-----------------------------------------------------------------------------
(* The search for an unused class *)

\* A technology that is there has a class; a request for technologies that are
\* there is bounded by the classes of each of them.
LEMMA SomeClass ==
  ASSUME NEW t \in Tech
  PROVE  NumClasses(t) > 0
<1>1. t \in AllTech /\ NumClos[t] \in Nat /\ NumClos[t] > 0
  BY TechAssumption
<1>2. CASE CapCdp(t)
  <2>1. t \in {"L3", "L2"}
    BY <1>1, <1>2, FeatureAssumption DEF CapCdp, CdpOf, AllTech, Feature
  <2>2. CdpOf(t) \in Supported \cap {"l3cdp", "l2cdp"} /\ TechOf(CdpOf(t)) = t
    BY <1>2, <2>1 DEF CapCdp, CdpOf, TechOf
  <2>3. NumClos[t] % 2 = 0
    BY <2>2, EvenAssumption
  <2> QED
    BY <1>1, <1>2, <2>3 DEF NumClasses
<1>3. CASE ~CapCdp(t)
  BY <1>1, <1>3 DEF NumClasses
<1> QED
  BY <1>2, <1>3

LEMMA RequestBelowEach ==
  ASSUME NEW T \in SUBSET Tech, NEW u \in T, NEW k \in Nat, k < NumClosReq(T)
  PROVE  k < NumClasses(u)
<1>1. T \subseteq AllTech
  BY TechAssumption
<1>2. \A t \in AllTech : NumClasses(t) \in Nat
  BY NumClassesBound
<1>3. \A t \in T : NumClasses(t) > 0
  BY SomeClass
<1> QED
  BY <1>1, <1>2, <1>3 DEF NumClosReq, AllTech

\* Cores that share any resource share the L3 cache.
LEMMA ShareL3 ==
  ASSUME NEW t \in AllTech, NEW c \in Core, NEW d \in Core, Dom[t][c] = Dom[t][d]
  PROVE  \A u \in {"L3", "MBA", "SMBA"} : Dom[u][c] = Dom[u][d]
  BY TopologyAssumption DEF AllTech

\* The search sees every core that matters: if core d shares a resource of
\* technology t with core c, and the class of d has a meaning there and is
\* within the bound of the request, then it is among the used classes.
LEMMA SearchIsComplete ==
  ASSUME NEW T \in SUBSET Tech, T # {}, NEW id, NEW c \in Core, NEW d \in Core,
         \A u \in T : u # "L2" \/ T = {"L2"} => id[u] = Dom[u][c],
         NEW t \in Tech, Dom[t][c] = Dom[t][d],
         assoc[d] \in Nat, assoc[d] < NumClasses(t), assoc[d] < NumClosReq(T)
  PROVE  assoc[d] \in UsedClasses(T, id)
<1>1. t \in AllTech /\ T \subseteq AllTech
  BY TechAssumption
<1>2. \A u \in {"L3", "MBA", "SMBA"} : Dom[u][c] = Dom[u][d]
  BY <1>1, ShareL3
<1>3. CASE T # {"L2"}
  <2>1. PICK u \in T : u # "L2"
    BY <1>3
  <2>2. u \in {"L3", "MBA", "SMBA"} /\ assoc[d] < NumClasses(u)
    BY <1>1, <2>1, RequestBelowEach DEF AllTech
  <2>3. d \in Neighbours(T, id)
    BY <1>1, <1>2, <1>3 DEF Neighbours, AllTech
  <2> QED
    BY <2>2, <2>3 DEF UsedClasses
<1>4. CASE T = {"L2"}
  <2> DEFINE mates == {e \in Core : Dom["L2"][e] = id["L2"]}
             wide  == {u \in {"L3", "MBA", "SMBA"} : NumClasses(u) > 0}
             mate  == CHOOSE e \in mates : TRUE
  <2>1. id["L2"] = Dom["L2"][c] /\ c \in mates
    BY <1>4
  <2>2. mate \in Core /\ Dom["L2"][mate] = Dom["L2"][c]
    BY <2>1
  <2>3. \A u \in {"L3", "MBA", "SMBA"} : Dom[u][mate] = Dom[u][d]
    <3>1. PICK e \in Core : e = mate /\ Dom["L2"][e] = Dom["L2"][c]
      BY <2>2
    <3>2. \A u \in {"L3", "MBA", "SMBA"} : Dom[u][e] = Dom[u][c]
      <4>1. Dom["L3"][e] = Dom["L3"][c] /\ Dom["MBA"] = Dom["L3"] /\ Dom["SMBA"] = Dom["L3"]
        BY <3>1, TopologyAssumption
      <4> QED
        BY <4>1
    <3> QED
      BY <1>2, <3>1, <3>2
  <2>4. d \in Neighbours(T, id)
    <3>1. CASE wide = {}
      BY <1>4, <3>1 DEF Neighbours
    <3>2. CASE wide # {}
      BY <1>4, <2>3, <3>2 DEF Neighbours
    <3> QED
      BY <3>1, <3>2
  <2>5. \/ \E u \in {"L3", "MBA", "SMBA"} : assoc[d] < NumClasses(u)
        \/ Dom["L2"][d] = id["L2"]
    BY <1>1, <2>1 DEF AllTech
  <2> QED
    BY <2>4, <2>5 DEF UsedClasses
<1> QED
  BY <1>3, <1>4

\* The ids hw_alloc_assign() passes on are those of every core of the caller.
LEMMA AssignedIds ==
  ASSUME NEW T \in SUBSET AllTech, NEW S \in SUBSET Core, OneEntity(T, S),
         NEW c \in S, NEW u \in T, u # "L2" \/ T = {"L2"}
  PROVE  AssignIds(T, S)[u] = Dom[u][c]
<1> DEFINE e == CHOOSE d \in S : TRUE
<1>1. e \in S
  OBVIOUS
<1>2. AssignIds(T, S)[u] = Dom[u][e]
  BY DEF AssignIds
<1>3. Dom[u][e] = Dom[u][c]
  BY <1>1 DEF OneEntity
<1> QED
  BY <1>2, <1>3

LEMMA AssignStep ==
  ASSUME TypeOK, NEW T \in SUBSET Tech, NEW S \in SUBSET Core, T # {},
         NEW k \in UnusedClasses(T, AssignIds(T, S)), OneEntity(T, S),
         hw_alloc_assoc_write(S, k),
         call' = [op |-> "assign", ret |-> "OK", cores |-> S, tech |-> T,
                  class |-> k],
         cap' = cap
  PROVE  Exclusive'
<1>1. T \in SUBSET AllTech
  BY TechAssumption
<1>2. k \in Nat \ {0} /\ k < NumClosReq(T) /\ k \notin UsedClasses(T, AssignIds(T, S))
  BY <1>1, UnusedIsClass
<1>3. SUFFICES ASSUME NEW t \in Tech, k < NumClasses(t), NEW c \in S,
                      NEW d \in Core \ S, Dom[t][c] = Dom[t][d], assoc[d] = k
               PROVE  FALSE
  BY <1>2 DEF Exclusive, hw_alloc_assoc_write, NumClasses, CapCdp
<1>4. \A u \in T : u # "L2" \/ T = {"L2"} => AssignIds(T, S)[u] = Dom[u][c]
  BY <1>1, AssignedIds
<1>5. assoc[d] \in UsedClasses(T, AssignIds(T, S))
  BY <1>2, <1>3, <1>4, SearchIsComplete
<1> QED
  BY <1>2, <1>3, <1>5

\* A step after which an assign call is the last that returned is that call.
LEMMA OtherCalls ==
  ASSUME Next, ~(\E T \in (SUBSET AllTech) \ {{}}, S \in (SUBSET Core) \ {{}} : hw_alloc_assign(T, S))
  PROVE  call'.op # "assign" \/ phase' # "idle"
<1>1. \A op, ret : Return(op, ret) => call'.op = op
  BY DEF Return
<1>3. Fail \/ Quit \/ Gone => call'.op # "assign"
  BY <1>1 DEF Fail, Quit, Gone
<1>4. ASSUME phase \in AllTech \cup Feature \cup {"assoc"}, Advance
      PROVE  call'.op # "assign" \/ phase' # "idle"
  BY <1>1, <1>4 DEF Advance, NextPhase, AllTech, Feature
<1>5. ASSUME NEW t, NEW i, NEW ca, SetClos(t, i, ca)
      PROVE  call'.op # "assign"
  BY <1>1, <1>5 DEF SetClos, hw_l3ca_set, hw_l2ca_set, hw_mba_set, hw_smba_set_amd,
                    CheckedTable, WriteTable
<1>6. ASSUME NEW t, GetMinCbmBits(t)
      PROVE  call'.op # "assign"
  BY <1>1, <1>6 DEF GetMinCbmBits
<1>7. ASSUME NEW t \in AllTech, ResetClos(t)
      PROVE  call'.op # "assign" \/ phase' # "idle"
  BY <1>3, <1>4, <1>7 DEF ResetClos
<1>8. ASSUME ResetAssoc \/ ResetL3cdp \/ ResetL3iordt \/ ResetL2cdp \/ ResetMba40
      PROVE  call'.op # "assign" \/ phase' # "idle"
  BY <1>3, <1>4, <1>8
  DEF ResetAssoc, ResetL3cdp, ResetL3iordt, ResetL2cdp, ResetMba40, Feature
<1>9. ASSUME PqosInit \/ PqosFini \/ DieSwitching
      PROVE  call'.op # "assign"
  BY <1>1, <1>3, <1>9 DEF PqosInit, PqosFini, DieSwitching
<1>10. ASSUME NEW x, NEW k, \/ hw_alloc_assoc_set(x, k)
                            \/ hw_alloc_release(x)
                            \/ hw_alloc_assoc_set_channel(x, k)
       PROVE  call'.op # "assign"
  BY <1>1, <1>10 DEF hw_alloc_assoc_set, hw_alloc_release, hw_alloc_assoc_set_channel
<1>11. ASSUME NEW r, AllocReset(r)
       PROVE  call'.op # "assign" \/ phase' # "idle"
  BY <1>1, <1>11 DEF AllocReset
<1> QED
  BY <1>5, <1>6, <1>7, <1>8, <1>9, <1>10, <1>11
  DEF Next, ResetL3ca, ResetL2ca, ResetMba, ResetSmba, AllTech,
      hw_l3ca_get_min_cbm_bits, hw_l2ca_get_min_cbm_bits

\* On every platform hw_alloc_assign() gives out a class that no core outside
\* the caller's uses on a shared resource.
THEOREM AssignIsExclusive == Spec => []AssignExclusive
<1>1. Init => AssignExclusive
  BY DEF Init, AssignExclusive
<1>2. TypeOK /\ AssignExclusive /\ [Next]_vars => AssignExclusive'
  <2> SUFFICES ASSUME TypeOK, AssignExclusive, [Next]_vars PROVE AssignExclusive'
    OBVIOUS
  <2>1. ASSUME NEW T \in (SUBSET AllTech) \ {{}}, NEW S \in (SUBSET Core) \ {{}},
               hw_alloc_assign(T, S)
        PROVE  AssignExclusive'
    <3> DEFINE free == UnusedClasses(T, AssignIds(T, S))
    <3>1. SUFFICES ASSUME call'.op = "assign", call'.ret = "OK", call'.tech \subseteq Tech
                   PROVE  Exclusive'
      BY DEF AssignExclusive
    <3>2. PICK k \in Highest(free) :
                 /\ OneEntity(T, S)
                 /\ hw_alloc_assoc_write(S, k)
                 /\ call' = [op |-> "assign", ret |-> "OK", cores |-> S, tech |-> T,
                             class |-> k]
      BY <2>1, <3>1 DEF hw_alloc_assign, Return
    <3>3. k \in free /\ T \subseteq Tech /\ T # {} /\ cap' = cap
      BY <2>1, <3>1, <3>2 DEF Highest, hw_alloc_assign
    <3>4. T \in SUBSET Tech /\ S \in SUBSET Core /\ OneEntity(T, S)
      BY <3>2, <3>3
    <3> HIDE DEF free
    <3>5. hw_alloc_assoc_write(S, k) /\ k \in UnusedClasses(T, AssignIds(T, S))
      BY <3>2, <3>3 DEF free
    <3> QED
      BY <3>2, <3>3, <3>4, <3>5, AssignStep
  <2>2. CASE UNCHANGED vars
    BY <2>2 DEF vars, AssignExclusive, Exclusive, NumClasses, CapCdp
  <2> QED
    BY <2>1, <2>2, OtherCalls DEF AssignExclusive
<1> QED
  BY <1>1, <1>2, TypeCorrect, PTL DEF Spec

-----------------------------------------------------------------------------
(* The reset *)

\* The parts of a reset that come after technology t, with those of the
\* features, which come after them all.
After(t) ==
  CASE t = "L3" -> {"L2", "MBA", "SMBA", "assoc"} \cup Feature
    [] t = "L2" -> {"MBA", "SMBA", "assoc"} \cup Feature
    [] t = "MBA" -> {"SMBA", "assoc"} \cup Feature
    [] t = "SMBA" -> {"assoc"} \cup Feature

\* What a reset has done when it reaches a part: this is what ResetRestores
\* lacks to be inductive.
ResetProgress ==
  /\ \A t \in Tech : phase \in After(t) => \A s \in Slot : s[1] = t => clos[s] = Full
  /\ phase \in Feature => \A c \in Core : assoc[c] = 0

RestoreInv == ResetProgress /\ ResetRestores

\* A register of a technology is below the bound of its reset: with CDP on
\* that takes doubling the halved number of classes.
LEMMA SlotBound ==
  ASSUME NEW s \in Slot
  PROVE  s[1] \in Tech /\ s[3] < MaxClos(s[1])
<1>1. PICK t \in Tech : s \in {t} \X Ids(t) \X (0 .. NumClos[t] - 1)
  BY DEF Slot
<1>2. s[1] = t /\ s[3] \in 0 .. NumClos[t] - 1
  BY <1>1
<1>3. t \in AllTech /\ NumClos[t] \in Nat
  BY TechAssumption
<1>4. MaxClos(t) = NumClos[t]
  <2>1. CASE CapCdp(t)
    <3>1. t \in {"L3", "L2"}
      BY <1>3, <2>1, FeatureAssumption DEF CapCdp, CdpOf, AllTech, Feature
    <3>2. CdpOf(t) \in Supported \cap {"l3cdp", "l2cdp"} /\ TechOf(CdpOf(t)) = t
      BY <2>1, <3>1 DEF CapCdp, CdpOf, TechOf
    <3>3. NumClos[t] % 2 = 0
      BY <3>2, EvenAssumption
    <3>4. NumClasses(t) = NumClos[t] \div 2
      BY <1>1, <2>1 DEF NumClasses
    <3> QED
      BY <1>3, <2>1, <3>3, <3>4 DEF MaxClos
  <2>2. CASE ~CapCdp(t)
    BY <1>1, <2>2 DEF MaxClos, NumClasses
  <2> QED
    BY <2>1, <2>2
<1> QED
  BY <1>1, <1>2, <1>3, <1>4

\* While the library is idle or off a step that returns from no reset cannot
\* break the invariant.
LEMMA NoResetReturns ==
  ASSUME call'.op # "reset", phase' \in {"idle", "off"}
  PROVE  RestoreInv'
<1>1. phase' \notin Feature /\ \A t \in AllTech : phase' \notin After(t)
  BY DEF After, Feature, AllTech
<1> QED
  BY <1>1, TechAssumption DEF RestoreInv, ResetProgress, ResetRestores

LEMMA FailKeeps ==
  ASSUME Fail
  PROVE  RestoreInv'
<1>1. phase' = "idle" /\ call'.ret = "ERROR"
  BY DEF Fail, Return
<1>2. phase' \notin Feature /\ \A t \in AllTech : phase' \notin After(t)
  BY <1>1 DEF After, Feature, AllTech
<1> QED
  BY <1>1, <1>2, TechAssumption DEF RestoreInv, ResetProgress, ResetRestores

\* A part of the reset that only switches a feature.
LEMMA FeatureKeeps ==
  ASSUME RestoreInv, phase \in Feature, Advance, UNCHANGED <<assoc, clos>>
  PROVE  RestoreInv'
<1>1. \A c \in Core : assoc[c] = 0
  BY DEF RestoreInv, ResetProgress
<1>2. \A t \in Tech : phase \in After(t)
  BY TechAssumption DEF After, Feature, AllTech
<1>3. \A t \in Tech : \A s \in Slot : s[1] = t => clos[s] = Full
  BY <1>2 DEF RestoreInv, ResetProgress
<1>4. \A s \in Slot : clos[s] = Full
  BY <1>3, SlotBound
<1> QED
  BY <1>1, <1>4 DEF RestoreInv, ResetProgress, ResetRestores

LEMMA ClosKeeps ==
  ASSUME RestoreInv, "mem" \notin Faults, NEW t \in AllTech, ResetClos(t)
  PROVE  RestoreInv'
<1> DEFINE mine == {s \in Slot : s[1] = t /\ s[3] < MaxClos(t)}
<1>1. CASE Fail
  BY <1>1, FailKeeps
<1>2. CASE Advance /\ clos' = [s \in Slot |-> IF s \in mine THEN Full ELSE clos[s]]
  <2>1. \A s \in Slot : s[1] = t => clos'[s] = Full
    BY <1>2, SlotBound
  <2>2. \A s \in Slot : clos[s] = Full => clos'[s] = Full
    BY <1>2
  <2>3. phase = t /\ phase' = NextPhase(t)
    BY <1>2 DEF ResetClos, Advance
  <2>4. phase' \notin Feature \cup {"idle"}
    BY <2>3 DEF NextPhase, AllTech, Feature
  <2>5. ASSUME NEW u \in Tech, phase' \in After(u)
        PROVE  u = t \/ phase \in After(u)
    <3>1. u \in AllTech
      BY TechAssumption
    <3> QED
      BY <2>3, <2>5, <3>1 DEF After, NextPhase, AllTech, Feature
  <2>6. \A u \in Tech : phase' \in After(u) => \A s \in Slot : s[1] = u => clos'[s] = Full
    BY <2>1, <2>2, <2>5 DEF RestoreInv, ResetProgress
  <2> QED
    BY <2>4, <2>6 DEF RestoreInv, ResetProgress, ResetRestores
<1> QED
  BY <1>1, <1>2 DEF ResetClos, Can

LEMMA AssocKeeps ==
  ASSUME RestoreInv, ResetAssoc
  PROVE  RestoreInv'
<1>1. CASE Fail
  BY <1>1, FailKeeps
<1>2. CASE Advance /\ assoc' = [c \in Core |-> 0]
  <2>1. phase = "assoc" /\ phase' = "l3cdp" /\ clos' = clos
    BY <1>2 DEF ResetAssoc, Advance, NextPhase
  <2>2. \A t \in Tech : phase \in After(t)
    BY <2>1, TechAssumption DEF After, AllTech
  <2>3. \A t \in Tech : \A s \in Slot : s[1] = t => clos'[s] = Full
    BY <2>1, <2>2 DEF RestoreInv, ResetProgress
  <2> QED
    BY <1>2, <2>1, <2>3 DEF RestoreInv, ResetProgress, ResetRestores
<1> QED
  BY <1>1, <1>2 DEF ResetAssoc

LEMMA RestoreStep ==
  ASSUME "mem" \notin Faults, RestoreInv, [Next]_vars
  PROVE  RestoreInv'
<1>1. \A op, ret : Return(op, ret) => call'.op = op
  BY DEF Return
<1>2. ASSUME PqosInit \/ PqosFini \/ DieSwitching
      PROVE  call'.op # "reset" /\ phase' \in {"idle", "off"}
  BY <1>1, <1>2 DEF PqosInit, PqosFini, DieSwitching, Gone
<1>3. ASSUME NEW x, NEW k, \/ hw_alloc_assoc_set(x, k)
                           \/ hw_alloc_release(x)
                           \/ hw_alloc_assoc_set_channel(x, k)
      PROVE  call'.op # "reset" /\ phase' = "idle"
  BY <1>1, <1>3 DEF hw_alloc_assoc_set, hw_alloc_release, hw_alloc_assoc_set_channel
<1>4. ASSUME NEW T, NEW S, hw_alloc_assign(T, S)
      PROVE  call'.op # "reset" /\ phase' = "idle"
  BY <1>1, <1>4 DEF hw_alloc_assign
<1>5. ASSUME NEW t, NEW i, NEW ca, SetClos(t, i, ca)
      PROVE  call'.op # "reset" /\ phase' = "idle"
  BY <1>1, <1>5 DEF SetClos, SetCall, hw_l3ca_set, hw_l2ca_set, hw_mba_set,
                    hw_smba_set_amd, CheckedTable, WriteTable
<1>6. ASSUME NEW t, GetMinCbmBits(t)
      PROVE  call'.op # "reset" /\ phase' = "idle"
  BY <1>1, <1>6 DEF GetMinCbmBits
<1>7. ASSUME NEW r, AllocReset(r)
      PROVE  RestoreInv'
  <2>1. phase' \notin Feature /\ \A t \in Tech : phase' \notin After(t)
    BY <1>7, TechAssumption DEF AllocReset, After, Feature, AllTech
  <2>2. phase' # "idle" \/ call'.ret # "OK"
    BY <1>7 DEF AllocReset, Return
  <2> QED
    BY <2>1, <2>2 DEF RestoreInv, ResetProgress, ResetRestores
<1>8. ASSUME ResetL3cdp \/ ResetL3iordt \/ ResetL2cdp \/ ResetMba40
      PROVE  RestoreInv'
  BY <1>8, FeatureKeeps, FailKeeps
  DEF ResetL3cdp, ResetL3iordt, ResetL2cdp, ResetMba40, Feature
<1>9. CASE UNCHANGED vars
  BY <1>9 DEF vars, RestoreInv, ResetProgress, ResetRestores
<1> QED
  BY <1>2, <1>3, <1>4, <1>5, <1>6, <1>7, <1>8, <1>9, NoResetReturns, ClosKeeps, AssocKeeps
  DEF Next, ResetL3ca, ResetL2ca, ResetMba, ResetSmba, AllTech,
      hw_l3ca_get_min_cbm_bits, hw_l2ca_get_min_cbm_bits

\* Whatever errors and earlier resets came before, a reset that returns OK has
\* put every core into class 0 and opened every class, on every platform,
\* provided there is memory for the lists of resource ids.
THEOREM ResetDoesRestore ==
  ASSUME "mem" \notin Faults
  PROVE  Spec => []ResetRestores
<1>1. Init => RestoreInv
  BY TechAssumption
  DEF Init, RestoreInv, ResetProgress, ResetRestores, After, Feature, AllTech
<1>2. RestoreInv /\ [Next]_vars => RestoreInv'
  BY RestoreStep
<1>3. RestoreInv => ResetRestores
  BY DEF RestoreInv
<1> QED
  BY <1>1, <1>2, <1>3, PTL DEF Spec

-----------------------------------------------------------------------------
(* The probe for the minimum number of mask bits *)

LEMMA ProbeStep ==
  ASSUME TypeOK, NEW t \in {"L3", "L2"}, GetMinCbmBits(t), NEW c \in Core, NEW u \in Tech,
         assoc[c] < NumClasses(u), NEW m,
         <<u, Dom[u][c], m>> \in Slot, ClassOf(u, m) = assoc[c]
  PROVE  clos'[<<u, Dom[u][c], m>>] = clos[<<u, Dom[u][c], m>>]
<1> DEFINE ids(j) == [v \in AllTech |-> IF v = t THEN j ELSE 0]
           slot == <<u, Dom[u][c], m>>
<1>1. SUFFICES ASSUME ~UNCHANGED clos PROVE clos'[slot] = clos[slot]
  OBVIOUS
<1>2. \E j \in Ids(t), d \in Def : \E k \in UnusedClasses({t}, ids(j)) :
        \E W \in SUBSET Touched(t, j, {k}) :
          clos' = [s \in Slot |-> IF s \in W THEN d ELSE clos[s]]
  BY <1>1, Zenon DEF GetMinCbmBits, Highest
<1>3. PICK j \in Ids(t), d \in Def : \E k \in UnusedClasses({t}, ids(j)) :
        \E W \in SUBSET Touched(t, j, {k}) :
          clos' = [s \in Slot |-> IF s \in W THEN d ELSE clos[s]]
  BY <1>2
<1>4. PICK k \in UnusedClasses({t}, ids(j)) : \E W \in SUBSET Touched(t, j, {k}) :
        clos' = [s \in Slot |-> IF s \in W THEN d ELSE clos[s]]
  BY <1>3
<1>5. PICK W \in SUBSET Touched(t, j, {k}) :
        clos' = [s \in Slot |-> IF s \in W THEN d ELSE clos[s]]
  BY <1>4
<1>6. SUFFICES ASSUME slot \in W PROVE FALSE
  BY <1>5
<1>7. u = t /\ Dom[u][c] = j /\ assoc[c] = k
  BY <1>3, <1>6 DEF Touched
<1>8. t \in AllTech /\ t \in Tech
  BY <1>7, TechAssumption
<1>9. k \in Nat /\ k < NumClosReq({t}) /\ k \notin UsedClasses({t}, ids(j))
  BY <1>3, <1>8, UnusedIsClass
<1>10. ids(j)[t] = Dom[t][c]
  BY <1>7, <1>8
<1>11. assoc[c] \in UsedClasses({t}, ids(j))
  <2> HIDE DEF ids
  <2> QED
    BY <1>7, <1>8, <1>9, <1>10, SearchIsComplete
<1> QED
  BY <1>7, <1>9, <1>11

\* Probing never changes the definition of a class some core uses, not even
\* when a register access fails half way: the class it borrows is one the
\* search found unused.
THEOREM ProbingIsHarmless == Spec => ProbeIsHarmless
<1>1. ASSUME TypeOK, hw_l3ca_get_min_cbm_bits \/ hw_l2ca_get_min_cbm_bits,
             NEW c \in Core, NEW u \in Tech, assoc[c] < NumClasses(u)
      PROVE  GetClos(u, Dom[u][c], assoc[c])' = GetClos(u, Dom[u][c], assoc[c])
  <2>1. PICK t \in {"L3", "L2"} : GetMinCbmBits(t)
    BY <1>1 DEF hw_l3ca_get_min_cbm_bits, hw_l2ca_get_min_cbm_bits
  <2>2. cap' = cap /\ assoc' = assoc
    BY <2>1 DEF GetMinCbmBits
  <2>3. u \in AllTech /\ NumClos[u] \in Nat /\ Dom[u][c] \in Ids(u)
    BY TechAssumption DEF Ids
  <2>4. assoc[c] \in Nat
    <3>1. assoc[c] \in Class
      BY <1>1 DEF TypeOK
    <3> QED
      BY <3>1, TechAssumption DEF Class
  <2>5. \A m \in 0 .. NumClos[u] - 1 : <<u, Dom[u][c], m>> \in Slot
    BY <2>3 DEF Slot
  <2>6. CASE CapCdp(u)
    <3>1. assoc[c] < NumClos[u] \div 2
      BY <1>1, <2>6 DEF NumClasses
    <3>2. 2 * assoc[c] \in 0 .. NumClos[u] - 1 /\ 2 * assoc[c] + 1 \in 0 .. NumClos[u] - 1
      BY <2>3, <2>4, <3>1
    <3>3. ClassOf(u, 2 * assoc[c]) = assoc[c] /\ ClassOf(u, 2 * assoc[c] + 1) = assoc[c]
      BY <2>4, <2>6 DEF ClassOf
    <3>4. /\ clos'[<<u, Dom[u][c], 2 * assoc[c]>>] = clos[<<u, Dom[u][c], 2 * assoc[c]>>]
          /\ clos'[<<u, Dom[u][c], 2 * assoc[c] + 1>>] = clos[<<u, Dom[u][c], 2 * assoc[c] + 1>>]
      BY <1>1, <2>1, <2>5, <3>2, <3>3, ProbeStep
    <3> QED
      BY <2>2, <2>6, <3>4 DEF GetClos, CapCdp
  <2>7. CASE ~CapCdp(u)
    <3>1. assoc[c] \in 0 .. NumClos[u] - 1 /\ ClassOf(u, assoc[c]) = assoc[c]
      BY <1>1, <2>3, <2>4, <2>7 DEF NumClasses, ClassOf
    <3>2. clos'[<<u, Dom[u][c], assoc[c]>>] = clos[<<u, Dom[u][c], assoc[c]>>]
      BY <1>1, <2>1, <2>5, <3>1, ProbeStep
    <3> QED
      BY <2>2, <2>7, <3>2 DEF GetClos, CapCdp
  <2> QED
    BY <2>6, <2>7
<1>2. TypeOK => (hw_l3ca_get_min_cbm_bits \/ hw_l2ca_get_min_cbm_bits =>
        \A c \in Core : \A t \in Tech : assoc[c] < NumClasses(t) =>
          GetClos(t, Dom[t][c], assoc[c])' = GetClos(t, Dom[t][c], assoc[c]))
  BY <1>1
<1> QED
  BY <1>2, TypeCorrect, PTL DEF ProbeIsHarmless

-----------------------------------------------------------------------------
(* What the library believes of the registers *)

\* Not only between calls but at every part of a reset: this is what
\* CapMatchesHw lacks to be inductive.
CapAgrees ==
  phase # "off" => \A k \in Knob : k[1] # "mba40" => feat[k] = cap[k[1]]

LEMMA KnobIs ==
  ASSUME NEW k \in Knob
  PROVE  k[1] \in Supported /\ k[2] \in Ids(TechOf(k[1]))
<1>1. PICK f \in Supported : k \in {f} \X Ids(TechOf(f))
  BY DEF Knob
<1> QED
  BY <1>1

\* Where the bits of a feature do not differ, Enabled() is what they all are.
LEMMA UniformIsEnabled ==
  ASSUME TypeOK, NEW k \in Knob, Uniform(k[1])
  PROVE  feat[k] = Enabled(k[1])
<1>1. feat[k] \in {"on", "off"}
  BY DEF TypeOK, Setting
<1> QED
  BY <1>1 DEF Uniform, Enabled

LEMMA UniformIsEnabledNext ==
  ASSUME TypeOK', NEW k \in Knob, Uniform(k[1])'
  PROVE  feat'[k] = Enabled(k[1])'
<1>1. feat'[k] \in {"on", "off"}
  BY DEF TypeOK, Setting
<1> QED
  BY <1>1 DEF Uniform, Enabled

\* Writing the bits of one feature on every resource leaves them alike, and
\* leaves the bits of the others as they were.
LEMMA SwitchedAlike ==
  ASSUME CapAgrees, phase # "off", NEW f \in Feature, SwitchAll(f)
  PROVE  /\ \A k \in Knob : k[1] # f => feat'[k] = feat[k]
         /\ \A k \in Knob : k[1] = f /\ f # "mba40" => feat'[k] = Follow(f)
         /\ \A g \in Feature \ {"mba40"} : Uniform(g)'
<1>1. \A k \in Knob : feat'[k] = IF k[1] = f /\ Turn(f) THEN Asked(f) ELSE feat[k]
  BY DEF SwitchAll
<1>2. \A k \in Knob : k[1] = f /\ f # "mba40" => feat'[k] = Follow(f)
  BY <1>1 DEF CapAgrees, Follow
<1>3. \A k \in Knob : k[1] # f /\ k[1] # "mba40" => feat'[k] = cap[k[1]]
  BY <1>1 DEF CapAgrees
<1>4. ASSUME NEW g \in Feature \ {"mba40"}
      PROVE  Uniform(g)'
  <2>1. CASE g = f
    BY <1>2, <2>1 DEF Uniform
  <2>2. CASE g # f
    BY <1>3, <2>2 DEF Uniform
  <2> QED
    BY <2>1, <2>2
<1> QED
  BY <1>1, <1>2, <1>4

LEMMA CapStep ==
  ASSUME "msr" \notin Faults, TypeOK, TypeOK', CapAgrees, [Next]_vars
  PROVE  CapAgrees'
<1>1. CASE UNCHANGED <<feat, cap>> /\ (phase = "off" => phase' = "off")
  BY <1>1 DEF CapAgrees
<1>2. CASE PqosInit
  <2>1. CASE UNCHANGED <<feat, cap, phase>>
    BY <2>1 DEF CapAgrees
  <2>2. CASE cap' = Discover /\ \A f \in Supported \ {"mba40"} : Uniform(f)
    <3>1. ASSUME NEW k \in Knob, k[1] # "mba40"
          PROVE  feat'[k] = cap'[k[1]]
      <4>1. k[1] \in Supported /\ Uniform(k[1])
        BY <2>2, <3>1, KnobIs
      <4>2. feat[k] = Enabled(k[1])
        BY <4>1, UniformIsEnabled
      <4>3. feat' = feat
        BY <1>2 DEF PqosInit
      <4> QED
        BY <2>2, <3>1, <4>1, <4>2, <4>3 DEF Discover
    <3> QED
      BY <3>1 DEF CapAgrees
  <2> QED
    BY <1>2, <2>1, <2>2 DEF PqosInit
<1>3. CASE PqosFini \/ DieSwitching
  BY <1>3 DEF PqosFini, DieSwitching, Gone, CapAgrees
<1>4. CASE ResetL3cdp
  <2>1. phase # "off" /\ SwitchAll("l3cdp") /\ CapL3cdpChange
    BY <1>4 DEF ResetL3cdp, hw_alloc_reset_l3cdp, Switch, Can
  <2>2. "l3cdp" \in Feature /\ Supported \cap {"l3cdp", "l3iordt"} \subseteq Feature \ {"mba40"}
    BY DEF Feature
  <2>3. \A f \in Supported \cap {"l3cdp", "l3iordt"} : Uniform(f)'
    BY <2>1, <2>2, SwitchedAlike
  <2>4. cap' = [f \in Supported |-> IF f \in Supported \cap {"l3cdp", "l3iordt"}
                                    THEN Enabled(f)' ELSE cap[f]]
    BY <2>1, <2>3 DEF CapL3cdpChange, Can
  <2>5. ASSUME NEW k \in Knob, k[1] # "mba40"
        PROVE  feat'[k] = cap'[k[1]]
    <3>1. k[1] \in Supported
      BY KnobIs
    <3>2. CASE k[1] \in {"l3cdp", "l3iordt"}
      BY <2>3, <2>4, <3>1, <3>2, UniformIsEnabledNext
    <3>3. CASE k[1] \notin {"l3cdp", "l3iordt"}
      BY <2>1, <2>2, <2>4, <2>5, <3>1, <3>3, SwitchedAlike DEF CapAgrees
    <3> QED
      BY <3>2, <3>3
  <2> QED
    BY <2>5 DEF CapAgrees
<1>5. CASE ResetL3iordt
  <2>1. /\ phase # "off" /\ SwitchAll("l3iordt") /\ "l3iordt" \in Feature
        /\ cap' = [f \in Supported |-> IF f = "l3iordt" THEN Follow(f) ELSE cap[f]]
    BY <1>5 DEF ResetL3iordt, hw_alloc_reset_l3iordt, Switch, Can, Feature
  <2>2. ASSUME NEW k \in Knob, k[1] # "mba40"
        PROVE  feat'[k] = cap'[k[1]]
    BY <2>1, <2>2, KnobIs, SwitchedAlike DEF CapAgrees
  <2> QED
    BY <2>2 DEF CapAgrees
<1>6. CASE ResetL2cdp
  <2>1. phase # "off" /\ SwitchAll("l2cdp") /\ CapL2cdpChange /\ "l2cdp" \in Feature
    BY <1>6 DEF ResetL2cdp, hw_alloc_reset_l2cdp, Switch, Can, Feature
  <2>2. Uniform("l2cdp")'
    BY <2>1, SwitchedAlike
  <2>3. cap' = [f \in Supported |-> IF f = "l2cdp" THEN Enabled("l2cdp")' ELSE cap[f]]
    BY <2>1, <2>2 DEF CapL2cdpChange, Can
  <2>4. ASSUME NEW k \in Knob, k[1] # "mba40"
        PROVE  feat'[k] = cap'[k[1]]
    <3>1. CASE k[1] = "l2cdp"
      BY <2>2, <2>3, <3>1, KnobIs, UniformIsEnabledNext
    <3>2. CASE k[1] # "l2cdp"
      BY <2>1, <2>3, <2>4, <3>2, KnobIs, SwitchedAlike DEF CapAgrees
    <3> QED
      BY <3>1, <3>2
  <2> QED
    BY <2>4 DEF CapAgrees
<1>7. CASE ResetMba40
  <2>1. phase # "off" /\ SwitchAll("mba40") /\ "mba40" \in Feature /\ cap' = cap
    BY <1>7 DEF ResetMba40, hw_alloc_reset_mba40, Switch, Can, Feature
  <2> QED
    BY <2>1, SwitchedAlike DEF CapAgrees
<1>8. ASSUME NEW x, NEW k, \/ hw_alloc_assoc_set(x, k) \/ hw_alloc_release(x)
                           \/ hw_alloc_assoc_set_channel(x, k) \/ hw_alloc_assign(x, k)
                           \/ GetMinCbmBits(x) \/ AllocReset(x)
      PROVE  UNCHANGED <<feat, cap>> /\ (phase = "off" => phase' = "off")
  BY <1>8 DEF hw_alloc_assoc_set, hw_alloc_release, hw_alloc_assoc_set_channel,
              hw_alloc_assign, GetMinCbmBits, AllocReset
<1>9. ASSUME NEW t, NEW i, NEW ca, SetClos(t, i, ca)
      PROVE  UNCHANGED <<feat, cap>> /\ (phase = "off" => phase' = "off")
  BY <1>9 DEF SetClos, SetCall, hw_l3ca_set, hw_l2ca_set, hw_mba_set, hw_smba_set_amd
<1>10. ASSUME ResetAssoc \/ \E t \in AllTech : ResetClos(t)
       PROVE  UNCHANGED <<feat, cap>> /\ phase # "off"
  BY <1>10 DEF ResetAssoc, ResetClos, AllTech
<1>11. CASE UNCHANGED vars
  BY <1>1, <1>11 DEF vars
<1> QED
  BY <1>1, <1>2, <1>3, <1>4, <1>5, <1>6, <1>7, <1>8, <1>9, <1>10, <1>11
  DEF Next, ResetL3ca, ResetL2ca, ResetMba, ResetSmba, AllTech,
      hw_l3ca_get_min_cbm_bits, hw_l2ca_get_min_cbm_bits

LEMMA CapInvariant ==
  ASSUME "msr" \notin Faults
  PROVE  Spec => []CapAgrees
<1>1. Init => CapAgrees
  BY DEF Init, CapAgrees
<1>2. TypeOK /\ TypeOK' /\ CapAgrees /\ [Next]_vars => CapAgrees'
  BY CapStep
<1> QED
  BY <1>1, <1>2, TypeCorrect, PTL DEF Spec

\* As long as registers can be read and written, what the library believes of
\* CDP and I/O RDT is what the registers of every resource say, after any
\* sequence of resets, deaths inside a reset and new initialisations.
THEOREM CapIsTrue ==
  ASSUME "msr" \notin Faults
  PROVE  Spec => []CapMatchesHw
<1>1. CapAgrees => CapMatchesHw
  BY DEF CapAgrees, CapMatchesHw
<1> QED
  BY <1>1, CapInvariant, PTL

-----------------------------------------------------------------------------
(* The classes the cores are in *)

\* Features are switched only after every core was put into class 0: this is
\* what ClassesExist lacks to be inductive.
SwitchedUnused == phase \in Feature => \A c \in Core : assoc[c] = 0

\* CDP leaves a technology at least one class.
LEMMA HalfRemains ==
  ASSUME NEW t \in Tech
  PROVE  /\ NumClos[t] \in Nat /\ NumClos[t] > 0
         /\ CdpOf(t) \in Supported => NumClos[t] \div 2 > 0 /\ TechOf(CdpOf(t)) = t
<1>1. t \in AllTech /\ NumClos[t] \in Nat /\ NumClos[t] > 0
  BY TechAssumption
<1>2. CASE CdpOf(t) \in Supported
  <2>1. t \in {"L3", "L2"}
    BY <1>1, <1>2, FeatureAssumption DEF CdpOf, AllTech, Feature
  <2>2. CdpOf(t) \in Supported \cap {"l3cdp", "l2cdp"} /\ TechOf(CdpOf(t)) = t
    BY <1>2, <2>1 DEF CdpOf, TechOf
  <2>3. NumClos[t] % 2 = 0
    BY <2>2, EvenAssumption
  <2> QED
    BY <1>1, <2>2, <2>3
<1> QED
  BY <1>1, <1>2

\* Class 0 exists everywhere.
LEMMA ZeroExists ==
  ASSUME Tech # {}, \A c \in Core : assoc'[c] = 0
  PROVE  ClassesExist'
<1>1. PICK t \in Tech : TRUE
  OBVIOUS
<1>2. \A i : HwClasses(t, i)' > 0
  BY HalfRemains DEF HwClasses
<1> QED
  BY <1>2 DEF ClassesExist

\* What the library takes for a class of a technology is one on every resource.
LEMMA BelowExists ==
  ASSUME CapAgrees, phase = "idle", NEW t \in AllTech, NEW k \in Nat, k < NumClasses(t),
         NEW c \in Core
  PROVE  t \in Tech /\ k < HwClasses(t, Dom[t][c])
<1>1. t \in Tech /\ NumClos[t] \in Nat
  BY TechAssumption DEF NumClasses
<1>2. CASE CdpOf(t) \in Supported
  <2> DEFINE f == CdpOf(t)
  <2>1. TechOf(f) = t /\ f # "mba40"
    BY <1>1, <1>2, HalfRemains DEF CdpOf
  <2>2. <<f, Dom[t][c]>> \in Knob
    BY <1>2, <2>1 DEF Knob, Ids
  <2> HIDE DEF f
  <2>3. feat[<<f, Dom[t][c]>>] = cap[f]
    BY <2>1, <2>2 DEF CapAgrees
  <2> QED
    BY <1>1, <1>2, <2>3 DEF HwClasses, NumClasses, CapCdp, f
<1>3. CASE CdpOf(t) \notin Supported
  BY <1>1, <1>3 DEF HwClasses, NumClasses, CapCdp
<1> QED
  BY <1>1, <1>2, <1>3

\* A write to PQR_ASSOC of a class some technology has, or of class 0.
LEMMA WriteExists ==
  ASSUME CapAgrees, phase = "idle", ClassesExist, NEW W, NEW t \in AllTech,
         NEW k \in Nat, k < NumClasses(t), hw_alloc_assoc_write(W, k), feat' = feat
  PROVE  ClassesExist'
<1> SUFFICES ASSUME NEW c \in Core
             PROVE  \E u \in Tech : assoc'[c] < HwClasses(u, Dom[u][c])
  BY DEF ClassesExist, HwClasses
<1>1. CASE c \in W
  BY <1>1, BelowExists DEF hw_alloc_assoc_write
<1>2. CASE c \notin W
  BY <1>2 DEF hw_alloc_assoc_write, ClassesExist
<1> QED
  BY <1>1, <1>2

LEMMA SameExists ==
  ASSUME ClassesExist, feat' = feat, \A c \in Core : assoc'[c] \in {assoc[c], 0}
  PROVE  ClassesExist'
<1> SUFFICES ASSUME NEW c \in Core
             PROVE  \E u \in Tech : assoc'[c] < HwClasses(u, Dom[u][c])
  BY DEF ClassesExist, HwClasses
<1>1. PICK u \in Tech : assoc[c] < HwClasses(u, Dom[u][c])
  BY DEF ClassesExist
<1>2. HwClasses(u, Dom[u][c]) > 0
  BY HalfRemains DEF HwClasses
<1> QED
  BY <1>1, <1>2

LEMMA ClassesStep ==
  ASSUME "msr" \notin Faults, Tech # {}, TypeOK, CapAgrees, SwitchedUnused, ClassesExist,
         [Next]_vars
  PROVE  ClassesExist' /\ SwitchedUnused'
<1>1. CASE phase \in Feature /\ assoc' = assoc
  BY <1>1, ZeroExists DEF SwitchedUnused
<1>2. ASSUME UNCHANGED <<assoc, feat>>, phase' = phase \/ phase' \notin Feature
      PROVE  ClassesExist' /\ SwitchedUnused'
  BY <1>2, SameExists DEF SwitchedUnused
<1>3. CASE PqosInit \/ PqosFini
  <2>1. UNCHANGED <<assoc, feat>> /\ (phase' = phase \/ phase' \notin Feature)
    BY <1>3 DEF PqosInit, PqosFini, Gone, hw, Feature
  <2> QED
    BY <1>2, <2>1
<1>4. CASE DieSwitching \/ ResetL3cdp \/ ResetL3iordt \/ ResetL2cdp \/ ResetMba40
  <2>1. phase \in Feature /\ assoc' = assoc
    BY <1>4 DEF DieSwitching, ResetL3cdp, ResetL3iordt, ResetL2cdp, ResetMba40, Feature
  <2> QED
    BY <1>1, <2>1 DEF SwitchedUnused
<1>5. ASSUME NEW c \in Core, NEW k \in Class, hw_alloc_assoc_set(c, k)
      PROVE  ClassesExist' /\ SwitchedUnused'
  <2>1. phase = "idle" /\ phase' = "idle" /\ "idle" \notin Feature /\ feat' = feat
    BY <1>5 DEF hw_alloc_assoc_set, Feature
  <2>2. CASE UNCHANGED assoc
    BY <1>2, <2>1, <2>2
  <2>3. CASE hw_alloc_assoc_write({c}, k) /\ \E t \in {"L3", "L2", "MBA"} : k < NumClasses(t)
    <3>1. k \in Nat
      BY TechAssumption DEF Class
    <3>2. PICK t \in AllTech : k < NumClasses(t)
      BY <2>3 DEF AllTech
    <3> QED
      BY <2>1, <2>3, <3>1, <3>2, WriteExists DEF SwitchedUnused
  <2> QED
    BY <1>5, <2>2, <2>3 DEF hw_alloc_assoc_set
<1>6. ASSUME NEW T \in SUBSET AllTech, NEW S \in SUBSET Core, hw_alloc_assign(T, S)
      PROVE  ClassesExist' /\ SwitchedUnused'
  <2> DEFINE free == UnusedClasses(T, AssignIds(T, S))
  <2>1. phase = "idle" /\ phase' = "idle" /\ "idle" \notin Feature /\ feat' = feat
    BY <1>6 DEF hw_alloc_assign, Feature
  <2>2. CASE UNCHANGED assoc
    BY <1>2, <2>1, <2>2
  <2>3. CASE \E k \in free : \E W : hw_alloc_assoc_write(W, k)
    <3> PICK k \in free : \E W : hw_alloc_assoc_write(W, k)
      BY <2>3
    <3>1. PICK W : hw_alloc_assoc_write(W, k)
      OBVIOUS
    <3>2. k \in Nat \ {0} /\ k < NumClosReq(T)
      BY UnusedIsClass
    <3>3. PICK t \in AllTech : NumClosReq(T) = NumClasses(t)
      BY <3>2, RequestBound
    <3> QED
      BY <2>1, <3>1, <3>2, <3>3, WriteExists DEF SwitchedUnused
  <2> HIDE DEF free
  <2> QED
    BY <1>6, <2>2, <2>3 DEF hw_alloc_assign, Highest, free
<1>7. ASSUME NEW S, hw_alloc_release(S)
      PROVE  ClassesExist' /\ SwitchedUnused'
  <2>1. phase' = "idle" /\ feat' = feat
    BY <1>7 DEF hw_alloc_release
  <2>2. \A c \in Core : assoc'[c] \in {assoc[c], 0}
    BY <1>7 DEF hw_alloc_release, hw_alloc_assoc_write
  <2> QED
    BY <2>1, <2>2, SameExists DEF SwitchedUnused, Feature
<1>8. ASSUME NEW x, NEW k, \/ hw_alloc_assoc_set_channel(x, k)
                           \/ GetMinCbmBits(x) \/ AllocReset(x)
      PROVE  UNCHANGED <<assoc, feat>> /\ phase' \notin Feature
  BY <1>8 DEF hw_alloc_assoc_set_channel, GetMinCbmBits, AllocReset, Feature
<1>9. ASSUME NEW t, NEW i, NEW ca, SetClos(t, i, ca)
      PROVE  UNCHANGED <<assoc, feat>> /\ phase' \notin Feature
  BY <1>9 DEF SetClos, SetCall, hw_l3ca_set, hw_l2ca_set, hw_mba_set, hw_smba_set_amd, Feature
<1>10. ASSUME NEW t \in AllTech, ResetClos(t)
       PROVE  UNCHANGED <<assoc, feat>> /\ phase' \notin Feature
  BY <1>10 DEF ResetClos, AllTech, Advance, NextPhase, Fail, Quit, Feature
<1>11. CASE ResetAssoc
  <2>1. feat' = feat /\ \A c \in Core : assoc'[c] \in {assoc[c], 0}
    BY <1>11 DEF ResetAssoc
  <2>2. phase' \in Feature => \A c \in Core : assoc'[c] = 0
    BY <1>11 DEF ResetAssoc, Fail, Feature
  <2> QED
    BY <2>1, <2>2, SameExists DEF SwitchedUnused
<1>12. CASE UNCHANGED vars
  BY <1>2, <1>12 DEF vars
<1> QED
  BY <1>2, <1>3, <1>4, <1>5, <1>6, <1>7, <1>8, <1>9, <1>10, <1>11, <1>12
  DEF Next, ResetL3ca, ResetL2ca, ResetMba, ResetSmba, AllTech,
      hw_l3ca_get_min_cbm_bits, hw_l2ca_get_min_cbm_bits

\* As long as registers can be read and written, no core is ever left in a
\* class that none of its resources has, although CDP halves the number of
\* classes and a process may die at any part of the reset that turns it on.
\* The platform must have a technology at all.
THEOREM CoresHaveClasses ==
  ASSUME "msr" \notin Faults, Tech # {}
  PROVE  Spec => []ClassesExist
<1>1. Init => ClassesExist /\ SwitchedUnused
  <2> SUFFICES ASSUME Init PROVE ClassesExist /\ SwitchedUnused
    OBVIOUS
  <2>1. PICK t \in Tech : TRUE
    OBVIOUS
  <2>2. \A i : HwClasses(t, i) > 0
    BY HalfRemains DEF HwClasses
  <2> QED
    BY <2>2 DEF Init, ClassesExist, SwitchedUnused
<1>2. TypeOK /\ CapAgrees /\ (ClassesExist /\ SwitchedUnused) /\ [Next]_vars
        => (ClassesExist /\ SwitchedUnused)'
  BY ClassesStep
<1> QED
  BY <1>1, <1>2, TypeCorrect, CapInvariant, PTL DEF Spec

-----------------------------------------------------------------------------
(* Setting the definition of a class *)

\* The registers of a class the library knows are there, and belong to it.
LEMMA SlotsOfClass ==
  ASSUME NEW u \in Tech, NEW j \in Ids(u), NEW k \in Nat, k < NumClasses(u)
  PROVE  /\ CapCdp(u) => /\ <<u, j, 2 * k>> \in Slot /\ <<u, j, 2 * k + 1>> \in Slot
                         /\ ClassOf(u, 2 * k) = k /\ ClassOf(u, 2 * k + 1) = k
         /\ ~CapCdp(u) => <<u, j, k>> \in Slot /\ ClassOf(u, k) = k
<1>1. NumClos[u] \in Nat /\ \A m \in 0 .. NumClos[u] - 1 : <<u, j, m>> \in Slot
  BY TechAssumption DEF Slot
<1>2. CASE CapCdp(u)
  <2>1. k < NumClos[u] \div 2
    BY <1>2 DEF NumClasses
  <2>2. 2 * k \in 0 .. NumClos[u] - 1 /\ 2 * k + 1 \in 0 .. NumClos[u] - 1
    BY <1>1, <2>1
  <2>3. (2 * k) \div 2 = k /\ (2 * k + 1) \div 2 = k
    OBVIOUS
  <2> QED
    BY <1>1, <1>2, <2>2, <2>3 DEF ClassOf
<1>3. CASE ~CapCdp(u)
  BY <1>1, <1>3 DEF NumClasses, ClassOf
<1> QED
  BY <1>2, <1>3

LEMMA SetStep ==
  ASSUME NEW t \in Tech, NEW i \in Ids(t), NEW K \in ClassSets(t), NEW ca \in [K -> Entry(t)],
         SetClos(t, i, ca), call'.op = "set", call'.ret = "OK"
  PROVE  /\ \A k \in K :
              GetClos(t, i, k)' =
                IF ~CapCdp(t) THEN <<ca[k].data>>
                ELSE <<ca[k].data, IF ca[k].cdp = "yes" THEN ca[k].code ELSE ca[k].data>>
         /\ \A u \in Tech : \A j \in Ids(u) : \A k \in 0 .. NumClasses(u) - 1 :
              (u # t \/ j # i \/ k \notin K) => GetClos(u, j, k)' = GetClos(u, j, k)
<1>1. DOMAIN ca = K /\ \A k \in K : k \in Nat
  BY TechAssumption DEF ClassSets
<1>2. cap' = cap
  BY DEF SetClos, SetCall, hw_l3ca_set, hw_l2ca_set, hw_mba_set, hw_smba_set_amd
<1>3. WriteTable(t, i, ca)
  BY DEF SetClos, hw_l3ca_set, hw_l2ca_set, hw_mba_set, hw_smba_set_amd, CheckedTable, Return
<1>4. /\ \A k \in K : k < NumClasses(t)
      /\ Write(t, Touched(t, i, K), ca)
  BY <1>1, <1>3 DEF WriteTable, Return
<1>6. \A s \in Slot :
        clos'[s] = IF s[1] = t /\ s[2] = i /\ ClassOf(t, s[3]) \in K
                   THEN Value(t, s[3], ca) ELSE clos[s]
  BY <1>4 DEF Write, Touched
<1>7. ASSUME NEW k \in K
      PROVE  GetClos(t, i, k)' =
                IF ~CapCdp(t) THEN <<ca[k].data>>
                ELSE <<ca[k].data, IF ca[k].cdp = "yes" THEN ca[k].code ELSE ca[k].data>>
  <2>1. k \in Nat /\ k < NumClasses(t)
    BY <1>1, <1>4
  <2>2. CASE CapCdp(t)
    <3>1. /\ <<t, i, 2 * k>> \in Slot /\ <<t, i, 2 * k + 1>> \in Slot
          /\ ClassOf(t, 2 * k) = k /\ ClassOf(t, 2 * k + 1) = k
      BY <2>1, <2>2, SlotsOfClass
    <3>2. (2 * k) % 2 = 0 /\ (2 * k + 1) % 2 = 1
      BY <2>1
    <3>3. clos'[<<t, i, 2 * k>>] = Value(t, 2 * k, ca)
      BY <1>6, <3>1
    <3>4. clos'[<<t, i, 2 * k + 1>>] = Value(t, 2 * k + 1, ca)
      BY <1>6, <3>1
    <3>5. Value(t, 2 * k, ca) = ca[k].data
      BY <3>1, <3>2 DEF Value
    <3>6. Value(t, 2 * k + 1, ca) = IF ca[k].cdp = "yes" THEN ca[k].code ELSE ca[k].data
      BY <2>2, <3>1, <3>2 DEF Value
    <3>7. GetClos(t, i, k)' = <<clos'[<<t, i, 2 * k>>], clos'[<<t, i, 2 * k + 1>>]>>
      BY <1>2, <2>2 DEF GetClos, CapCdp
    <3> QED
      BY <2>2, <3>3, <3>4, <3>5, <3>6, <3>7
  <2>3. CASE ~CapCdp(t)
    <3>1. <<t, i, k>> \in Slot /\ ClassOf(t, k) = k
      BY <2>1, <2>3, SlotsOfClass
    <3>2. clos'[<<t, i, k>>] = ca[k].data
      BY <1>6, <2>3, <3>1 DEF Value
    <3>3. GetClos(t, i, k)' = <<clos'[<<t, i, k>>]>>
      BY <1>2, <2>3 DEF GetClos, CapCdp
    <3> QED
      BY <2>3, <3>2, <3>3
  <2> QED
    BY <2>2, <2>3
<1>8. ASSUME NEW u \in Tech, NEW j \in Ids(u), NEW k \in 0 .. NumClasses(u) - 1,
             u # t \/ j # i \/ k \notin K
      PROVE  GetClos(u, j, k)' = GetClos(u, j, k)
  <2>1. k \in Nat /\ k < NumClasses(u)
    <3>1. NumClasses(u) \in Nat
      BY NumClassesBound, TechAssumption
    <3> QED
      BY <3>1
  <2>2. CASE CapCdp(u)
    <3>1. /\ <<u, j, 2 * k>> \in Slot /\ <<u, j, 2 * k + 1>> \in Slot
          /\ ClassOf(u, 2 * k) = k /\ ClassOf(u, 2 * k + 1) = k
      BY <2>1, <2>2, SlotsOfClass
    <3>2. /\ clos'[<<u, j, 2 * k>>] = clos[<<u, j, 2 * k>>]
          /\ clos'[<<u, j, 2 * k + 1>>] = clos[<<u, j, 2 * k + 1>>]
      BY <1>6, <1>8, <3>1
    <3> QED
      BY <1>2, <2>2, <3>2 DEF GetClos, CapCdp
  <2>3. CASE ~CapCdp(u)
    <3>1. <<u, j, k>> \in Slot /\ ClassOf(u, k) = k
      BY <2>1, <2>3, SlotsOfClass
    <3>2. clos'[<<u, j, k>>] = clos[<<u, j, k>>]
      BY <1>6, <1>8, <3>1
    <3> QED
      BY <1>2, <2>3, <3>2 DEF GetClos, CapCdp
  <2> QED
    BY <2>2, <2>3
<1> QED
  BY <1>7, <1>8

\* On every platform and with any register errors before: a set call that
\* returns OK changes what the get call returns for the classes of its table,
\* to what the table says, and for no other class, CDP on or off.
THEOREM SetAndGetAgree == Spec => SetIsWhatGetReturns
<1>1. call'.op = "set" /\ call'.ret = "OK" =>
        \A t \in Tech : \A i \in Ids(t), K \in ClassSets(t) :
          \A ca \in [K -> Entry(t)] : SetClos(t, i, ca) =>
           /\ \A k \in K :
                GetClos(t, i, k)' =
                  IF ~CapCdp(t) THEN <<ca[k].data>>
                  ELSE <<ca[k].data, IF ca[k].cdp = "yes" THEN ca[k].code ELSE ca[k].data>>
           /\ \A u \in Tech : \A j \in Ids(u) : \A k \in 0 .. NumClasses(u) - 1 :
                (u # t \/ j # i \/ k \notin K) => GetClos(u, j, k)' = GetClos(u, j, k)
  BY SetStep
<1> QED
  BY <1>1, PTL DEF SetIsWhatGetReturns

=============================================================================
