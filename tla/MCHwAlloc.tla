----------------------------- MODULE MCHwAlloc -----------------------------
(***************************************************************************)
(* Instances of HwAlloc for TLC: platforms of a few cores.                 *)
(***************************************************************************)
EXTENDS HwAlloc

\* Two cores that share an L3 cache and have an L2 cache each.
DomShared == [t \in AllTech |-> [c \in 0 .. 1 |-> IF t = "L2" THEN c ELSE 0]]

\* One core.
DomOne == [t \in AllTech |-> [c \in {0} |-> 0]]

\* L2 has classes that L3 does not have.
ClosMixed == [t \in AllTech |-> CASE t = "L2" -> 4 [] t = "L3" -> 2 [] OTHER -> 0]
ClosNoL3 == [t \in AllTech |-> CASE t = "L3" -> 0 [] t = "L2" -> 2 [] OTHER -> 1]

Ask(f, how) == [Any EXCEPT ![f] = how]

\* The cache features, one at a time and together.
AskCdp ==
  {Any} \cup {Ask(f, how) : f \in {"l3cdp", "l3iordt", "l2cdp"}, how \in {"ON", "OFF"}}
        \cup {[[f \in Feature |-> how] EXCEPT !["mba40"] = "ANY"] : how \in {"ON", "OFF"}}

\* Both features on, both off, any; and one the platform lacks.
AskL2Mba ==
  {[Any EXCEPT !["l2cdp"] = how, !["mba40"] = how] : how \in {"ON", "OFF", "ANY"}}
    \cup {Ask("l3cdp", "ON")}

=============================================================================
