--------------------------- MODULE MCResctrlAlloc ---------------------------
(***************************************************************************)
(* An instance of ResctrlAlloc for TLC: three classes, two with L3 CDP.    *)
(***************************************************************************)
EXTENDS ResctrlAlloc

\* Core 1 is offline.
Lists == {<<0>>, <<0, 2>>}

BothTasks == {<<10, 11>>}

TwoIds == [t \in Tech |-> IF t = "L3" THEN {0, 1} ELSE {0}]

Classes4 == [t \in Tech |-> IF t = "L3" THEN 4 ELSE 3]

Max100 == [a \in BOOLEAN |-> IF a THEN 8 ELSE 100]

CacheEntry(c, on, code, data) == [class |-> c, cdp |-> on, code |-> code, data |-> data]

MbaEntry(c, on, max) == [class |-> c, ctrl |-> on, max |-> max]

\* Two classes, code and data, masks with a gap and without a bit, MBps, a class
\* twice, and a resource that does not exist.
Asks ==
  [t \in AllTech |->
     CASE t = "L3" -> {[id |-> 0, table |-> <<CacheEntry(1, FALSE, {1}, {1}),
                                              CacheEntry(2, FALSE, {0}, {0})>>],
                       [id |-> 0, table |-> <<CacheEntry(1, TRUE, {0}, {1})>>],
                       [id |-> 9, table |-> <<CacheEntry(1, TRUE, {0}, {1})>>]}
       [] t = "L2" -> {[id |-> 0, table |-> <<CacheEntry(1, FALSE, {0, 2}, {0, 2})>>],
                       [id |-> 0, table |-> <<CacheEntry(1, FALSE, {}, {})>>]}
       [] t = "MBA" -> {[id |-> 0, table |-> <<MbaEntry(1, FALSE, 4)>>],
                        [id |-> 0, table |-> <<MbaEntry(1, TRUE, 7)>>],
                        [id |-> 9, table |-> <<MbaEntry(1, TRUE, 7)>>]}
       [] t = "SMBA" -> {[id |-> 0, table |-> <<MbaEntry(1, FALSE, 6), MbaEntry(1, FALSE, 5)>>],
                         [id |-> 9, table |-> <<MbaEntry(1, FALSE, 5)>>]}]

Cfg(l3, mba, smba) == [l3 |-> l3, l2 |-> "ANY", mba |-> mba, smba |-> smba, mba40 |-> "ANY"]

Cfgs == {Cfg("ANY", "ANY", "ANY"), Cfg("ON", "ANY", "ANY"), Cfg("OFF", "CTRL", "ANY"),
         Cfg("ANY", "DEFAULT", "DEFAULT"), Cfg("ANY", "ANY", "CTRL")}

\* The peer narrows the second cache of class 1.
Narrow == {<<1, "L3", 1, [code |-> {0}, data |-> {0}]>>}

=============================================================================
