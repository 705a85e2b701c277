----------------------------- MODULE MCPqosTool -----------------------------
(* Small instance of PqosTool for TLC. *)
EXTENDS PqosTool

MCDevChannels == [d \in Dev |-> <<31, 0, 32>>]
MCSocketOf == [c \in Core |-> c \div 2]
MCProfileDefs ==
  <<[type |-> "llc", ids |-> <<>>, defs |-> <<[class |-> 1, scope |-> "both", value |-> 6]>>]>>

Def(c, s, v) == [class |-> c, scope |-> s, value |-> v]
E(type, ids, defs) == [opt |-> "-e", arg |-> <<[type |-> type, ids |-> ids, defs |-> defs]>>]
Assoc(list, c) == [kind |-> "core", list |-> list, clos |-> c]
Chan(ch, c) == [kind |-> "channel", channel |-> ch, clos |-> c]
DevTo(d, vc, c) == [kind |-> "dev", dev |-> d, vc |-> vc, clos |-> c]
Mon(type, event, parts) == <<[type |-> type, event |-> event, parts |-> parts]>>
Each(list) == [grouped |-> FALSE, list |-> list]
Group(list) == [grouped |-> TRUE, list |-> list]
Proc(p, t, r) == [pid |-> p, ticks |-> t, ratio |-> r]
Opt(o, a) == [opt |-> o, arg |-> a]

Alloc == <<
  E("llc", <<>>, <<Def(1, "both", 3)>>),
  E("llc", <<One(0)>>, <<Def(1, "data", 5)>>),
  E("mba", <<>>, <<Def(1, "both", 4), Def(2, "both", 5)>>),
  Opt("-a", <<Assoc(<<Between(1, 0)>>, 1), Assoc(<<One(1)>>, 2)>>),
  Opt("-a", <<Assoc(<<One(0), One(2)>>, 2)>>),
  Opt("-a", <<Chan(31, 1), Chan(31, 2)>>),
  Opt("-a", <<DevTo(7, DevAllVcs, 1), DevTo(7, 2, 2)>>),
  Opt("domains", <<One(1)>>),
  Opt("regions", <<One(1)>>),
  Opt("limit", "min"),
  Opt("-R", <<[feature |-> "l3cdp", value |-> "on"]>>) >>

Monitor == <<
  Opt("-m", Mon("core", "all", <<Each(<<One(0)>>), Group(<<Between(1, 2)>>)>>)),
  Opt("-m", Mon("core", "mbl", <<Each(<<One(0)>>)>>)),
  Opt("-m", Mon("core", "llc", <<Group(<<Between(0, 1)>>)>>)),
  Opt("channels", Mon("channel", "all", <<Each(<<One(31)>>)>>)),
  Opt("devs", <<[event |-> "all", dev |-> 7, vcs |-> <<>>]>>),
  Opt("devs", <<[event |-> "iot", dev |-> 7, vcs |-> <<Between(2, 1)>>]>>),
  Opt("disable", "ipc"),
  Opt("-t", 1) >>

Other == <<
  Opt("iface", "MSR"), Opt("iface", "OS"), Opt("iface", "MMIO"), Opt("iface", "auto"),
  E("l2", <<One(1)>>, <<Def(1, "both", 2), Def(2, "both", 3)>>),
  E("smba", <<Between(0, 1)>>, <<Def(9, "both", 2)>>),
  Opt("-a", <<[kind |-> "pid", list |-> <<One(50)>>, clos |-> 1]>>),
  Opt("-c", 0), Opt("version", 0), Opt("-s", 0), Opt("-r", 0), Opt("-l", 0),
  Opt("-o", 0), Opt("-u", "pdf"), Opt("-R", <<>>),
  Opt("-R", <<[feature |-> "l3iordt", value |-> "on"]>>),
  Opt("-m", Mon("core", "aet", <<Each(<<One(0)>>)>>)),
  Opt("-p", Mon("pid", "all", <<Each(<<One(50)>>)>>)),
  Opt("-p", Mon("pid", "llc", <<Each(<<One(59)>>)>>)),
  Opt("uncore", <<>>),
  Opt("uncore", Mon("uncore", "all", <<Each(<<One(0), One(1)>>)>>)),
  Opt("mem-regions", <<One(0), One(1)>>),
  Opt("print-io", 0),
  Opt("top", [first |-> <<Proc(50, 2, 1), Proc(51, 4, 1), Proc(52, 5, 0), Proc(53, 0, 0)>>,
              second |-> <<Proc(50, 5, 1), Proc(52, 4, 0), Proc(53, 1, 0), Proc(51, 6, 0)>>]),
  Opt("top", [first |-> <<Proc(50, 1, 2), Proc(51, 1, 1), Proc(52, 1, 0)>>,
              second |-> <<Proc(52, 3, 0), Proc(51, 3, 0), Proc(50, 1, 0)>>]) >>

\* A configuration file that chooses an interface and associates a core.
File1 == Opt("-f", <<Len(Alloc) + Len(Monitor) + 1, 4>>)

MCOptions == Alloc \o Monitor \o Other \o <<File1>>

Numbers(from, many) == from + 1 .. from + many
Seq3(S) == {<<a, b, c>> : a \in S, b \in S, c \in S}
Seq2(S, T) == {<<a, b>> : a \in S, b \in T}
Some == Numbers(0, Len(MCOptions))

\* Where the other options are used: with those that allocate, with those that
\* monitor.
From(first, last) == Numbers(Len(Alloc) + Len(Monitor) + first - 1, last - first + 1)
WithAlloc == From(1, 3) \cup From(5, 10)
WithMonitor == From(2, 4) \cup From(11, 11) \cup From(15, 18) \cup From(20, 20) \cup From(22, 22)

MCCommandLines ==
  {<<>>, <<Len(MCOptions), Len(MCOptions)>>} \cup {<<a>> : a \in Some}
  \cup Seq2(Numbers(0, Len(Alloc)), Numbers(0, Len(Alloc)) \cup WithAlloc)
  \cup Seq2(Numbers(Len(Alloc), Len(Monitor)), Numbers(Len(Alloc), Len(Monitor)))
  \cup Seq2(WithMonitor, Numbers(Len(Alloc), Len(Monitor)))
  \cup Seq3({1, 2, 11}) \cup {<<3, a, b, c>> : a, b, c \in {8, 9, 10}} \cup Seq3({13, 16, 18})

MCPlatforms ==
  {[avail |-> a, caps |-> c, cdp |-> {}, events |-> Event \ {"energy", "act", "pow"},
    ioevents |-> IoEvents] :
     a \in {{"MSR", "OS"}, {"MMIO"}}, c \in {Type \cup {"mon"}}}
  \cup {[avail |-> {"MSR", "MMIO"}, caps |-> {"mon"}, cdp |-> {"llc"},
         events |-> {"ipc", "miss", "llc", "mbt"}, ioevents |-> {}],
        [avail |-> {"OS"}, caps |-> Type, cdp |-> {"llc"}, events |-> {}, ioevents |-> {}]}
=============================================================================
