---------------------------- MODULE MCMmioAlloc ----------------------------
(* Small instance of MmioAlloc for TLC. *)
EXTENDS MmioAlloc

Cpu(d, s, marc, bases, f) ==
  [domain |-> d, socket |-> s, cmrc |-> 1, mmrc |-> 14, marc |-> marc, bases |-> bases,
   clump |-> 8, stride |-> 128, factors |-> f]
Device(d, s, card, nc, zero, f) ==
  [domain |-> d, socket |-> s, cmrd |-> 2, ibrd |-> 2, card |-> card, offset |-> 256, ways |-> 3,
   non_contiguous |-> nc, zero_length |-> zero, clump |-> 16, total |-> 0, miss |-> 2048, factors |-> f]

MCCpuAgents == <<Cpu(1, 0, 1, Limits, 41), Cpu(2, 0, 1, {"opt"}, 1),
                 Cpu(3, 1, 1, Limits, 0), Cpu(4, 1, 0, {}, 0)>>
MCDevAgents == <<Device(5, 0, 2, FALSE, FALSE, 41), Device(6, 1, 1, TRUE, TRUE, 1),
                 Device(2, 2, 0, FALSE, FALSE, 0)>>

Bw(o, n, x) == [opt |-> o, min |-> n, max |-> x]
Region(g, b) == [region |-> g, bw |-> b]
Req(d, c, rs) == [domain |-> d, class |-> c, regions |-> rs]
Set(reqs, actual) == [reqs |-> reqs, actual |-> actual]

A == Req(1, 1, <<Region(0, Bw(5, -1, 6)), Region(1, Bw(-1, 7, -1))>>)
B == Req(1, 1, <<Region(-1, Bw(0, 0, 0)), Region(1, Bw(-1, 8, 9))>>)
C == Req(3, 0, <<Region(2, Bw(0, -1, -1))>>)
MCMbaSets == {Set(<<A, B>>, TRUE), Set(<<B, A>>, FALSE), Set(<<C>>, FALSE),
  Set(<<A, Req(1, 2, <<>>)>>, FALSE), Set(<<C, Req(2, 0, <<>>)>>, TRUE),
  Set(<<A, Req(1, 0, <<Region(3, Bw(1, 1, 1))>>)>>, FALSE),
  Set(<<C, Req(1, 0, <<Region(0, Bw(1, 512, 1))>>)>>, FALSE),
  Set(<<Req(1, 0, <<Region(0, Bw(-2, 1, 1))>>)>>, FALSE),
  Set(<<Req(5, 0, <<>>)>>, FALSE)}
MCMbaGets == {[domain |-> x[1], regions |-> x[2], max |-> x[3]] :
  x \in {<<1, 0, 2>>, <<1, 4, 2>>, <<2, 2, 2>>, <<1, 2, 1>>}}

Ca(d, c, m) == [domain |-> d, class |-> c, mask |-> m]
MCCatSets == {<<Ca(5, 0, 3), Ca(6, 1, 0)>>, <<Ca(5, 1, 6), Ca(5, 1, 1)>>, 
  <<Ca(5, 0, 6), Ca(5, 1, 5)>>, <<Ca(5, 0, 1), Ca(5, 1, 8)>>, <<Ca(6, 1, 2), Ca(2, 0, 1)>>,
  <<Ca(5, 0, 0)>>, <<Ca(5, 2, 1)>>, <<Ca(5, 0, 1), Ca(5, 1, 1), Ca(6, 0, 1)>>}
MCCatGets == {[domains |-> <<5, 6>>, max |-> 2], [domains |-> <<5, 2>>, max |-> 2],
  [domains |-> <<5, 6>>, max |-> 1]}

Dump(s, d, space, w, off, len, le) ==
  [sockets |-> s, domains |-> d, space |-> space, width |-> w, offset |-> off, length |-> len, le |-> le]
MCDumps == {
  Dump(<<>>, <<Between(3, 1)>>, "marc_opt", 8, 509, 3, TRUE),
  Dump(<<>>, <<One(3), One(1)>>, "marc_min", 8, 509, 0, FALSE),
  Dump(<<One(0)>>, <<>>, "card", 1, 4060, 36, FALSE), Dump(<<One(1)>>, <<>>, "card", 1, 4060, 37, TRUE),
  Dump(<<Between(0, 1)>>, <<>>, "ibrd", 8, 1023, 0, FALSE), Dump(<<One(1)>>, <<>>, "cmrc", 8, 511, 1, TRUE),
  Dump(<<Between(0, 2)>>, <<>>, "cmrc", 8, 0, 1, TRUE), Dump(<<One(0)>>, <<One(3)>>, "mmrc", 8, 7, 1, FALSE),
  Dump(<<>>, <<One(3), One(5)>>, "cmrc", 8, 0, 1, FALSE), Dump(<<>>, <<One(6)>>, "marc_max", 8, 0, 1, FALSE),
  Dump(<<>>, <<One(6), One(2)>>, "cmrd", 8, 5, 3, FALSE), Dump(<<>>, <<One(1), One(9)>>, "cmrc", 1, 0, 16, TRUE),
  Dump(<<>>, <<>>, "card", 8, 0, 0, FALSE), Dump(<<>>, <<One(1)>>, "none", 8, 0, 0, FALSE),
  Dump(<<>>, <<One(1)>>, "cmrc", 8, 512, 0, FALSE), Dump(<<>>, <<One(4)>>, "marc_opt", 8, 0, 0, FALSE) }

Rmids(d, r, g, t, u) == [domains |-> d, rmids |-> r, regions |-> g, type |-> t, upscale |-> u]
MCRmidDumps == {
  Rmids(<<Between(1, 3)>>, <<One(0), Between(7, 9), One(33), One(40)>>, <<>>, "mbm", TRUE),
  Rmids(<<One(1)>>, <<One(0), One(31), One(32)>>, <<One(2), One(0)>>, "mbm", FALSE),
  Rmids(<<One(1)>>, <<One(1023)>>, <<>>, "mbm", FALSE),
  Rmids(<<One(1)>>, <<One(1)>>, <<One(3)>>, "mbm", FALSE), Rmids(<<One(1)>>, <<One(1)>>, <<Between(1, 0)>>, "mbm", FALSE),
  Rmids(<<One(2)>>, <<Between(7, 17)>>, <<>>, "l3", FALSE), Rmids(<<One(1)>>, <<One(511)>>, <<>>, "l3", FALSE),
  Rmids(<<Between(5, 6)>>, <<Between(14, 17)>>, <<>>, "io-l3", TRUE),
  Rmids(<<Between(5, 6)>>, <<One(0), Between(15, 16)>>, <<>>, "io-total", TRUE),
  Rmids(<<One(5), One(9)>>, <<One(0), One(16)>>, <<One(1)>>, "io-miss", TRUE),
  Rmids(<<One(5)>>, <<One(1024)>>, <<>>, "io-miss", TRUE), Rmids(<<>>, <<One(1)>>, <<>>, "l3", TRUE),
  Rmids(<<One(5)>>, <<One(1)>>, <<>>, "none", TRUE) }
=============================================================================
