--------------------------- MODULE PqosToolProofs ---------------------------
(***************************************************************************)
(* Proofs about PqosTool, for every command line, configuration file and   *)
(* platform, whichever library call fails and whenever Ctrl-C comes.       *)
(*                                                                         *)
(* First the files: each is opened by its own name (FilesInv).  Then the   *)
(* end: the library is closed and no group is left running, no call went   *)
(* to an interface without such a function, and the exit code is honest    *)
(* (ToolInv).  That a call suits the interface is decided long before it   *)
(* is made, while options are read: what is selected suits each interface  *)
(* that is still possible (Suits), and every option keeps that.            *)
(*                                                                         *)
(* Lists, tables and groups are worked through by loops, which the model   *)
(* writes with Gather() and ForEach().  Each loop is shown to be the run   *)
(* of a named body (Result), and what it keeps is proved by induction over *)
(* the elements it has been given (LoopKeeps).                             *)
(***************************************************************************)
EXTENDS PqosTool, FiniteSetTheorems, WellFoundedInduction, TLAPS

\* A set of natural numbers that is not empty has a least element.
LEMMA LeastCount ==
  ASSUME NEW T, T \subseteq Nat, T # {}
  PROVE  \E x \in T : \A y \in T : x <= y
<1>1. PICK x \in T : \A y \in T : ~(<<y, x>> \in OpToRel(<, Nat))
  BY NatLessThanWellFounded, WFMin
<1>2. \A y \in T : ~(y < x)
  BY <1>1 DEF OpToRel
<1> QED
  BY <1>2

-----------------------------------------------------------------------------
(***************************************************************************)
(* The files the utility opens (PqosTool).                                 *)
(***************************************************************************)
\* What the name itself denotes now is recorded.
Recorded == entry \in Entry /\ Itself(entry) \subseteq denoted

\* What a call looked at, if that was no link, the name itself denoted by then.
Looked ==
  opening.step \in {"open", "again", "fstat"} /\ ~opening.new_file =>
    opening.saw \in Entry /\ Itself(opening.saw) \subseteq denoted

\* A file that was created is looked at under its name before it is compared.
LookedAgain ==
  opening.step = "fstat" => opening.saw \in Entry /\ Itself(opening.saw) \subseteq denoted

\* Between two calls nothing is open.
Closed == opening.step \in {"idle", "lstat", "open"} => opening.fd = NoFile

OpenFields == {"how", "step", "saw", "new_file", "fd"}

OpenShape == opening = [f \in OpenFields |-> opening[f]]

FilesInv ==
  OpenShape /\ Recorded /\ Looked /\ LookedAgain /\ Closed /\ OpenedByName /\ LinkNotFollowed

LEMMA ItselfIs ==
  ASSUME NEW e \in Entry
  PROVE  /\ Itself(e) \subseteq File
         /\ \A f \in File : f \in Itself(e) <=> ~e.link /\ e.file = f
         /\ e # Nothing => e.file \in File
         /\ e.link => e # Nothing
         /\ e = Nothing => e.file = NoFile
  BY NoFileAssumption DEF Itself, Entry, Plain, Link, Nothing

LEMMA PlainIs == ASSUME NEW f \in File PROVE Plain(f) \in Entry /\ Itself(Plain(f)) = {f}
  BY NoFileAssumption DEF Itself, Entry, Plain

LEMMA NotOpeningIs ==
  /\ NotOpening = [f \in OpenFields |-> NotOpening[f]]
  /\ NotOpening.how = "none" /\ NotOpening.step = "idle" /\ NotOpening.fd = NoFile
  BY DEF NotOpening, OpenFields

LEMMA FilesKept == ASSUME FilesInv, UNCHANGED openVars PROVE FilesInv'
  BY DEF FilesInv, openVars, OpenShape, Recorded, Looked, LookedAgain, Closed, OpenedByName,
     LinkNotFollowed

LEMMA BeginFiles == ASSUME FilesInv, NEW how, BeginOpen(how) PROVE FilesInv'
<1>1. PICK o : o = [NotOpening EXCEPT !.how = how, !.step = "lstat"]
  OBVIOUS
<1>2. o = [f \in OpenFields |-> o[f]] /\ o.step = "lstat" /\ o.fd = NoFile
  BY <1>1 DEF NotOpening, OpenFields
<1>3. opening' = o /\ touched' = {} /\ entry' \in Entry /\ denoted' = Itself(entry')
  BY <1>1 DEF BeginOpen
<1> QED
  BY <1>2, <1>3 DEF FilesInv, OpenShape, Recorded, Looked, LookedAgain, Closed, OpenedByName,
     LinkNotFollowed

LEMMA RefuseFiles ==
  ASSUME FilesInv, Refuse, UNCHANGED <<entry, denoted, touched>>
  PROVE  FilesInv'
<1>1. PICK o : o = [opening EXCEPT !.step = "end", !.fd = NoFile]
  OBVIOUS
<1>2. /\ o = [f \in OpenFields |-> o[f]] /\ o.step = "end" /\ o.fd = NoFile
      /\ o.how = opening.how
  BY <1>1 DEF FilesInv, OpenShape, OpenFields
<1>3. opening' = o
  BY <1>1 DEF Refuse
<1> QED
  BY <1>2, <1>3 DEF FilesInv, OpenShape, Recorded, Looked, LookedAgain, Closed, OpenedByName,
     LinkNotFollowed

LEMMA LstatFiles == ASSUME FilesInv, Lstat PROVE FilesInv'
<1>1. CASE Refuse
  BY <1>1, RefuseFiles DEF Lstat
<1>2. CASE opening' = [opening EXCEPT !.step = "open", !.saw = entry,
                                      !.new_file = entry = Nothing]
  <2>1. PICK o : o = [opening EXCEPT !.step = "open", !.saw = entry,
                                     !.new_file = entry = Nothing]
    OBVIOUS
  <2>2. /\ o = [f \in OpenFields |-> o[f]] /\ o.step = "open" /\ o.fd = opening.fd
        /\ o.how = opening.how /\ o.saw = entry
    BY <2>1 DEF FilesInv, OpenShape, OpenFields
  <2>3. opening' = o /\ UNCHANGED <<entry, denoted, touched>> /\ opening.fd = NoFile
    BY <1>2, <2>1 DEF Lstat, FilesInv, Closed
  <2> QED
    BY <2>2, <2>3 DEF FilesInv, OpenShape, Recorded, Looked, LookedAgain, Closed, OpenedByName,
       LinkNotFollowed
<1> QED
  BY <1>1, <1>2 DEF Lstat

LEMMA OpenFiles == ASSUME FilesInv, Open PROVE FilesInv'
<1>1. CASE Refuse /\ UNCHANGED <<entry, denoted, touched>>
  BY <1>1, RefuseFiles
<1>2. ASSUME MayOpen(opening, entry),
             NEW f \in IF entry = Nothing THEN File \ denoted ELSE {entry.file},
             entry' = IF entry = Nothing THEN Plain(f) ELSE entry,
             opening' = [opening EXCEPT !.fd = f,
                           !.step = IF opening.new_file THEN "again" ELSE "fstat"],
             denoted' = denoted \cup Itself(entry'), touched' = touched \cup {f}
      PROVE  FilesInv'
  <2>1. PICK o : o = [opening EXCEPT !.fd = f,
                        !.step = IF opening.new_file THEN "again" ELSE "fstat"]
    OBVIOUS
  <2>2. /\ o = [x \in OpenFields |-> o[x]] /\ o.fd = f /\ o.saw = opening.saw
        /\ o.step = IF opening.new_file THEN "again" ELSE "fstat"
        /\ o.how = opening.how /\ o.new_file = opening.new_file
    BY <2>1 DEF FilesInv, OpenShape, OpenFields
  <2>3. opening' = o
    BY <1>2, <2>1
  <2>4. f \in File /\ entry' \in Entry
    BY <1>2, ItselfIs, PlainIs DEF FilesInv, Recorded
  <2>5. o.step \in {"again", "fstat"} /\ (o.step = "fstat" => ~opening.new_file)
    BY <2>2
  <2>6. opening.step = "open"
    BY DEF Open
  <2>7. opening.how = "safe_open" => f \in Itself(entry')
    <3>1. CASE entry = Nothing
      BY <1>2, <2>4, <3>1, PlainIs
    <3>2. CASE entry # Nothing
      BY <1>2, <2>4, <3>2, ItselfIs DEF MayOpen
    <3> QED
      BY <3>1, <3>2
  <2>8. Recorded' /\ LinkNotFollowed'
    BY <1>2, <2>2, <2>3, <2>4, <2>7 DEF FilesInv, Recorded, LinkNotFollowed
  <2>9. Looked' /\ LookedAgain'
    BY <1>2, <2>2, <2>3, <2>5, <2>6 DEF FilesInv, Looked, LookedAgain
  <2> QED
    BY <2>2, <2>3, <2>5, <2>8, <2>9 DEF FilesInv, OpenShape, Closed, OpenedByName
<1> QED
  BY <1>1, <1>2 DEF Open

LEMMA AgainFiles == ASSUME FilesInv, LstatAgain PROVE FilesInv'
<1>1. CASE Refuse
  BY <1>1, RefuseFiles DEF LstatAgain
<1>2. CASE opening' = [opening EXCEPT !.step = "fstat", !.saw = entry]
  <2>1. PICK o : o = [opening EXCEPT !.step = "fstat", !.saw = entry]
    OBVIOUS
  <2>2. /\ o = [f \in OpenFields |-> o[f]] /\ o.step = "fstat" /\ o.saw = entry
        /\ o.how = opening.how
    BY <2>1 DEF FilesInv, OpenShape, OpenFields
  <2>3. opening' = o /\ UNCHANGED <<entry, denoted, touched>>
    BY <1>2, <2>1 DEF LstatAgain
  <2> QED
    BY <2>2, <2>3 DEF FilesInv, OpenShape, Recorded, Looked, LookedAgain, Closed, OpenedByName,
       LinkNotFollowed
<1> QED
  BY <1>1, <1>2 DEF LstatAgain

LEMMA FstatFiles == ASSUME FilesInv, Fstat PROVE FilesInv'
<1>1. CASE Refuse
  BY <1>1, RefuseFiles DEF Fstat
<1>2. CASE SameFile(opening) /\ opening' = [opening EXCEPT !.step = "end"]
  <2>1. PICK o : o = [opening EXCEPT !.step = "end"]
    OBVIOUS
  <2>2. /\ o = [f \in OpenFields |-> o[f]] /\ o.step = "end" /\ o.fd = opening.fd
        /\ o.how = opening.how
    BY <2>1 DEF FilesInv, OpenShape, OpenFields
  <2>3. opening' = o /\ UNCHANGED <<entry, denoted, touched>> /\ opening.step = "fstat"
    BY <1>2, <2>1 DEF Fstat
  <2>4. opening.saw \in Entry /\ Itself(opening.saw) \subseteq denoted
    BY <2>3 DEF FilesInv, LookedAgain
  <2>5. opening.fd # NoFile => opening.fd \in denoted
    BY <1>2, <2>4 DEF SameFile, Itself
  <2> QED
    BY <2>2, <2>3, <2>5 DEF FilesInv, OpenShape, Recorded, Looked, LookedAgain, Closed,
       OpenedByName, LinkNotFollowed
<1> QED
  BY <1>1, <1>2 DEF Fstat

LEMMA EndFiles == ASSUME FilesInv, EndOpen PROVE FilesInv'
  BY NotOpeningIs DEF EndOpen, FilesInv, OpenShape, Recorded, Looked, LookedAgain, Closed,
     OpenedByName, LinkNotFollowed

LEMMA SwitchFiles == ASSUME FilesInv, Switch PROVE FilesInv'
  BY DEF Switch, FilesInv, OpenShape, Recorded, Looked, LookedAgain, Closed, OpenedByName,
     LinkNotFollowed

LEMMA FilesStep ==
  ASSUME FilesInv,
         UNCHANGED openVars \/ (\E how : BeginOpen(how)) \/ EndOpen \/ OpenStep \/ Switch
  PROVE  FilesInv'
  BY FilesKept, BeginFiles, LstatFiles, OpenFiles, AgainFiles, FstatFiles, EndFiles, SwitchFiles
     DEF OpenStep

\* Every file the utility opens - its log, its output, a configuration file - it
\* opens by its own name, however many files there are and however often another
\* process changes what the name denotes: a descriptor it goes on with is of a
\* file the name itself denoted during the call, and safe_open() neither opens
\* nor creates anything through a link.
THEOREM FilesOpenedByName == Spec => []FilesByName
<1>1. Init => FilesInv
  BY NotOpeningIs, NoFileAssumption
     DEF Init, OpenInit, FilesInv, OpenShape, Recorded, Looked, LookedAgain, Closed,
         OpenedByName, LinkNotFollowed, Itself, Entry, Nothing, Plain
<1>2. FilesInv /\ [Next]_vars => FilesInv'
  <2> SUFFICES ASSUME FilesInv, [Next]_vars PROVE FilesInv'
    OBVIOUS
  <2>1. \/ UNCHANGED openVars \/ (\E how : BeginOpen(how)) \/ EndOpen \/ OpenStep \/ Switch
    BY DEF Next, ToolStep, LoopStep, ReadOption, OpenConfig, parse_config_file, OptionsRead,
       resolve_interface, CheckOptions, LogOpened, InitLibrary, ReadCaps, PrintVersion,
       ResetMonitoring, ResetAllocation, PrintAndLeave, Allocate, AfterAllocation,
       SetUpMonitoring, OutputOpened, StartMonitoring, OpeningFile, LoopNotStarted, Poll,
       Timer, TimerAfterCtrlC, StopMonitoring, Fini, Cleanup, LoopKeep, monitoring_ctrlc,
       OthersSwitch, Ended, Quiet, vars
  <2> QED
    BY <2>1, FilesStep
<1>3. FilesInv => FilesByName
  BY DEF FilesInv, FilesByName
<1> QED
  BY <1>1, <1>2, <1>3, PTL DEF Spec

-----------------------------------------------------------------------------
(***************************************************************************)
(* What the utility does with the lists it has read (PqosTool).            *)
(***************************************************************************)
\* What holds of zero and of every next number holds of all.
LEMMA EveryCount ==
  ASSUME NEW T, 0 \in T, \A m \in Nat : m \in T => m + 1 \in T
  PROVE  \A m \in Nat : m \in T
<1> DEFINE out == {m \in Nat : m \notin T}
<1> SUFFICES ASSUME out # {} PROVE FALSE
  OBVIOUS
<1>1. PICK m \in out : \A k \in out : m <= k
  <2>1. out \subseteq Nat
    OBVIOUS
  <2> HIDE DEF out
  <2> QED
    BY <2>1, LeastCount
<1>2. m \in Nat \ {0} /\ m \notin T
  OBVIOUS
<1>3. m - 1 \in Nat /\ ~(m <= m - 1)
  BY <1>2
<1>4. m - 1 \in T
  BY <1>1, <1>3
<1>5. (m - 1) + 1 \in T
  BY <1>3, <1>4
<1> QED
  BY <1>2, <1>5

\* A sequence of whatever elements.
Listing(s) == Len(s) \in Nat /\ s = [i \in 1 .. Len(s) |-> s[i]]

LEMMA SequenceLists == \A S : \A s \in Seq(S) : Listing(s)
  BY DEF Listing

LEMMA SequenceMembers ==
  \A S : \A s \in Seq(S) : Len(s) \in Nat /\ \A n \in 1 .. Len(s) : s[n] \in S
  OBVIOUS

LEMMA SequenceDomain == ASSUME NEW T, NEW s \in Seq(T) PROVE DOMAIN s = 1 .. Len(s)
  OBVIOUS

LEMMA ListingIs ==
  ASSUME NEW s, Listing(s)
  PROVE  s \in Seq({s[i] : i \in 1 .. Len(s)})
<1> DEFINE S == {s[i] : i \in 1 .. Len(s)}
<1>1. [i \in 1 .. Len(s) |-> s[i]] \in [1 .. Len(s) -> S]
  OBVIOUS
<1>2. [i \in 1 .. Len(s) |-> s[i]] \in Seq(S)
  BY <1>1 DEF Listing
<1> QED
  BY <1>2 DEF Listing

LEMMA ListingTo == \A n \in Nat : \A s : s = [i \in 1 .. n |-> s[i]] => Listing(s) /\ Len(s) = n
<1> SUFFICES ASSUME NEW n \in Nat, NEW s, s = [i \in 1 .. n |-> s[i]] PROVE Listing(s) /\ Len(s) = n
  OBVIOUS
<1>1. DOMAIN s = 1 .. n
  OBVIOUS
<1>2. Len(s) = n
  <2> DEFINE S == {s[i] : i \in 1 .. n}
  <2>1. [i \in 1 .. n |-> s[i]] \in [1 .. n -> S]
    OBVIOUS
  <2>2. s \in Seq(S)
    BY <2>1
  <2> QED
    BY <1>1, <2>2
<1> QED
  BY <1>2 DEF Listing

LEMMA AppendLists ==
  ASSUME NEW s, NEW x, Listing(s)
  PROVE  /\ Listing(Append(s, x)) /\ Len(Append(s, x)) = Len(s) + 1
         /\ \A i \in 1 .. Len(s) : Append(s, x)[i] = s[i]
         /\ Append(s, x)[Len(s) + 1] = x
<1> DEFINE S == {s[i] : i \in 1 .. Len(s)} \cup {x}
<1>1. s \in Seq(S) /\ x \in S
  <2>1. s \in Seq({s[i] : i \in 1 .. Len(s)})
    BY ListingIs
  <2> QED
    BY <2>1
<1> HIDE DEF S
<1>2. Append(s, x) \in Seq(S) /\ Len(Append(s, x)) = Len(s) + 1
  BY <1>1
<1>3. \A i \in 1 .. Len(s) : Append(s, x)[i] = s[i]
  BY <1>1
<1>4. Append(s, x)[Len(s) + 1] = x
  BY <1>1
<1> QED
  BY <1>2, <1>3, <1>4, SequenceLists

LEMMA JoinLists ==
  ASSUME NEW s, NEW t, Listing(s), Listing(t)
  PROVE  Listing(s \o t)
<1> DEFINE S == {s[i] : i \in 1 .. Len(s)}
           T == {t[i] : i \in 1 .. Len(t)}
<1>1. s \in Seq(S) /\ t \in Seq(T)
  BY ListingIs
<1> HIDE DEF S, T
<1>2. s \in Seq(S \cup T) /\ t \in Seq(S \cup T)
  BY <1>1
<1>3. s \o t \in Seq(S \cup T)
  BY <1>2
<1> QED
  BY <1>3, SequenceLists

LEMMA ExceptLists ==
  ASSUME NEW s, NEW i, NEW x, Listing(s)
  PROVE  Listing([s EXCEPT ![i] = x]) /\ Len([s EXCEPT ![i] = x]) = Len(s)
<1> DEFINE t == [s EXCEPT ![i] = x]
<1>1. t = [j \in 1 .. Len(s) |-> IF j = i THEN x ELSE s[j]] /\ Len(s) \in Nat
  BY DEF Listing
<1> HIDE DEF t
<1>2. t = [j \in 1 .. Len(s) |-> t[j]]
  BY <1>1
<1> QED
  BY <1>1, <1>2, ListingTo DEF t

-----------------------------------------------------------------------------
\* The numbers of a token, of all tokens of a list, and of a set.
LEMMA UpwardsLists == \A tok \in Token : Listing(Upwards(tok)) /\ Upwards(tok) \in Seq(Nat)
<1> SUFFICES ASSUME NEW tok \in Token PROVE Listing(Upwards(tok)) /\ Upwards(tok) \in Seq(Nat)
  OBVIOUS
<1> DEFINE both == {tok.from, tok.to}
<1>1. tok.from \in Nat /\ tok.to \in Nat
  BY DEF Token
<1>2. Min(both) \in Nat /\ Max(both) \in Nat /\ Min(both) <= Max(both)
  <2>1. \E x \in both : \A y \in both : x <= y
    BY <1>1
  <2>2. \E x \in both : \A y \in both : x >= y
    BY <1>1
  <2>3. Min(both) \in both /\ \A y \in both : Min(both) <= y
    BY <2>1 DEF Min
  <2>4. Max(both) \in both /\ \A y \in both : Max(both) >= y
    BY <2>2 DEF Max
  <2> QED
    BY <1>1, <2>3, <2>4
<1> DEFINE low == Min(both)
           n == Max(both) - low + 1
<1>3. n \in Nat /\ low \in Nat
  BY <1>2
<1>4. Upwards(tok) = [i \in 1 .. n |-> low + i - 1]
  BY DEF Upwards
<1> HIDE DEF n, low
<1>5. [i \in 1 .. n |-> low + i - 1] \in [1 .. n -> Nat]
  BY <1>3
<1>6. Upwards(tok) \in Seq(Nat)
  BY <1>3, <1>4, <1>5
<1> QED
  BY <1>6, SequenceLists

LEMMA AsTypedLists == \A tok \in Token : AsTyped(tok) \in Seq(Nat)
<1> SUFFICES ASSUME NEW tok \in Token PROVE AsTyped(tok) \in Seq(Nat)
  OBVIOUS
<1>1. Upwards(tok) \in Seq(Nat)
  BY UpwardsLists
<1>2. \A q \in Seq(Nat) : Reverse(q) \in Seq(Nat)
  <2> SUFFICES ASSUME NEW q \in Seq(Nat) PROVE Reverse(q) \in Seq(Nat)
    OBVIOUS
  <2>1. [i \in 1 .. Len(q) |-> q[Len(q) - i + 1]] \in [1 .. Len(q) -> Nat] /\ Len(q) \in Nat
    OBVIOUS
  <2> QED
    BY <2>1 DEF Reverse
<1> QED
  BY <1>1, <1>2 DEF AsTyped

\* f lists, for every n, what the first n sequences of q are in a row.
Joined(f, q, m) == f = [n \in 1 .. m |-> IF n = 1 THEN q[n] ELSE f[n - 1] \o q[n]]

LEMMA JoinedExists == ASSUME NEW q, NEW k \in Nat PROVE \E f : Joined(f, q, k)
<1> DEFINE T == {m \in Nat : \E f : Joined(f, q, m)}
<1>1. 0 \in T
  <2> DEFINE none == [n \in 1 .. 0 |-> q[n]]
  <2>1. none = [n \in 1 .. 0 |-> IF n = 1 THEN q[n] ELSE none[n - 1] \o q[n]]
    OBVIOUS
  <2> QED
    BY <2>1 DEF Joined
<1>2. \A m \in Nat : m \in T => m + 1 \in T
  <2> SUFFICES ASSUME NEW m \in Nat, m \in T PROVE m + 1 \in T
    OBVIOUS
  <2>1. PICK u : Joined(u, q, m)
    OBVIOUS
  <2> DEFINE g == [n \in 1 .. (m + 1) |->
                     IF n = m + 1 THEN (IF n = 1 THEN q[n] ELSE u[n - 1] \o q[n]) ELSE u[n]]
  <2>2. ASSUME NEW n \in 1 .. (m + 1)
        PROVE  g[n] = IF n = 1 THEN q[n] ELSE g[n - 1] \o q[n]
    <3>1. n # 1 => n - 1 \in 1 .. (m + 1) /\ n - 1 # m + 1
      OBVIOUS
    <3>2. n # 1 => g[n - 1] = u[n - 1]
      BY <3>1
    <3>3. n # m + 1 => n \in 1 .. m
      OBVIOUS
    <3>4. n # m + 1 => u[n] = IF n = 1 THEN q[n] ELSE u[n - 1] \o q[n]
      BY <2>1, <3>3 DEF Joined
    <3> QED
      BY <3>2, <3>4
  <2>3. g = [n \in 1 .. (m + 1) |-> g[n]]
    OBVIOUS
  <2> HIDE DEF g
  <2>4. Joined(g, q, m + 1)
    BY <2>2, <2>3 DEF Joined
  <2> QED
    BY <2>4
<1> HIDE DEF T
<1>3. k \in T
  BY <1>1, <1>2, EveryCount
<1> QED
  BY <1>3 DEF T

LEMMA FlattenLists ==
  ASSUME NEW q, Listing(q), \A i \in 1 .. Len(q) : Listing(q[i])
  PROVE  Listing(FlattenSeq(q))
<1>1. CASE Len(q) = 0
  BY <1>1 DEF FlattenSeq
<1>2. CASE Len(q) # 0
  <2> DEFINE k == Len(q)
             f == CHOOSE f : Joined(f, q, k)
             T == {m \in Nat : m \in 1 .. k => Listing(f[m])}
  <2>1. k \in Nat
    BY DEF Listing
  <2>2. Joined(f, q, k)
    BY <2>1, JoinedExists
  <2>3. FlattenSeq(q) = f[k]
    BY <1>2 DEF FlattenSeq, Joined
  <2> HIDE DEF f
  <2>4. 0 \in T
    OBVIOUS
  <2>5. \A m \in Nat : m \in T => m + 1 \in T
    <3> SUFFICES ASSUME NEW m \in Nat, m \in T, m + 1 \in 1 .. k PROVE Listing(f[m + 1])
      OBVIOUS
    <3>1. f[m + 1] = IF m + 1 = 1 THEN q[m + 1] ELSE f[(m + 1) - 1] \o q[m + 1]
      BY <2>2 DEF Joined
    <3>2. Listing(q[m + 1])
      OBVIOUS
    <3>3. CASE m = 0
      BY <3>1, <3>2, <3>3
    <3>4. CASE m # 0
      <4>1. m \in 1 .. k /\ (m + 1) - 1 = m
        BY <2>1, <3>4
      <4>2. Listing(f[m])
        BY <4>1
      <4> QED
        BY <3>1, <3>2, <3>4, <4>1, <4>2, JoinLists
    <3> QED
      BY <3>3, <3>4
  <2> HIDE DEF T
  <2>6. k \in T
    BY <2>1, <2>4, <2>5, EveryCount
  <2> QED
    BY <1>2, <2>1, <2>3, <2>6 DEF T
<1> QED
  BY <1>1, <1>2

LEMMA InOrderLists ==
  ASSUME NEW ids, IsFiniteSet(ids)
  PROVE  Listing(InOrder(ids))
<1>1. Cardinality(ids) \in Nat
  BY FS_CardinalityType
<1> DEFINE P(n) == CHOOSE i \in ids : Cardinality({j \in ids : j < i}) = n - 1
<1>2. InOrder(ids) = [n \in 1 .. Cardinality(ids) |-> P(n)]
  BY DEF InOrder
<1> HIDE DEF P
<1>3. InOrder(ids) = [n \in 1 .. Cardinality(ids) |-> InOrder(ids)[n]]
  BY <1>2
<1> QED
  BY <1>1, <1>3, ListingTo

-----------------------------------------------------------------------------
(***************************************************************************)
(* The loops.  Gather() is given the body of a loop; here a body has a     *)
(* name, kind, and is given what it uses besides the element, a.           *)
(***************************************************************************)
\* One number is put into a table: of strlisttotab, of the strict parsers, and
\* of strlisttotabrealloc.
PutListed(t, e, max) ==
  IF ~t.ok \/ (Len(t.tab) >= max /\ (e.range \/ ~isdup(t, e.n))) THEN Gone(t)
  ELSE IF isdup(t, e.n) THEN t ELSE [t EXCEPT !.tab = Append(@, e.n)]

PutStrict(t, n, max) ==
  IF ~t.ok \/ Len(t.tab) >= max \/ n >= max \/ isdup(t, n) THEN Gone(t)
  ELSE [t EXCEPT !.tab = Append(@, n)]

PutGrowing(t, n) ==
  LET u == IF isdup(t, n) THEN t
           ELSE [t EXCEPT !.over = @ \/ Len(t.tab) >= t.max, !.tab = Append(@, n)]
  IN IF Len(u.tab) >= u.max THEN [u EXCEPT !.max = realloc_and_init(@)] ELSE u

TakeToken(t, tok) ==
  IF tok.range /\ t.tab = <<>>
  THEN [t EXCEPT !.max = SizeFor[t.max, Len(Upwards(tok))], !.tab = Upwards(tok)]
  ELSE Gather(PutGrowing, t, Upwards(tok))

\* What one part of a monitoring string adds to the groups.
AddPart(got, p, m) ==
  LET t == ReadList(m.type, p.list)
  IN IF got.ok /\ t.ok
     THEN AddEach(got, m.type, parse_event(m.event),
                  IF p.grouped THEN <<t.tab>> ELSE [i \in 1 .. Len(t.tab) |-> <<t.tab[i]>>])
     ELSE [got EXCEPT !.ok = FALSE]

Associate(v, x) ==
  LET n == narrow_iface(v, AssocMask(x))
  IN IF n.ok THEN Selecting(n, parse_allocation_assoc(n.sel, x)) ELSE n

\* Bodies that work on tables and selections.
Gathered(kind, a, v, x) ==
  CASE kind = "list" -> PutListed(v, x, a)
    [] kind = "strict" -> PutStrict(v, x, a)
    [] kind = "put" -> PutGrowing(v, x)
    [] kind = "take" -> TakeToken(v, x)
    [] kind = "update" -> update_proc_cpu_stat(v, x)
    [] kind = "top" -> Survivors(v, x)
    [] kind = "coretab" -> Mention(v, x, a, Len(v) + 1)
    [] kind = "pidtab" -> Mention(v, x, a, TabMax)
    [] kind = "group" -> IF v.ok THEN grp_add(v.sel, a[1], a[2], x) ELSE v
    [] OTHER -> AddPart(v, x, a)

\* Bodies that work on a world.
Doing(kind, a, v, x) ==
  CASE kind = "cat" -> SetCat(v, a[1], x, a[2])
    [] kind = "card" -> SetCard(v, x, a)
    [] kind = "bw" -> SetBw(v, x, a)
    [] kind = "mba" -> SetMba(v, a[1], x, a[2])
    [] kind = "clos" -> set_allocation_clos(v, a[1], x, a[2])
    [] kind = "class" -> set_allocation_class(v, x)
    [] kind = "core" -> set_core(v, x)
    [] kind = "pid" -> set_pid(v, x)
    [] kind = "chan" -> set_channel(v, x.what, x.clos)
    [] kind = "dev" -> set_dev(v, x)
    [] kind = "devchan" -> IF x = 0 THEN v ELSE set_channel(v, x, a)
    [] kind = "assoc" -> Associate(v, x)
    [] kind = "monitor" -> Selecting(v, parse_monitor_group(v.sel, x))
    [] kind = "device" -> Selecting(v, parse_monitor_dev(v.sel, x))
    [] kind = "line" -> Handle(v, Options[x])
    [] OTHER -> StartGroup(v, x)

WorldKinds == {"cat", "card", "bw", "mba", "clos", "class", "core", "pid", "chan", "dev",
               "devchan", "assoc", "monitor", "device", "line", "start"}

Body(kind, a, v, x) ==
  IF kind \in WorldKinds THEN IF v.ok THEN Doing(kind, a, v, x) ELSE v ELSE Gathered(kind, a, v, x)

\* u[n] is what the first n elements of s have made of base.
Runs(u, kind, a, base, s) ==
  u = [n \in 0 .. Len(s) |-> IF n = 0 THEN base ELSE Body(kind, a, u[n - 1], s[n])]
Run(kind, a, base, s) == CHOOSE u : Runs(u, kind, a, base, s)
Result(kind, a, base, s) == Run(kind, a, base, s)[Len(s)]

LEMMA RunExists ==
  ASSUME NEW kind, NEW a, NEW base, NEW s, Len(s) \in Nat
  PROVE  LET u == Run(kind, a, base, s)
         IN /\ u[0] = base
            /\ \A n \in 1 .. Len(s) : u[n] = Body(kind, a, u[n - 1], s[n])
<1> DEFINE P(t, n) == Body(kind, a, t, s[n])
           Fill(u, m) == u = [n \in 0 .. m |-> IF n = 0 THEN base ELSE P(u[n - 1], n)]
           T == {m \in Nat : \E u : Fill(u, m)}
<1> HIDE DEF P
<1>1. 0 \in T
  <2> DEFINE none == [n \in 0 .. 0 |-> base]
  <2>1. none = [n \in 0 .. 0 |-> IF n = 0 THEN base ELSE P(none[n - 1], n)]
    OBVIOUS
  <2> QED
    BY <2>1
<1>2. \A m \in Nat : m \in T => m + 1 \in T
  <2> SUFFICES ASSUME NEW m \in Nat, m \in T PROVE m + 1 \in T
    OBVIOUS
  <2>1. PICK u : Fill(u, m)
    OBVIOUS
  <2> DEFINE g == [n \in 0 .. (m + 1) |-> IF n = m + 1 THEN P(u[n - 1], n) ELSE u[n]]
  <2>2. ASSUME NEW n \in 0 .. (m + 1)
        PROVE  g[n] = IF n = 0 THEN base ELSE P(g[n - 1], n)
    <3>1. n # 0 => g[n - 1] = u[n - 1]
      OBVIOUS
    <3>2. n # m + 1 => u[n] = IF n = 0 THEN base ELSE P(u[n - 1], n)
      <4>1. n # m + 1 => n \in 0 .. m
        OBVIOUS
      <4> QED
        BY <2>1, <4>1
    <3>3. n = m + 1 => n # 0
      OBVIOUS
    <3> QED
      BY <3>1, <3>2, <3>3
  <2>3. g = [n \in 0 .. (m + 1) |-> g[n]]
    OBVIOUS
  <2> HIDE DEF g
  <2>4. Fill(g, m + 1)
    BY <2>2, <2>3
  <2> HIDE DEF Fill
  <2> QED
    BY <2>4
<1> HIDE DEF T
<1>3. Len(s) \in T
  BY <1>1, <1>2, EveryCount
<1>4. \E u : Runs(u, kind, a, base, s)
  BY <1>3 DEF T, P, Runs
<1>5. Runs(Run(kind, a, base, s), kind, a, base, s)
  BY <1>4 DEF Run
<1> DEFINE u == Run(kind, a, base, s)
<1> HIDE DEF u
<1>6. u = [n \in 0 .. Len(s) |-> IF n = 0 THEN base ELSE P(u[n - 1], n)]
  BY <1>5 DEF Runs, u, P
<1>7. u[0] = base /\ \A n \in 1 .. Len(s) : u[n] = P(u[n - 1], n)
  BY <1>6
<1> QED
  BY <1>7 DEF u, P

-----------------------------------------------------------------------------
(* The loops of the utility are runs of these bodies. *)

LEMMA CatLoop ==
  ASSUME NEW b, NEW s, NEW t, NEW d
  PROVE  ForEach(b, s, LAMBDA u, id : SetCat(u, t, id, d)) = Result("cat", <<t, d>>, b, s)
<1> DEFINE a == <<t, d>>
           P(v, x) == SetCat(v, t, x, d)
           Raw(f) == f = [n \in 0 .. Len(s) |->
             IF n = 0 THEN b ELSE CHOOSE y \in {IF v.ok THEN P(v, s[n]) ELSE v : v \in {f[n - 1]}} : TRUE]
<1>1. \A v, x : Body("cat", a, v, x) = IF v.ok THEN P(v, x) ELSE v
  BY DEF Body, Doing, WorldKinds
<1>2. ForEach(b, s, LAMBDA u, id : SetCat(u, t, id, d)) = (CHOOSE f : Raw(f))[Len(s)]
  BY DEF ForEach, Gather, Once
<1> HIDE DEF P, a
<1>3. \A f : Raw(f) <=> Runs(f, "cat", a, b, s)
  BY <1>1 DEF Runs
<1> QED
  BY <1>2, <1>3 DEF Result, Run, a

LEMMA CardLoop ==
  ASSUME NEW b, NEW s, NEW d
  PROVE  ForEach(b, s, LAMBDA u, dom : SetCard(u, dom, d)) = Result("card", d, b, s)
<1> DEFINE P(v, x) == SetCard(v, x, d)
           Raw(f) == f = [n \in 0 .. Len(s) |->
             IF n = 0 THEN b ELSE CHOOSE y \in {IF v.ok THEN P(v, s[n]) ELSE v : v \in {f[n - 1]}} : TRUE]
<1>1. \A v, x : Body("card", d, v, x) = IF v.ok THEN P(v, x) ELSE v
  BY DEF Body, Doing, WorldKinds
<1>2. ForEach(b, s, LAMBDA u, dom : SetCard(u, dom, d)) = (CHOOSE f : Raw(f))[Len(s)]
  BY DEF ForEach, Gather, Once
<1> HIDE DEF P
<1>3. \A f : Raw(f) <=> Runs(f, "card", d, b, s)
  BY <1>1 DEF Runs
<1> QED
  BY <1>2, <1>3 DEF Result, Run

LEMMA BwLoop ==
  ASSUME NEW b, NEW s, NEW d
  PROVE  ForEach(b, s, LAMBDA u, dom : SetBw(u, dom, d)) = Result("bw", d, b, s)
<1> DEFINE P(v, x) == SetBw(v, x, d)
           Raw(f) == f = [n \in 0 .. Len(s) |->
             IF n = 0 THEN b ELSE CHOOSE y \in {IF v.ok THEN P(v, s[n]) ELSE v : v \in {f[n - 1]}} : TRUE]
<1>1. \A v, x : Body("bw", d, v, x) = IF v.ok THEN P(v, x) ELSE v
  BY DEF Body, Doing, WorldKinds
<1>2. ForEach(b, s, LAMBDA u, dom : SetBw(u, dom, d)) = (CHOOSE f : Raw(f))[Len(s)]
  BY DEF ForEach, Gather, Once
<1> HIDE DEF P
<1>3. \A f : Raw(f) <=> Runs(f, "bw", d, b, s)
  BY <1>1 DEF Runs
<1> QED
  BY <1>2, <1>3 DEF Result, Run

LEMMA MbaLoop ==
  ASSUME NEW b, NEW s, NEW t, NEW d
  PROVE  ForEach(b, s, LAMBDA u, id : SetMba(u, t, id, d)) = Result("mba", <<t, d>>, b, s)
<1> DEFINE a == <<t, d>>
           P(v, x) == SetMba(v, t, x, d)
           Raw(f) == f = [n \in 0 .. Len(s) |->
             IF n = 0 THEN b ELSE CHOOSE y \in {IF v.ok THEN P(v, s[n]) ELSE v : v \in {f[n - 1]}} : TRUE]
<1>1. \A v, x : Body("mba", a, v, x) = IF v.ok THEN P(v, x) ELSE v
  BY DEF Body, Doing, WorldKinds
<1>2. ForEach(b, s, LAMBDA u, id : SetMba(u, t, id, d)) = (CHOOSE f : Raw(f))[Len(s)]
  BY DEF ForEach, Gather, Once
<1> HIDE DEF P, a
<1>3. \A f : Raw(f) <=> Runs(f, "mba", a, b, s)
  BY <1>1 DEF Runs
<1> QED
  BY <1>2, <1>3 DEF Result, Run, a

LEMMA ClosLoop ==
  ASSUME NEW b, NEW s, NEW t, NEW ids
  PROVE  ForEach(b, s, LAMBDA u, d : set_allocation_clos(u, t, d, ids)) = Result("clos", <<t, ids>>, b, s)
<1> DEFINE a == <<t, ids>>
           P(v, x) == set_allocation_clos(v, t, x, ids)
           Raw(f) == f = [n \in 0 .. Len(s) |->
             IF n = 0 THEN b ELSE CHOOSE y \in {IF v.ok THEN P(v, s[n]) ELSE v : v \in {f[n - 1]}} : TRUE]
<1>1. \A v, x : Body("clos", a, v, x) = IF v.ok THEN P(v, x) ELSE v
  BY DEF Body, Doing, WorldKinds
<1>2. ForEach(b, s, LAMBDA u, d : set_allocation_clos(u, t, d, ids)) = (CHOOSE f : Raw(f))[Len(s)]
  BY DEF ForEach, Gather, Once
<1> HIDE DEF P, a
<1>3. \A f : Raw(f) <=> Runs(f, "clos", a, b, s)
  BY <1>1 DEF Runs
<1> QED
  BY <1>2, <1>3 DEF Result, Run, a

LEMMA ClassLoop ==
  ASSUME NEW b, NEW s
  PROVE  ForEach(b, s, set_allocation_class) = Result("class", 0, b, s)
<1> DEFINE P(v, x) == set_allocation_class(v, x)
           Raw(f) == f = [n \in 0 .. Len(s) |->
             IF n = 0 THEN b ELSE CHOOSE y \in {IF v.ok THEN P(v, s[n]) ELSE v : v \in {f[n - 1]}} : TRUE]
<1>1. \A v, x : Body("class", 0, v, x) = IF v.ok THEN P(v, x) ELSE v
  BY DEF Body, Doing, WorldKinds
<1>2. ForEach(b, s, set_allocation_class) = (CHOOSE f : Raw(f))[Len(s)]
  BY DEF ForEach, Gather, Once
<1> HIDE DEF P
<1>3. \A f : Raw(f) <=> Runs(f, "class", 0, b, s)
  BY <1>1 DEF Runs
<1> QED
  BY <1>2, <1>3 DEF Result, Run

LEMMA CoreLoop ==
  ASSUME NEW b, NEW s
  PROVE  ForEach(b, s, set_core) = Result("core", 0, b, s)
<1> DEFINE P(v, x) == set_core(v, x)
           Raw(f) == f = [n \in 0 .. Len(s) |->
             IF n = 0 THEN b ELSE CHOOSE y \in {IF v.ok THEN P(v, s[n]) ELSE v : v \in {f[n - 1]}} : TRUE]
<1>1. \A v, x : Body("core", 0, v, x) = IF v.ok THEN P(v, x) ELSE v
  BY DEF Body, Doing, WorldKinds
<1>2. ForEach(b, s, set_core) = (CHOOSE f : Raw(f))[Len(s)]
  BY DEF ForEach, Gather, Once
<1> HIDE DEF P
<1>3. \A f : Raw(f) <=> Runs(f, "core", 0, b, s)
  BY <1>1 DEF Runs
<1> QED
  BY <1>2, <1>3 DEF Result, Run

LEMMA PidLoop ==
  ASSUME NEW b, NEW s
  PROVE  ForEach(b, s, set_pid) = Result("pid", 0, b, s)
<1> DEFINE P(v, x) == set_pid(v, x)
           Raw(f) == f = [n \in 0 .. Len(s) |->
             IF n = 0 THEN b ELSE CHOOSE y \in {IF v.ok THEN P(v, s[n]) ELSE v : v \in {f[n - 1]}} : TRUE]
<1>1. \A v, x : Body("pid", 0, v, x) = IF v.ok THEN P(v, x) ELSE v
  BY DEF Body, Doing, WorldKinds
<1>2. ForEach(b, s, set_pid) = (CHOOSE f : Raw(f))[Len(s)]
  BY DEF ForEach, Gather, Once
<1> HIDE DEF P
<1>3. \A f : Raw(f) <=> Runs(f, "pid", 0, b, s)
  BY <1>1 DEF Runs
<1> QED
  BY <1>2, <1>3 DEF Result, Run

LEMMA ChanLoop ==
  ASSUME NEW b, NEW s
  PROVE  ForEach(b, s, LAMBDA u, e : set_channel(u, e.what, e.clos)) = Result("chan", 0, b, s)
<1> DEFINE P(v, x) == set_channel(v, x.what, x.clos)
           Raw(f) == f = [n \in 0 .. Len(s) |->
             IF n = 0 THEN b ELSE CHOOSE y \in {IF v.ok THEN P(v, s[n]) ELSE v : v \in {f[n - 1]}} : TRUE]
<1>1. \A v, x : Body("chan", 0, v, x) = IF v.ok THEN P(v, x) ELSE v
  BY DEF Body, Doing, WorldKinds
<1>2. ForEach(b, s, LAMBDA u, e : set_channel(u, e.what, e.clos)) = (CHOOSE f : Raw(f))[Len(s)]
  BY DEF ForEach, Gather, Once
<1> HIDE DEF P
<1>3. \A f : Raw(f) <=> Runs(f, "chan", 0, b, s)
  BY <1>1 DEF Runs
<1> QED
  BY <1>2, <1>3 DEF Result, Run

LEMMA DevLoop ==
  ASSUME NEW b, NEW s
  PROVE  ForEach(b, s, set_dev) = Result("dev", 0, b, s)
<1> DEFINE P(v, x) == set_dev(v, x)
           Raw(f) == f = [n \in 0 .. Len(s) |->
             IF n = 0 THEN b ELSE CHOOSE y \in {IF v.ok THEN P(v, s[n]) ELSE v : v \in {f[n - 1]}} : TRUE]
<1>1. \A v, x : Body("dev", 0, v, x) = IF v.ok THEN P(v, x) ELSE v
  BY DEF Body, Doing, WorldKinds
<1>2. ForEach(b, s, set_dev) = (CHOOSE f : Raw(f))[Len(s)]
  BY DEF ForEach, Gather, Once
<1> HIDE DEF P
<1>3. \A f : Raw(f) <=> Runs(f, "dev", 0, b, s)
  BY <1>1 DEF Runs
<1> QED
  BY <1>2, <1>3 DEF Result, Run

LEMMA DevChanLoop ==
  ASSUME NEW b, NEW s, NEW c
  PROVE  ForEach(b, s, LAMBDA u, ch : IF ch = 0 THEN u ELSE set_channel(u, ch, c)) = Result("devchan", c, b, s)
<1> DEFINE P(v, x) == IF x = 0 THEN v ELSE set_channel(v, x, c)
           Raw(f) == f = [n \in 0 .. Len(s) |->
             IF n = 0 THEN b ELSE CHOOSE y \in {IF v.ok THEN P(v, s[n]) ELSE v : v \in {f[n - 1]}} : TRUE]
<1>1. \A v, x : Body("devchan", c, v, x) = IF v.ok THEN P(v, x) ELSE v
  BY DEF Body, Doing, WorldKinds
<1>2. ForEach(b, s, LAMBDA u, ch : IF ch = 0 THEN u ELSE set_channel(u, ch, c)) = (CHOOSE f : Raw(f))[Len(s)]
  BY DEF ForEach, Gather, Once
<1> HIDE DEF P
<1>3. \A f : Raw(f) <=> Runs(f, "devchan", c, b, s)
  BY <1>1 DEF Runs
<1> QED
  BY <1>2, <1>3 DEF Result, Run

LEMMA AssocLoop ==
  ASSUME NEW b, NEW s
  PROVE  ForEach(b, s, LAMBDA v, x :
           LET n == narrow_iface(v, AssocMask(x))
           IN IF n.ok THEN Selecting(n, parse_allocation_assoc(n.sel, x)) ELSE n) = Result("assoc", 0, b, s)
<1> DEFINE P(v, x) == Associate(v, x)
           Raw(f) == f = [n \in 0 .. Len(s) |->
             IF n = 0 THEN b ELSE CHOOSE y \in {IF v.ok THEN P(v, s[n]) ELSE v : v \in {f[n - 1]}} : TRUE]
<1>1. \A v, x : Body("assoc", 0, v, x) = IF v.ok THEN P(v, x) ELSE v
  BY DEF Body, Doing, WorldKinds
<1>2. ForEach(b, s, LAMBDA v, x :
           LET n == narrow_iface(v, AssocMask(x))
           IN IF n.ok THEN Selecting(n, parse_allocation_assoc(n.sel, x)) ELSE n) = (CHOOSE f : Raw(f))[Len(s)]
  BY DEF ForEach, Gather, Once, Associate
<1> HIDE DEF P
<1>3. \A f : Raw(f) <=> Runs(f, "assoc", 0, b, s)
  BY <1>1 DEF Runs
<1> QED
  BY <1>2, <1>3 DEF Result, Run

LEMMA MonitorLoop ==
  ASSUME NEW b, NEW s
  PROVE  ForEach(b, s, LAMBDA v, m : Selecting(v, parse_monitor_group(v.sel, m))) = Result("monitor", 0, b, s)
<1> DEFINE P(v, x) == Selecting(v, parse_monitor_group(v.sel, x))
           Raw(f) == f = [n \in 0 .. Len(s) |->
             IF n = 0 THEN b ELSE CHOOSE y \in {IF v.ok THEN P(v, s[n]) ELSE v : v \in {f[n - 1]}} : TRUE]
<1>1. \A v, x : Body("monitor", 0, v, x) = IF v.ok THEN P(v, x) ELSE v
  BY DEF Body, Doing, WorldKinds
<1>2. ForEach(b, s, LAMBDA v, m : Selecting(v, parse_monitor_group(v.sel, m))) = (CHOOSE f : Raw(f))[Len(s)]
  BY DEF ForEach, Gather, Once
<1> HIDE DEF P
<1>3. \A f : Raw(f) <=> Runs(f, "monitor", 0, b, s)
  BY <1>1 DEF Runs
<1> QED
  BY <1>2, <1>3 DEF Result, Run

LEMMA DeviceLoop ==
  ASSUME NEW b, NEW s
  PROVE  ForEach(b, s, LAMBDA v, m : Selecting(v, parse_monitor_dev(v.sel, m))) = Result("device", 0, b, s)
<1> DEFINE P(v, x) == Selecting(v, parse_monitor_dev(v.sel, x))
           Raw(f) == f = [n \in 0 .. Len(s) |->
             IF n = 0 THEN b ELSE CHOOSE y \in {IF v.ok THEN P(v, s[n]) ELSE v : v \in {f[n - 1]}} : TRUE]
<1>1. \A v, x : Body("device", 0, v, x) = IF v.ok THEN P(v, x) ELSE v
  BY DEF Body, Doing, WorldKinds
<1>2. ForEach(b, s, LAMBDA v, m : Selecting(v, parse_monitor_dev(v.sel, m))) = (CHOOSE f : Raw(f))[Len(s)]
  BY DEF ForEach, Gather, Once
<1> HIDE DEF P
<1>3. \A f : Raw(f) <=> Runs(f, "device", 0, b, s)
  BY <1>1 DEF Runs
<1> QED
  BY <1>2, <1>3 DEF Result, Run

LEMMA LineLoop ==
  ASSUME NEW b, NEW s
  PROVE  ForEach(b, s, LAMBDA v, i : Handle(v, Options[i])) = Result("line", 0, b, s)
<1> DEFINE P(v, x) == Handle(v, Options[x])
           Raw(f) == f = [n \in 0 .. Len(s) |->
             IF n = 0 THEN b ELSE CHOOSE y \in {IF v.ok THEN P(v, s[n]) ELSE v : v \in {f[n - 1]}} : TRUE]
<1>1. \A v, x : Body("line", 0, v, x) = IF v.ok THEN P(v, x) ELSE v
  BY DEF Body, Doing, WorldKinds
<1>2. ForEach(b, s, LAMBDA v, i : Handle(v, Options[i])) = (CHOOSE f : Raw(f))[Len(s)]
  BY DEF ForEach, Gather, Once
<1> HIDE DEF P
<1>3. \A f : Raw(f) <=> Runs(f, "line", 0, b, s)
  BY <1>1 DEF Runs
<1> QED
  BY <1>2, <1>3 DEF Result, Run

LEMMA StartLoop ==
  ASSUME NEW b, NEW s
  PROVE  ForEach(b, s, StartGroup) = Result("start", 0, b, s)
<1> DEFINE P(v, x) == StartGroup(v, x)
           Raw(f) == f = [n \in 0 .. Len(s) |->
             IF n = 0 THEN b ELSE CHOOSE y \in {IF v.ok THEN P(v, s[n]) ELSE v : v \in {f[n - 1]}} : TRUE]
<1>1. \A v, x : Body("start", 0, v, x) = IF v.ok THEN P(v, x) ELSE v
  BY DEF Body, Doing, WorldKinds
<1>2. ForEach(b, s, StartGroup) = (CHOOSE f : Raw(f))[Len(s)]
  BY DEF ForEach, Gather, Once
<1> HIDE DEF P
<1>3. \A f : Raw(f) <=> Runs(f, "start", 0, b, s)
  BY <1>1 DEF Runs
<1> QED
  BY <1>2, <1>3 DEF Result, Run

-----------------------------------------------------------------------------
(* And those that fill tables. *)

LEMMA ListedRun ==
  ASSUME NEW b, NEW s, NEW max
  PROVE  Gather(LAMBDA t, e :
             IF ~t.ok \/ (Len(t.tab) >= max /\ (e.range \/ ~isdup(t, e.n))) THEN Gone(t)
             ELSE IF isdup(t, e.n) THEN t ELSE [t EXCEPT !.tab = Append(@, e.n)], b, s) = Result("list", max, b, s)
<1> DEFINE P(v, x) == PutListed(v, x, max)
           Raw(f) == f = [n \in 0 .. Len(s) |->
             IF n = 0 THEN b ELSE CHOOSE z \in {P(v, s[n]) : v \in {f[n - 1]}} : TRUE]
<1>1. \A v, x : Body("list", max, v, x) = P(v, x)
  BY DEF Body, Gathered, WorldKinds
<1>2. Gather(LAMBDA t, e :
             IF ~t.ok \/ (Len(t.tab) >= max /\ (e.range \/ ~isdup(t, e.n))) THEN Gone(t)
             ELSE IF isdup(t, e.n) THEN t ELSE [t EXCEPT !.tab = Append(@, e.n)], b, s) = (CHOOSE f : Raw(f))[Len(s)]
  BY DEF Gather, Once, PutListed
<1> HIDE DEF P
<1>3. \A f : Raw(f) <=> Runs(f, "list", max, b, s)
  BY <1>1 DEF Runs
<1> QED
  BY <1>2, <1>3 DEF Result, Run

LEMMA StrictRun ==
  ASSUME NEW b, NEW s, NEW max
  PROVE  Gather(LAMBDA t, n :
             IF ~t.ok \/ Len(t.tab) >= max \/ n >= max \/ isdup(t, n) THEN Gone(t)
             ELSE [t EXCEPT !.tab = Append(@, n)], b, s) = Result("strict", max, b, s)
<1> DEFINE P(v, x) == PutStrict(v, x, max)
           Raw(f) == f = [n \in 0 .. Len(s) |->
             IF n = 0 THEN b ELSE CHOOSE z \in {P(v, s[n]) : v \in {f[n - 1]}} : TRUE]
<1>1. \A v, x : Body("strict", max, v, x) = P(v, x)
  BY DEF Body, Gathered, WorldKinds
<1>2. Gather(LAMBDA t, n :
             IF ~t.ok \/ Len(t.tab) >= max \/ n >= max \/ isdup(t, n) THEN Gone(t)
             ELSE [t EXCEPT !.tab = Append(@, n)], b, s) = (CHOOSE f : Raw(f))[Len(s)]
  BY DEF Gather, Once, PutStrict
<1> HIDE DEF P
<1>3. \A f : Raw(f) <=> Runs(f, "strict", max, b, s)
  BY <1>1 DEF Runs
<1> QED
  BY <1>2, <1>3 DEF Result, Run

LEMMA GrowingRun ==
  ASSUME NEW b, NEW s
  PROVE  Gather(PutGrowing, b, s) = Result("put", 0, b, s)
<1> DEFINE P(v, x) == PutGrowing(v, x)
           Raw(f) == f = [n \in 0 .. Len(s) |->
             IF n = 0 THEN b ELSE CHOOSE z \in {P(v, s[n]) : v \in {f[n - 1]}} : TRUE]
<1>1. \A v, x : Body("put", 0, v, x) = P(v, x)
  BY DEF Body, Gathered, WorldKinds
<1>2. Gather(PutGrowing, b, s) = (CHOOSE f : Raw(f))[Len(s)]
  BY DEF Gather, Once
<1> HIDE DEF P
<1>3. \A f : Raw(f) <=> Runs(f, "put", 0, b, s)
  BY <1>1 DEF Runs
<1> QED
  BY <1>2, <1>3 DEF Result, Run

LEMMA TakeRun ==
  ASSUME NEW b, NEW s
  PROVE  Gather(TakeToken, b, s) = Result("take", 0, b, s)
<1> DEFINE P(v, x) == TakeToken(v, x)
           Raw(f) == f = [n \in 0 .. Len(s) |->
             IF n = 0 THEN b ELSE CHOOSE z \in {P(v, s[n]) : v \in {f[n - 1]}} : TRUE]
<1>1. \A v, x : Body("take", 0, v, x) = P(v, x)
  BY DEF Body, Gathered, WorldKinds
<1>2. Gather(TakeToken, b, s) = (CHOOSE f : Raw(f))[Len(s)]
  BY DEF Gather, Once
<1> HIDE DEF P
<1>3. \A f : Raw(f) <=> Runs(f, "take", 0, b, s)
  BY <1>1 DEF Runs
<1> QED
  BY <1>2, <1>3 DEF Result, Run

LEMMA UpdateRun ==
  ASSUME NEW b, NEW s
  PROVE  Gather(update_proc_cpu_stat, b, s) = Result("update", 0, b, s)
<1> DEFINE P(v, x) == update_proc_cpu_stat(v, x)
           Raw(f) == f = [n \in 0 .. Len(s) |->
             IF n = 0 THEN b ELSE CHOOSE z \in {P(v, s[n]) : v \in {f[n - 1]}} : TRUE]
<1>1. \A v, x : Body("update", 0, v, x) = P(v, x)
  BY DEF Body, Gathered, WorldKinds
<1>2. Gather(update_proc_cpu_stat, b, s) = (CHOOSE f : Raw(f))[Len(s)]
  BY DEF Gather, Once
<1> HIDE DEF P
<1>3. \A f : Raw(f) <=> Runs(f, "update", 0, b, s)
  BY <1>1 DEF Runs
<1> QED
  BY <1>2, <1>3 DEF Result, Run

LEMMA TopRun ==
  ASSUME NEW b, NEW s
  PROVE  Gather(Survivors, b, s) = Result("top", 0, b, s)
<1> DEFINE P(v, x) == Survivors(v, x)
           Raw(f) == f = [n \in 0 .. Len(s) |->
             IF n = 0 THEN b ELSE CHOOSE z \in {P(v, s[n]) : v \in {f[n - 1]}} : TRUE]
<1>1. \A v, x : Body("top", 0, v, x) = P(v, x)
  BY DEF Body, Gathered, WorldKinds
<1>2. Gather(Survivors, b, s) = (CHOOSE f : Raw(f))[Len(s)]
  BY DEF Gather, Once
<1> HIDE DEF P
<1>3. \A f : Raw(f) <=> Runs(f, "top", 0, b, s)
  BY <1>1 DEF Runs
<1> QED
  BY <1>2, <1>3 DEF Result, Run

LEMMA CoreTabRun ==
  ASSUME NEW b, NEW s, NEW c
  PROVE  Gather(LAMBDA t, e : Mention(t, e, c, Len(t) + 1), b, s) = Result("coretab", c, b, s)
<1> DEFINE P(v, x) == Mention(v, x, c, Len(v) + 1)
           Raw(f) == f = [n \in 0 .. Len(s) |->
             IF n = 0 THEN b ELSE CHOOSE z \in {P(v, s[n]) : v \in {f[n - 1]}} : TRUE]
<1>1. \A v, x : Body("coretab", c, v, x) = P(v, x)
  BY DEF Body, Gathered, WorldKinds
<1>2. Gather(LAMBDA t, e : Mention(t, e, c, Len(t) + 1), b, s) = (CHOOSE f : Raw(f))[Len(s)]
  BY DEF Gather, Once
<1> HIDE DEF P
<1>3. \A f : Raw(f) <=> Runs(f, "coretab", c, b, s)
  BY <1>1 DEF Runs
<1> QED
  BY <1>2, <1>3 DEF Result, Run

LEMMA PidTabRun ==
  ASSUME NEW b, NEW s, NEW c
  PROVE  Gather(LAMBDA t, e : Mention(t, e, c, TabMax), b, s) = Result("pidtab", c, b, s)
<1> DEFINE P(v, x) == Mention(v, x, c, TabMax)
           Raw(f) == f = [n \in 0 .. Len(s) |->
             IF n = 0 THEN b ELSE CHOOSE z \in {P(v, s[n]) : v \in {f[n - 1]}} : TRUE]
<1>1. \A v, x : Body("pidtab", c, v, x) = P(v, x)
  BY DEF Body, Gathered, WorldKinds
<1>2. Gather(LAMBDA t, e : Mention(t, e, c, TabMax), b, s) = (CHOOSE f : Raw(f))[Len(s)]
  BY DEF Gather, Once
<1> HIDE DEF P
<1>3. \A f : Raw(f) <=> Runs(f, "pidtab", c, b, s)
  BY <1>1 DEF Runs
<1> QED
  BY <1>2, <1>3 DEF Result, Run

LEMMA GroupRun ==
  ASSUME NEW b, NEW s, NEW y, NEW e
  PROVE  Gather(LAMBDA g, res : IF g.ok THEN grp_add(g.sel, y, e, res) ELSE g, b, s) = Result("group", <<y, e>>, b, s)
<1> DEFINE a == <<y, e>>
           P(v, x) == IF v.ok THEN grp_add(v.sel, y, e, x) ELSE v
           Raw(f) == f = [n \in 0 .. Len(s) |->
             IF n = 0 THEN b ELSE CHOOSE z \in {P(v, s[n]) : v \in {f[n - 1]}} : TRUE]
<1>1. \A v, x : Body("group", a, v, x) = P(v, x)
  BY DEF Body, Gathered, WorldKinds
<1>2. Gather(LAMBDA g, res : IF g.ok THEN grp_add(g.sel, y, e, res) ELSE g, b, s) = (CHOOSE f : Raw(f))[Len(s)]
  BY DEF Gather, Once
<1> HIDE DEF P, a
<1>3. \A f : Raw(f) <=> Runs(f, "group", a, b, s)
  BY <1>1 DEF Runs
<1> QED
  BY <1>2, <1>3 DEF Result, Run, a


LEMMA PartRun ==
  ASSUME NEW b, NEW s, NEW m
  PROVE  Gather(LAMBDA got, p : AddPart(got, p, m), b, s) = Result("part", m, b, s)
<1> DEFINE P(v, x) == AddPart(v, x, m)
           Raw(f) == f = [n \in 0 .. Len(s) |->
             IF n = 0 THEN b ELSE CHOOSE z \in {P(v, s[n]) : v \in {f[n - 1]}} : TRUE]
<1>1. \A v, x : Body("part", m, v, x) = P(v, x)
  BY DEF Body, Gathered, WorldKinds
<1>2. Gather(LAMBDA got, p : AddPart(got, p, m), b, s) = (CHOOSE f : Raw(f))[Len(s)]
  BY DEF Gather, Once
<1> HIDE DEF P
<1>3. \A f : Raw(f) <=> Runs(f, "part", m, b, s)
  BY <1>1 DEF Runs
<1> QED
  BY <1>2, <1>3 DEF Result, Run

-----------------------------------------------------------------------------
(***************************************************************************)
(* What a loop keeps of what it started from, b, whatever it has read.     *)
(***************************************************************************)
WorldFields == {"sel", "lib", "iface", "mask", "user", "selected", "flags", "reset", "config",
                "caps", "cdp", "events", "ioevents", "calls", "fail", "ok", "failed", "alien",
                "mod", "open", "running", "stops"}
SelFields == {"alloc_opts", "domains", "regions", "limits", "core_tab", "pid_tab", "chan_tab",
              "dev_tab", "groups", "mon_type", "mon_regions", "disabled", "mon_opts", "timeout",
              "out_type", "out_file"}

\* The kinds of groups.
GroupType == {"core", "pid", "channel", "device", "uncore"}

\* A table has a list of what was put into it.
Tabled(t) == "tab" \in DOMAIN t /\ Listing(t.tab)

\* Selections that the program can go through, one by one.
SelSound(s) ==
  /\ DOMAIN s = SelFields
  /\ s.alloc_opts \in Seq(ClassDef)
  /\ Listing(s.domains) /\ Listing(s.core_tab) /\ Listing(s.pid_tab)
  /\ Listing(s.chan_tab) /\ Listing(s.dev_tab) /\ Listing(s.groups)
  /\ \A i \in DOMAIN s.groups :
       /\ DOMAIN s.groups[i] = {"type", "events", "res", "started"}
       /\ s.groups[i].type \in GroupType

TypesIn(s) == {s.groups[i].type : i \in DOMAIN s.groups}

\* What was selected can be done on each of these interfaces.
Suits(s, mask) ==
  /\ s.pid_tab # <<>> \/ "pid" \in TypesIn(s) => mask \subseteq {"OS"}
  /\ s.chan_tab # <<>> \/ s.dev_tab # <<>> \/ TypesIn(s) \cap {"channel", "device"} # {} =>
       mask \subseteq {"MSR", "MMIO"}

\* Groups of this type were added, nothing else that has to suit.
Grown(type, b, u) ==
  /\ DOMAIN u = {"ok", "sel"} /\ SelSound(u.sel)
  /\ TypesIn(u.sel) \subseteq TypesIn(b.sel) \cup {type}
  /\ u.sel.pid_tab = b.sel.pid_tab /\ u.sel.chan_tab = b.sel.chan_tab
  /\ u.sel.dev_tab = b.sel.dev_tab

\* Library calls were made, and one that failed stopped the loop.
Called(b, u) ==
  /\ DOMAIN u = WorldFields /\ u.calls \in Nat
  /\ u.iface = b.iface /\ u.mask = b.mask /\ u.open = b.open
  /\ u.ok => b.ok
  /\ u.failed => b.failed \/ ~u.ok
  /\ u.alien => b.alien

Allocating(b, u) ==
  Called(b, u) /\ u.sel = b.sel /\ u.running = b.running /\ u.stops = b.stops

\* Groups were started, and only those that are marked so are monitored.
Starting(b, u) ==
  /\ Called(b, u) /\ u.stops = b.stops /\ u.running \subseteq StartedGroups(u)
  /\ SelSound(u.sel) /\ Suits(u.sel, {u.iface}) /\ DOMAIN u.sel.groups = DOMAIN b.sel.groups

\* An option was taken, nothing has been called yet.
Chosen(v) ==
  /\ DOMAIN v = WorldFields /\ SelSound(v.sel)
  /\ v.mask \subseteq Interface /\ Suits(v.sel, v.mask) /\ v.iface \in Interface \cup {"AUTO"}
  /\ v.calls = 0 /\ ~v.failed /\ ~v.alien /\ ~v.open /\ v.running = {} /\ v.stops = <<>>

Keeps(kind, a, b, u) ==
  CASE kind \in {"list", "strict", "put", "take"} -> Tabled(u)
    [] kind \in {"update", "top", "coretab", "pidtab"} -> Listing(u)
    [] kind = "group" -> Grown(a[1], b, u)
    [] kind = "part" -> Grown(a.type, b, u)
    [] kind \in {"assoc", "line"} -> u.ok => Chosen(u)
    [] kind \in {"monitor", "device"} -> u.ok => Chosen(u) /\ u.mask = b.mask
    [] kind = "start" -> Starting(b, u)
    [] OTHER -> Allocating(b, u)

LEMMA LoopKeeps ==
  ASSUME NEW kind, NEW a, NEW b, NEW s, Len(s) \in Nat, Keeps(kind, a, b, b),
         \A v : \A n \in 1 .. Len(s) :
           Keeps(kind, a, b, v) => Keeps(kind, a, b, Body(kind, a, v, s[n]))
  PROVE  Keeps(kind, a, b, Result(kind, a, b, s))
<1> DEFINE u == Run(kind, a, b, s)
           T == {m \in Nat : m <= Len(s) => Keeps(kind, a, b, u[m])}
<1>1. u[0] = b /\ \A n \in 1 .. Len(s) : u[n] = Body(kind, a, u[n - 1], s[n])
  BY RunExists
<1> HIDE DEF u
<1>2. 0 \in T
  BY <1>1
<1>3. \A m \in Nat : m \in T => m + 1 \in T
  <2> SUFFICES ASSUME NEW m \in Nat, m \in T, m + 1 <= Len(s) PROVE Keeps(kind, a, b, u[m + 1])
    OBVIOUS
  <2>1. m + 1 \in 1 .. Len(s) /\ (m + 1) - 1 = m /\ m <= Len(s)
    OBVIOUS
  <2>2. u[m + 1] = Body(kind, a, u[m], s[m + 1])
    BY <1>1, <2>1
  <2>3. Keeps(kind, a, b, u[m])
    BY <2>1
  <2> QED
    BY <2>1, <2>2, <2>3
<1> HIDE DEF T
<1>4. Len(s) \in T
  BY <1>2, <1>3, EveryCount
<1> QED
  BY <1>4 DEF T, u, Result

-----------------------------------------------------------------------------
(* Every parser makes a list. *)

LEMMA PutLists ==
  ASSUME NEW t, NEW x, NEW m, Tabled(t)
  PROVE  Tabled(PutListed(t, x, m)) /\ Tabled(PutStrict(t, x, m)) /\ Tabled(PutGrowing(t, x))
<1>1. \A e : Listing(Append(t.tab, e))
  BY AppendLists DEF Tabled
<1>2. Tabled(Gone(t))
  BY DEF Gone, Tabled
<1>3. \A e : Tabled([t EXCEPT !.tab = Append(@, e)])
  BY <1>1 DEF Tabled
<1>4. Tabled(PutGrowing(t, x))
  <2> DEFINE u == IF isdup(t, x) THEN t
                  ELSE [t EXCEPT !.over = @ \/ Len(t.tab) >= t.max, !.tab = Append(@, x)]
  <2>1. Tabled(u)
    BY <1>1 DEF Tabled
  <2> HIDE DEF u
  <2>2. Tabled([u EXCEPT !.max = realloc_and_init(@)])
    BY <2>1 DEF Tabled
  <2> QED
    BY <2>1, <2>2 DEF u, PutGrowing
<1> QED
  BY <1>2, <1>3, <1>4 DEF PutListed, PutStrict

LEMMA TableLists == Tabled(Table(<<>>)) /\ \A x : Tabled(Table(<<x>>))
<1>1. Listing(<<>>) /\ \A x : Listing(<<x>>)
  BY DEF Listing
<1> QED
  BY <1>1 DEF Table, Tabled

LEMMA ListedLists == \A list \in Lists : Listing(Listed(list))
<1> SUFFICES ASSUME NEW list \in Lists PROVE Listing(Listed(list))
  OBVIOUS
<1> DEFINE Row(i) == [j \in 1 .. Len(Upwards(list[i])) |->
                        [n |-> Upwards(list[i])[j], range |-> list[i].range]]
           q == [i \in 1 .. Len(list) |-> Row(i)]
<1>1. Len(list) \in Nat /\ \A i \in 1 .. Len(list) : list[i] \in Token
  BY DEF Lists
<1>2. ASSUME NEW i \in 1 .. Len(list) PROVE Listing(Row(i))
  <2>1. Len(Upwards(list[i])) \in Nat
    BY <1>1, UpwardsLists DEF Listing
  <2> DEFINE r == Row(i)
  <2>2. r = [j \in 1 .. Len(Upwards(list[i])) |-> r[j]]
    OBVIOUS
  <2> HIDE DEF r
  <2>3. Listing(r)
    BY <2>1, <2>2, ListingTo
  <2> QED
    BY <2>3 DEF r
<1> HIDE DEF Row
<1>3. Listing(q) /\ Len(q) = Len(list)
  <2>1. q = [i \in 1 .. Len(list) |-> q[i]]
    OBVIOUS
  <2> HIDE DEF q
  <2> QED
    BY <1>1, <2>1, ListingTo
<1>4. \A i \in 1 .. Len(q) : Listing(q[i])
  BY <1>2, <1>3
<1>5. Listing(FlattenSeq(q))
  <2> HIDE DEF q
  <2> QED
    BY <1>3, <1>4, FlattenLists
<1> QED
  BY <1>5 DEF Listed, Row

LEMMA ListTables == \A list \in Lists : \A max : Tabled(strlisttotab(list, max))
<1> SUFFICES ASSUME NEW list \in Lists, NEW max PROVE Tabled(strlisttotab(list, max))
  OBVIOUS
<1>1. strlisttotab(list, max) = Result("list", max, Table(<<>>), Listed(list))
  BY ListedRun DEF strlisttotab
<1>2. \A v : Keeps("list", max, Table(<<>>), v) <=> Tabled(v)
  BY DEF Keeps
<1>3. \A v, x : Body("list", max, v, x) = PutListed(v, x, max)
  BY DEF Body, Gathered, WorldKinds
<1>4. Len(Listed(list)) \in Nat
  BY ListedLists DEF Listing
<1>5. Keeps("list", max, Table(<<>>), Result("list", max, Table(<<>>), Listed(list)))
  BY <1>2, <1>3, <1>4, PutLists, TableLists, LoopKeeps
<1> QED
  BY <1>1, <1>2, <1>5

LEMMA NumberTables == \A list \in Lists : \A max, bound : Tabled(NumberList(list, max, bound))
<1>1. \A t : Tabled(t) => Tabled(Gone(t))
  BY DEF Gone, Tabled
<1> QED
  BY <1>1, ListTables DEF NumberList

LEMMA GrowingTables == \A list \in Lists : \A size : Tabled(strlisttotabrealloc(list, size))
<1> SUFFICES ASSUME NEW list \in Lists, NEW size PROVE Tabled(strlisttotabrealloc(list, size))
  OBVIOUS
<1> DEFINE b == [ok |-> TRUE, tab |-> <<>>, max |-> size, over |-> FALSE]
<1>1. strlisttotabrealloc(list, size) = Gather(TakeToken, b, list)
  BY DEF strlisttotabrealloc, TakeToken, PutGrowing
<1>2. Gather(TakeToken, b, list) = Result("take", 0, b, list)
  BY TakeRun
<1>3. Tabled(b)
  <2>1. Listing(<<>>)
    BY DEF Listing
  <2> QED
    BY <2>1 DEF Tabled
<1> HIDE DEF b
<1>4. \A v : Keeps("take", 0, b, v) <=> Tabled(v)
  BY DEF Keeps
<1>5. \A v, x : Body("take", 0, v, x) = TakeToken(v, x)
  BY DEF Body, Gathered, WorldKinds
<1>6. ASSUME NEW t, Tabled(t), NEW tok \in Token PROVE Tabled(TakeToken(t, tok))
  <2>1. Listing(Upwards(tok)) /\ Len(Upwards(tok)) \in Nat
    BY UpwardsLists DEF Listing
  <2>2. Tabled([t EXCEPT !.max = SizeFor[t.max, Len(Upwards(tok))], !.tab = Upwards(tok)])
    <3> HIDE DEF SizeFor
    <3> QED
      BY <1>6, <2>1 DEF Tabled
  <2>3. Tabled(Result("put", 0, t, Upwards(tok)))
    <3>1. \A v : Keeps("put", 0, t, v) <=> Tabled(v)
      BY DEF Keeps
    <3>2. \A v, x : Body("put", 0, v, x) = PutGrowing(v, x)
      BY DEF Body, Gathered, WorldKinds
    <3>3. \A v, x : Tabled(v) => Tabled(PutGrowing(v, x))
      BY PutLists
    <3>4. Keeps("put", 0, t, Result("put", 0, t, Upwards(tok)))
      BY <1>6, <2>1, <3>1, <3>2, <3>3, LoopKeeps
    <3> QED
      BY <3>1, <3>4
  <2>4. Gather(PutGrowing, t, Upwards(tok)) = Result("put", 0, t, Upwards(tok))
    BY GrowingRun
  <2> QED
    BY <2>2, <2>3, <2>4 DEF TakeToken
<1>7. Len(list) \in Nat /\ \A n \in 1 .. Len(list) : list[n] \in Token
  BY DEF Lists
<1>8. Keeps("take", 0, b, Result("take", 0, b, list))
  BY <1>3, <1>4, <1>5, <1>6, <1>7, LoopKeeps
<1> QED
  BY <1>1, <1>2, <1>4, <1>8

LEMMA ChannelTables == \A list \in Lists : \A max : Tabled(parse_virtual_channels(list, max))
<1> SUFFICES ASSUME NEW list \in Lists, NEW max PROVE Tabled(parse_virtual_channels(list, max))
  OBVIOUS
<1> DEFINE q == [i \in 1 .. Len(list) |-> AsTyped(list[i])]
           res == Result("strict", max, Table(<<>>), FlattenSeq(q))
<1>1. parse_virtual_channels(list, max) = IF res.tab = <<>> THEN Gone(res) ELSE res
  BY StrictRun DEF parse_virtual_channels, Strict
<1>2. Len(list) \in Nat /\ \A i \in 1 .. Len(list) : list[i] \in Token
  BY DEF Lists
<1>3. Listing(q) /\ Len(q) = Len(list)
  <2>1. q = [i \in 1 .. Len(list) |-> q[i]]
    OBVIOUS
  <2> HIDE DEF q
  <2> QED
    BY <1>2, <2>1, ListingTo
<1>4. \A i \in 1 .. Len(q) : Listing(q[i])
  BY <1>2, <1>3, AsTypedLists, SequenceLists
<1> HIDE DEF q
<1>5. Len(FlattenSeq(q)) \in Nat
  BY <1>3, <1>4, FlattenLists DEF Listing
<1>6. \A v : Keeps("strict", max, Table(<<>>), v) <=> Tabled(v)
  BY DEF Keeps
<1>7. \A v, x : Body("strict", max, v, x) = PutStrict(v, x, max)
  BY DEF Body, Gathered, WorldKinds
<1>8. Tabled(res)
  BY <1>5, <1>6, <1>7, PutLists, TableLists, LoopKeeps
<1> HIDE DEF res
<1>9. Tabled(Gone(res))
  BY <1>8 DEF Gone, Tabled
<1> QED
  BY <1>1, <1>8, <1>9

-----------------------------------------------------------------------------
(* The tables of associations and the list of processes. *)

LEMMA CoresMentioned ==
  ASSUME NEW tab, NEW s, NEW clos, Listing(tab), Listing(s)
  PROVE  Listing(Result("coretab", clos, tab, s))
<1>1. \A v : Keeps("coretab", clos, tab, v) <=> Listing(v)
  BY DEF Keeps
<1>2. \A v, x : Body("coretab", clos, v, x) = Mention(v, x, clos, Len(v) + 1)
  BY DEF Body, Gathered, WorldKinds
<1>3. \A v, x, max : Listing(v) => Listing(Mention(v, x, clos, max))
  BY AppendLists, ExceptLists DEF Mention
<1>4. Len(s) \in Nat
  BY DEF Listing
<1>5. Keeps("coretab", clos, tab, Result("coretab", clos, tab, s))
  BY <1>1, <1>2, <1>3, <1>4, LoopKeeps
<1> QED
  BY <1>1, <1>5

LEMMA PidsMentioned ==
  ASSUME NEW tab, NEW s, NEW clos, Listing(tab), Listing(s)
  PROVE  Listing(Result("pidtab", clos, tab, s))
<1>1. \A v : Keeps("pidtab", clos, tab, v) <=> Listing(v)
  BY DEF Keeps
<1>2. \A v, x : Body("pidtab", clos, v, x) = Mention(v, x, clos, TabMax)
  BY DEF Body, Gathered, WorldKinds
<1>3. \A v, x, max : Listing(v) => Listing(Mention(v, x, clos, max))
  BY AppendLists, ExceptLists DEF Mention
<1>4. Len(s) \in Nat
  BY DEF Listing
<1>5. Keeps("pidtab", clos, tab, Result("pidtab", clos, tab, s))
  BY <1>1, <1>2, <1>3, <1>4, LoopKeeps
<1> QED
  BY <1>1, <1>5

LEMMA InsertLists ==
  ASSUME NEW s, NEW x, Listing(s)
  PROVE  Listing(Sorted(s, x)) /\ (s # <<>> => Listing(Tail(s)))
<1> DEFINE S == {s[i] : i \in 1 .. Len(s)} \cup {x}
           less == {i \in DOMAIN s : proc_stats_cmp(s[i], x)}
           k == Cardinality(less)
<1>1. s \in Seq(S) /\ x \in S
  <2>1. s \in Seq({s[i] : i \in 1 .. Len(s)})
    BY ListingIs
  <2> QED
    BY <2>1
<1>2. k \in 0 .. Len(s)
  <2>1. DOMAIN s = 1 .. Len(s) /\ Len(s) \in Nat
    BY DEF Listing
  <2>2. IsFiniteSet(1 .. Len(s)) /\ Cardinality(1 .. Len(s)) = Len(s)
    <3>1. 1 \in Int /\ Len(s) \in Int /\ (1 > Len(s) => Len(s) = 0) /\ Len(s) - 1 + 1 = Len(s)
      BY <2>1
    <3> QED
      BY <3>1, FS_Interval
  <2>3. less \subseteq 1 .. Len(s)
    BY <2>1
  <2> HIDE DEF less
  <2>4. k <= Len(s) /\ IsFiniteSet(less)
    BY <2>2, <2>3, FS_Subset
  <2>5. k \in Nat
    BY <2>4, FS_CardinalityType
  <2> QED
    BY <2>1, <2>4, <2>5
<1> HIDE DEF S, k
<1>3. SubSeq(s, 1, k) \in Seq(S) /\ SubSeq(s, k + 1, Len(s)) \in Seq(S)
  BY <1>1, <1>2
<1>4. SubSeq(s, 1, k) \o <<x>> \o SubSeq(s, k + 1, Len(s)) \in Seq(S)
  BY <1>1, <1>3
<1>5. (k + 1) - 1 = k
  BY <1>2
<1>6. Sorted(s, x) = SubSeq(s, 1, k) \o <<x>> \o SubSeq(s, k + 1, Len(s))
  BY <1>5 DEF Sorted, InsertAt, k
<1>7. s # <<>> => Tail(s) \in Seq(S)
  BY <1>1
<1> QED
  BY <1>4, <1>6, <1>7, SequenceLists

LEMMA TopLists ==
  \A first \in Seq(ProcArg), second \in Seq(ProcArg) : Listing(TopProcs(first, second))
<1> SUFFICES ASSUME NEW first \in Seq(ProcArg), NEW second \in Seq(ProcArg)
             PROVE  Listing(TopProcs(first, second))
  OBVIOUS
<1> DEFINE looks == [i \in 1 .. Len(first) |-> add_proc_cpu_stat(first[i])]
           back == Reverse(looks)
           stats == get_proc_pids_stats(first, second)
<1>1. Listing(back)
  <2>1. looks = [i \in 1 .. Len(first) |-> looks[i]] /\ Len(first) \in Nat
    OBVIOUS
  <2> HIDE DEF looks
  <2>2. Len(looks) \in Nat
    BY <2>1, ListingTo DEF Listing
  <2>3. back = [i \in 1 .. Len(looks) |-> back[i]]
    BY DEF Reverse
  <2> QED
    BY <2>2, <2>3, ListingTo
<1>2. Listing(stats)
  <2> HIDE DEF back
  <2>1. stats = Result("update", 0, back, second)
    BY UpdateRun DEF get_proc_pids_stats, back
  <2>2. \A v : Keeps("update", 0, back, v) <=> Listing(v)
    BY DEF Keeps
  <2>3. \A v, x : Body("update", 0, v, x) = update_proc_cpu_stat(v, x)
    BY DEF Body, Gathered, WorldKinds
  <2>4. \A v, x : Listing(v) => Listing(update_proc_cpu_stat(v, x))
    <3> SUFFICES ASSUME NEW v, NEW x, Listing(v) PROVE Listing(update_proc_cpu_stat(v, x))
      OBVIOUS
    <3> DEFINE r == update_proc_cpu_stat(v, x)
    <3>1. DOMAIN v = 1 .. Len(v) /\ Len(v) \in Nat
      BY DEF Listing
    <3>2. r = [i \in 1 .. Len(v) |-> r[i]]
      BY <3>1 DEF update_proc_cpu_stat
    <3> HIDE DEF r
    <3> QED
      BY <3>1, <3>2, ListingTo DEF r
  <2>5. Keeps("update", 0, back, Result("update", 0, back, second))
    BY <1>1, <2>2, <2>3, <2>4, LoopKeeps
  <2> QED
    BY <2>1, <2>2, <2>5
<1> HIDE DEF stats
<1>3. TopProcs(first, second) = Result("top", 0, <<>>, stats)
  BY TopRun DEF TopProcs, stats
<1>4. \A v : Keeps("top", 0, <<>>, v) <=> Listing(v)
  BY DEF Keeps
<1>5. \A v, x : Body("top", 0, v, x) = Survivors(v, x)
  BY DEF Body, Gathered, WorldKinds
<1>6. ASSUME NEW v, NEW x, Listing(v) PROVE Listing(Survivors(v, x))
  <2>1. TopProcMax \in Nat \ {0}
    BY TopAssumption
  <2>2. Len(v) \in Nat
    BY <1>6 DEF Listing
  <2>3. ~(Len(v) < TopProcMax) => v # <<>>
    BY <2>1, <2>2
  <2>4. Listing(Sorted(v, x)) /\ (v # <<>> => Listing(Sorted(Tail(v), x)))
    BY <1>6, InsertLists
  <2> QED
    BY <1>6, <2>3, <2>4 DEF Survivors
<1>7. Listing(<<>>) /\ Len(stats) \in Nat
  BY <1>2 DEF Listing
<1>8. Keeps("top", 0, <<>>, Result("top", 0, <<>>, stats))
  BY <1>4, <1>5, <1>6, <1>7, LoopKeeps
<1> QED
  BY <1>3, <1>4, <1>8

-----------------------------------------------------------------------------
(* Groups are added to groups. *)

LEMMA AddKeeps ==
  ASSUME NEW type \in GroupType, NEW b, NEW v, Grown(type, b, v), NEW events, NEW res
  PROVE  Grown(type, b, grp_add(v.sel, type, events, res))
<1> DEFINE s == v.sel
           new == [type |-> type, events |-> events, res |-> res, started |-> FALSE]
           hit == {i \in DOMAIN s.groups :
                     s.groups[i].type = type /\ grp_cmp(new, s.groups[i]) # "none"}
           first == Min(hit)
           kinds == s.mon_type \cup {IF type = "device" THEN "channel" ELSE type}
           typed == [s EXCEPT !.mon_type = kinds]
           added == [typed EXCEPT !.groups = Append(@, new)]
           more == [typed EXCEPT !.groups[first].events = @ \cup events]
<1>1. SelSound(s)
  BY DEF Grown
<1> HIDE DEF first, kinds
<1>2. SelSound(typed) /\ TypesIn(typed) = TypesIn(s)
  BY <1>1 DEF SelSound, SelFields, TypesIn
<1>3. SelSound(added) /\ TypesIn(added) \subseteq TypesIn(s) \cup {type}
  <2> DEFINE g == Append(s.groups, new)
  <2>1. Listing(s.groups) /\ DOMAIN s.groups = 1 .. Len(s.groups) /\ Len(s.groups) \in Nat
    BY <1>1 DEF SelSound, Listing
  <2>2. Listing(g) /\ Len(g) = Len(s.groups) + 1 /\ g[Len(s.groups) + 1] = new
        /\ \A i \in 1 .. Len(s.groups) : g[i] = s.groups[i]
    BY <2>1, AppendLists
  <2>3. DOMAIN g = 1 .. (Len(s.groups) + 1)
    BY <2>2 DEF Listing
  <2>4. \A i \in DOMAIN g : g[i] = new \/ (i \in DOMAIN s.groups /\ g[i] = s.groups[i])
    BY <2>1, <2>2, <2>3
  <2> HIDE DEF g
  <2>5. added = [typed EXCEPT !.groups = g] /\ added.groups = g
    BY <1>1 DEF g, SelSound, SelFields
  <2>6. DOMAIN new = {"type", "events", "res", "started"} /\ new.type = type
    OBVIOUS
  <2> HIDE DEF new
  <2>7. \A i \in DOMAIN g : DOMAIN g[i] = {"type", "events", "res", "started"} /\ g[i].type \in GroupType
    BY <1>1, <2>4, <2>6 DEF SelSound
  <2>8. SelSound(added)
    <3> HIDE DEF typed, added
    <3>1. added = [x \in SelFields |-> IF x = "groups" THEN g ELSE typed[x]]
      BY <1>2, <2>5 DEF SelSound
    <3> QED
      BY <1>2, <2>2, <2>7, <3>1 DEF SelSound, SelFields
  <2>9. TypesIn(added) \subseteq TypesIn(s) \cup {type}
    BY <2>4, <2>5, <2>6 DEF TypesIn
  <2> QED
    BY <2>8, <2>9
<1>4. SelSound(more) /\ TypesIn(more) = TypesIn(s)
  <2> DEFINE new2 == [s.groups[first] EXCEPT !.events = @ \cup events]
             g == [s.groups EXCEPT ![first] = new2]
  <2>1. Listing(s.groups) /\ Listing(g) /\ DOMAIN g = DOMAIN s.groups
    BY <1>1, ExceptLists DEF SelSound
  <2>2. \A i \in DOMAIN g : g[i].type = s.groups[i].type /\ DOMAIN g[i] = DOMAIN s.groups[i]
    BY <1>1 DEF SelSound
  <2> HIDE DEF new2
  <2>3. more = [typed EXCEPT !.groups = g]
    BY <1>1 DEF SelSound, SelFields, new2
  <2> HIDE DEF g
  <2>4. more.groups = g
    BY <1>1, <2>3 DEF SelSound, SelFields
  <2>5. TypesIn(more) = TypesIn(s)
    BY <2>1, <2>2, <2>4 DEF TypesIn
  <2> HIDE DEF typed, more
  <2>6. more = [x \in SelFields |-> IF x = "groups" THEN g ELSE typed[x]]
    BY <1>2, <2>3 DEF SelSound
  <2>7. \A i \in DOMAIN g : DOMAIN g[i] = {"type", "events", "res", "started"} /\ g[i].type \in GroupType
    BY <1>1, <2>1, <2>2 DEF SelSound
  <2> QED
    BY <1>2, <2>1, <2>5, <2>6, <2>7 DEF SelSound, SelFields
<1>5. ASSUME NEW x \in {typed, added, more}
      PROVE  x.pid_tab = s.pid_tab /\ x.chan_tab = s.chan_tab /\ x.dev_tab = s.dev_tab
  BY <1>1 DEF SelSound, SelFields
<1> DEFINE got == grp_add(s, type, events, res)
<1>6. DOMAIN got = {"ok", "sel"} /\ got.sel \in {typed, added, more}
  <2>1. CASE hit = {}
    <3>1. got = [ok |-> TRUE, sel |-> added]
      BY <2>1 DEF grp_add, kinds
    <3> QED
      BY <3>1
  <2>2. CASE hit # {} /\ grp_cmp(new, s.groups[first]) = "same"
    <3>1. got = [ok |-> TRUE, sel |-> more]
      BY <2>2 DEF grp_add, kinds, first
    <3> QED
      BY <3>1
  <2>3. CASE hit # {} /\ grp_cmp(new, s.groups[first]) # "same"
    <3>1. got = [ok |-> FALSE, sel |-> typed]
      BY <2>3 DEF grp_add, kinds, first
    <3> QED
      BY <3>1
  <2> QED
    BY <2>1, <2>2, <2>3
<1>7. SelSound(got.sel) /\ TypesIn(got.sel) \subseteq TypesIn(s) \cup {type}
  BY <1>2, <1>3, <1>4, <1>6
<1>8. got.sel.pid_tab = s.pid_tab /\ got.sel.chan_tab = s.chan_tab /\ got.sel.dev_tab = s.dev_tab
  BY <1>5, <1>6
<1> HIDE DEF got
<1> QED
  BY <1>6, <1>7, <1>8 DEF Grown, got

LEMMA GrownTwice ==
  ASSUME NEW type, NEW b, NEW v, NEW u, Grown(type, b, v), Grown(type, v, u)
  PROVE  Grown(type, b, u)
  BY DEF Grown

LEMMA GroupsGrow ==
  ASSUME NEW type \in GroupType, NEW got, DOMAIN got = {"ok", "sel"}, SelSound(got.sel),
         NEW tables, Listing(tables), NEW events
  PROVE  Grown(type, got, AddEach(got, type, events, tables))
<1> DEFINE a == <<type, events>>
<1>1. AddEach(got, type, events, tables) = Result("group", a, got, tables)
  BY GroupRun DEF AddEach
<1>2. \A v : Keeps("group", a, got, v) <=> Grown(type, got, v)
  BY DEF Keeps
<1>3. \A v, x : Body("group", a, v, x) = IF v.ok THEN grp_add(v.sel, type, events, x) ELSE v
  BY DEF Body, Gathered, WorldKinds
<1> HIDE DEF a
<1>4. Grown(type, got, got)
  BY DEF Grown
<1>5. \A v, x : Grown(type, got, v) => Grown(type, got, grp_add(v.sel, type, events, x))
  BY AddKeeps
<1>6. Len(tables) \in Nat
  BY DEF Listing
<1>7. Keeps("group", a, got, Result("group", a, got, tables))
  BY <1>2, <1>3, <1>4, <1>5, <1>6, LoopKeeps
<1> QED
  BY <1>1, <1>2, <1>7

\* A table of tables, each of one element.
LEMMA RowsList ==
  ASSUME NEW n \in Nat, NEW f
  PROVE  Listing([i \in 1 .. n |-> <<f[i]>>])
<1> DEFINE s == [i \in 1 .. n |-> <<f[i]>>]
<1>1. s = [i \in 1 .. n |-> s[i]]
  OBVIOUS
<1> HIDE DEF s
<1>2. Listing(s)
  BY <1>1, ListingTo
<1> QED
  BY <1>2 DEF s

LEMMA StringGrows ==
  ASSUME NEW type \in GroupType, NEW s, SelSound(s), NEW m \in MonitorArg(type)
  PROVE  Grown(type, [ok |-> TRUE, sel |-> s], parse_monitor_group(s, m))
<1> DEFINE b == [ok |-> TRUE, sel |-> s]
           res == Result("part", m, b, m.parts)
<1>1. m.type = type /\ m.parts \in Seq([grouped : BOOLEAN, list : Lists])
  BY DEF MonitorArg
<1>2. parse_monitor_group(s, m) = [res EXCEPT !.ok = @ /\ (m.type \in {"pid", "channel"} => m.parts # <<>>)]
  BY PartRun DEF parse_monitor_group, AddPart
<1>3. Grown(type, b, b)
  BY DEF Grown
<1> HIDE DEF b
<1>4. \A v : Keeps("part", m, b, v) <=> Grown(type, b, v)
  BY <1>1 DEF Keeps
<1>5. \A v, x : Body("part", m, v, x) = AddPart(v, x, m)
  BY DEF Body, Gathered, WorldKinds
<1>6. ASSUME NEW v, Grown(type, b, v), NEW p \in [grouped : BOOLEAN, list : Lists]
      PROVE  Grown(type, b, AddPart(v, p, m))
  <2> DEFINE t == ReadList(m.type, p.list)
             tables == IF p.grouped THEN <<t.tab>> ELSE [i \in 1 .. Len(t.tab) |-> <<t.tab[i]>>]
             more == AddEach(v, m.type, parse_event(m.event), tables)
  <2>1. Listing(t.tab)
    <3>1. p.list \in Lists
      OBVIOUS
    <3>2. Listing(strlisttotabrealloc(p.list, PidBuf).tab)
      BY <3>1, GrowingTables DEF Tabled
    <3>3. Listing(strlisttotab(p.list, Cardinality(Core)).tab)
      BY <3>1, ListTables DEF Tabled
    <3> QED
      BY <3>2, <3>3 DEF ReadList
  <2> HIDE DEF t
  <2>2. Listing(tables)
    <3>1. Len(t.tab) \in Nat
      BY <2>1 DEF Listing
    <3>2. Listing(<<t.tab>>)
      BY DEF Listing
    <3> QED
      BY <3>1, <3>2, RowsList
  <2> HIDE DEF tables
  <2>3. Grown(type, v, more)
    BY <1>1, <1>6, <2>2, GroupsGrow DEF Grown
  <2>4. Grown(type, b, more)
    BY <1>6, <2>3, GrownTwice
  <2> HIDE DEF more
  <2>5. Grown(type, b, [v EXCEPT !.ok = FALSE])
    BY <1>6 DEF Grown
  <2>6. AddPart(v, p, m) \in {more, [v EXCEPT !.ok = FALSE]}
    BY DEF AddPart, more, tables, t
  <2> QED
    BY <2>4, <2>5, <2>6
<1>7. Len(m.parts) \in Nat /\ \A n \in 1 .. Len(m.parts) : m.parts[n] \in [grouped : BOOLEAN, list : Lists]
  BY <1>1, SequenceMembers
<1>8. Grown(type, b, res)
  BY <1>3, <1>4, <1>5, <1>6, <1>7, LoopKeeps
<1> HIDE DEF res
<1>9. \A x : Grown(type, b, [res EXCEPT !.ok = x])
  BY <1>8 DEF Grown
<1> QED
  BY <1>2, <1>9 DEF b

LEMMA DeviceGrows ==
  ASSUME NEW s, SelSound(s), NEW m \in DevArg
  PROVE  Grown("device", [ok |-> TRUE, sel |-> s], parse_monitor_dev(s, m))
<1> DEFINE b == [ok |-> TRUE, sel |-> s]
           vcs == IF m.vcs = <<>> THEN Table(<<DevAllVcs>>) ELSE parse_virtual_channels(m.vcs, VcMax)
           tables == [i \in 1 .. Len(vcs.tab) |-> <<[dev |-> m.dev, vc |-> vcs.tab[i]]>>]
<1>1. Listing(vcs.tab)
  <2>1. m.vcs \in Lists
    BY DEF DevArg
  <2> QED
    BY <2>1, ChannelTables, TableLists DEF Tabled
<1> HIDE DEF vcs
<1>2. Listing(tables)
  <2>1. tables = [i \in 1 .. Len(vcs.tab) |-> tables[i]] /\ Len(vcs.tab) \in Nat
    BY <1>1 DEF Listing
  <2> HIDE DEF tables
  <2> QED
    BY <2>1, ListingTo
<1> HIDE DEF tables
<1>3. DOMAIN b = {"ok", "sel"} /\ SelSound(b.sel)
  OBVIOUS
<1> HIDE DEF b
<1>4. Grown("device", b, AddEach(b, "device", parse_event(m.event), tables))
  BY <1>2, <1>3, GroupsGrow DEF GroupType
<1>5. Grown("device", b, [ok |-> FALSE, sel |-> s])
  BY <1>3 DEF Grown, b
<1> QED
  BY <1>4, <1>5 DEF parse_monitor_dev, b, vcs, tables

LEMMA TopGrows ==
  ASSUME NEW s, SelSound(s), NEW first \in Seq(ProcArg), NEW second \in Seq(ProcArg)
  PROVE  Grown("pid", [ok |-> TRUE, sel |-> s], fill_top_procs(s, first, second))
<1> DEFINE b == [ok |-> TRUE, sel |-> s]
           top == TopProcs(first, second)
           tables == [i \in 1 .. Len(top) |-> <<top[i].pid>>]
<1>1. Len(top) \in Nat
  BY TopLists DEF Listing
<1> HIDE DEF top
<1>2. Listing(tables)
  <2>1. tables = [i \in 1 .. Len(top) |-> tables[i]]
    OBVIOUS
  <2> HIDE DEF tables
  <2> QED
    BY <1>1, <2>1, ListingTo
<1> HIDE DEF tables
<1>3. DOMAIN b = {"ok", "sel"} /\ SelSound(b.sel)
  OBVIOUS
<1> HIDE DEF b
<1>4. Grown("pid", b, AddEach(b, "pid", AllEvents, tables))
  BY <1>2, <1>3, GroupsGrow DEF GroupType
<1> QED
  BY <1>4 DEF fill_top_procs, b, tables, top

\* The groups that are there when none was asked for.
LEMMA DefaultsGrow ==
  ASSUME NEW s, SelSound(s)
  PROVE  \E type \in {"core", "uncore"} :
           Grown(type, [ok |-> TRUE, sel |-> s], [ok |-> TRUE, sel |-> DefaultGroups(s)])
<1> DEFINE b == [ok |-> TRUE, sel |-> s]
           cores == InOrder(Core)
           byCore == [i \in 1 .. Len(cores) |-> <<cores[i]>>]
           bySocket == [i \in 1 .. Len(cores) |-> <<SocketOf[cores[i]]>>]
<1>1. Len(cores) \in Nat
  BY ResourceAssumption, InOrderLists DEF Listing
<1> HIDE DEF cores
<1>2. Listing(byCore) /\ Listing(bySocket)
  <2>1. byCore = [i \in 1 .. Len(cores) |-> byCore[i]] /\ bySocket = [i \in 1 .. Len(cores) |-> bySocket[i]]
    OBVIOUS
  <2> HIDE DEF byCore, bySocket
  <2> QED
    BY <1>1, <2>1, ListingTo
<1> HIDE DEF byCore, bySocket
<1>3. DOMAIN b = {"ok", "sel"} /\ SelSound(b.sel)
  OBVIOUS
<1> HIDE DEF b
<1> DEFINE u == AddEach(b, "core", AllEvents, byCore)
           v == AddEach(b, "uncore", AllEvents, bySocket)
<1>4. Grown("core", b, u) /\ Grown("uncore", b, v)
  BY <1>2, <1>3, GroupsGrow DEF GroupType
<1> HIDE DEF u, v
<1>5. \A type, x : Grown(type, b, x) => Grown(type, b, [ok |-> TRUE, sel |-> x.sel])
  BY DEF Grown
<1>6. Grown("core", b, b)
  BY <1>3 DEF Grown
<1>7. DefaultGroups(s) \in {s, u.sel, v.sel}
  BY DEF DefaultGroups, b, u, v, byCore, bySocket, cores
<1>8. Grown("core", b, [ok |-> TRUE, sel |-> s]) /\ Grown("core", b, [ok |-> TRUE, sel |-> u.sel])
      /\ Grown("uncore", b, [ok |-> TRUE, sel |-> v.sel])
  BY <1>4, <1>5, <1>6 DEF b
<1> QED
  BY <1>7, <1>8 DEF b

-----------------------------------------------------------------------------
(* An option is taken. *)

LEMMA GrownSuits ==
  ASSUME NEW type, NEW b, NEW u, NEW mask, Grown(type, b, u), Suits(b.sel, mask),
         type = "pid" => mask \subseteq {"OS"},
         type \in {"channel", "device"} => mask \subseteq {"MSR", "MMIO"}
  PROVE  Suits(u.sel, mask)
  BY DEF Grown, Suits

LEMMA OthersSound ==
  ASSUME NEW s, NEW t, SelSound(s), DOMAIN t = DOMAIN s, t.alloc_opts = s.alloc_opts,
         t.domains = s.domains, t.core_tab = s.core_tab, t.pid_tab = s.pid_tab,
         t.chan_tab = s.chan_tab, t.dev_tab = s.dev_tab, t.groups = s.groups
  PROVE  SelSound(t) /\ \A mask : Suits(s, mask) => Suits(t, mask)
<1>1. SelSound(t)
  BY DEF SelSound
<1>2. TypesIn(t) = TypesIn(s)
  BY DEF TypesIn
<1> QED
  BY <1>1, <1>2 DEF Suits

LEMMA ChosenSel ==
  ASSUME NEW v, Chosen(v), NEW s, SelSound(s), Suits(s, v.mask)
  PROVE  Chosen([v EXCEPT !.sel = s])
<1> DEFINE u == [v EXCEPT !.sel = s]
<1>1. DOMAIN u = WorldFields /\ u.sel = s
  BY DEF Chosen, WorldFields
<1>2. \A f \in WorldFields : f # "sel" => u[f] = v[f]
  BY DEF Chosen
<1> HIDE DEF u
<1>3. u.mask = v.mask /\ u.iface = v.iface /\ u.calls = v.calls /\ u.failed = v.failed
      /\ u.alien = v.alien /\ u.open = v.open /\ u.running = v.running /\ u.stops = v.stops
  BY <1>2 DEF WorldFields
<1>4. Chosen(u)
  BY <1>1, <1>3 DEF Chosen
<1> QED
  BY <1>4 DEF u

\* What is left to choose besides: it suits as before.
LEMMA ChosenSame ==
  ASSUME NEW v, Chosen(v), NEW u, DOMAIN u = DOMAIN v, u.sel = v.sel, u.mask = v.mask,
         u.calls = v.calls, u.failed = v.failed, u.alien = v.alien, u.open = v.open,
         u.running = v.running, u.stops = v.stops, u.iface \in Interface \cup {"AUTO"}
  PROVE  Chosen(u)
  BY DEF Chosen

LEMMA ChosenFlags ==
  ASSUME NEW v, Chosen(v), NEW x
  PROVE  Chosen([v EXCEPT !.flags = x]) /\ Chosen([v EXCEPT !.config = x])
<1>1. DOMAIN v = WorldFields /\ v.iface \in Interface \cup {"AUTO"}
  BY DEF Chosen
<1>2. Chosen([v EXCEPT !.flags = x])
  BY <1>1, ChosenSame DEF WorldFields
<1>3. Chosen([v EXCEPT !.config = x])
  BY <1>1, ChosenSame DEF WorldFields
<1> QED
  BY <1>2, <1>3

LEMMA ChosenReset ==
  ASSUME NEW v, Chosen(v), NEW x, NEW y
  PROVE  Chosen([v EXCEPT !.flags = x, !.reset = y])
<1>1. DOMAIN v = WorldFields /\ v.iface \in Interface \cup {"AUTO"}
  BY DEF Chosen
<1> QED
  BY <1>1, ChosenSame DEF WorldFields

LEMMA ChosenIface ==
  ASSUME NEW v, Chosen(v), NEW x \in Interface \cup {"AUTO"}, NEW y
  PROVE  Chosen([v EXCEPT !.iface = x, !.user = y, !.selected = TRUE])
<1>1. DOMAIN v = WorldFields
  BY DEF Chosen
<1> QED
  BY <1>1, ChosenSame DEF WorldFields

LEMMA ErrorStops == ASSUME NEW v, DOMAIN v = WorldFields PROVE ~Error(v).ok
  BY DEF Error, WorldFields

LEMMA Narrowed ==
  ASSUME NEW v, Chosen(v), NEW mask, narrow_iface(v, mask).ok
  PROVE  /\ Chosen(narrow_iface(v, mask)) /\ narrow_iface(v, mask).mask \subseteq mask
         /\ narrow_iface(v, mask).sel = v.sel
<1> DEFINE n == [v EXCEPT !.mask = @ \cap mask]
<1>1. DOMAIN v = WorldFields
  BY DEF Chosen
<1>2. narrow_iface(v, mask) = n
  BY <1>1, ErrorStops DEF narrow_iface
<1>3. DOMAIN n = WorldFields /\ n.mask = v.mask \cap mask
  BY <1>1 DEF WorldFields
<1>4. n.sel = v.sel /\ n.iface = v.iface /\ n.calls = v.calls /\ n.failed = v.failed
      /\ n.alien = v.alien /\ n.open = v.open /\ n.running = v.running /\ n.stops = v.stops
  BY <1>1 DEF WorldFields
<1> HIDE DEF n
<1>5. Suits(n.sel, n.mask)
  BY <1>3, <1>4 DEF Chosen, Suits
<1>6. Chosen(n)
  BY <1>3, <1>4, <1>5 DEF Chosen
<1> QED
  BY <1>2, <1>3, <1>4, <1>6

LEMMA NarrowedIf ==
  ASSUME NEW v, Chosen(v), NEW cond, NEW mask, NarrowIf(v, cond, mask).ok
  PROVE  Chosen(NarrowIf(v, cond, mask))
  BY Narrowed DEF NarrowIf

LEMMA SelectedKeeps ==
  ASSUME NEW v, Chosen(v), NEW got, SelSound(got.sel), Suits(got.sel, v.mask),
         Selecting(v, got).ok
  PROVE  Chosen(Selecting(v, got)) /\ Selecting(v, got).mask = v.mask
<1>1. DOMAIN v = WorldFields
  BY DEF Chosen
<1>2. Selecting(v, got) = [v EXCEPT !.sel = got.sel]
  BY <1>1, ErrorStops DEF Selecting
<1>3. [v EXCEPT !.sel = got.sel].mask = v.mask
  BY <1>1 DEF WorldFields
<1> QED
  BY <1>2, <1>3, ChosenSel

LEMMA CoreTableIs ==
  ASSUME NEW s, NEW a
  PROVE  fill_core_tab(s, a).sel =
           [s EXCEPT !.core_tab = Result("coretab", a.clos, s.core_tab,
                                         strlisttotab(a.list, Cardinality(Core)).tab)]
<1> DEFINE list == strlisttotab(a.list, Cardinality(Core)).tab
           clos == a.clos
           old == s.core_tab
           tab == Gather(LAMBDA t, e : Mention(t, e, clos, Len(t) + 1), old, list)
<1>1. fill_core_tab(s, a).sel = [s EXCEPT !.core_tab = tab]
  BY DEF fill_core_tab
<1> HIDE DEF list, clos, old
<1>2. tab = Result("coretab", clos, old, list)
  BY CoreTabRun
<1> HIDE DEF tab
<1> QED
  BY <1>1, <1>2 DEF clos, old, list

LEMMA PidTableIs ==
  ASSUME NEW s, NEW a
  PROVE  fill_pid_tab(s, a).sel =
           [s EXCEPT !.pid_tab = Result("pidtab", a.clos, s.pid_tab, strlisttotab(a.list, TabMax).tab)]
<1> DEFINE list == strlisttotab(a.list, TabMax).tab
           clos == a.clos
           old == s.pid_tab
           tab == Gather(LAMBDA t, e : Mention(t, e, clos, TabMax), old, list)
<1>1. fill_pid_tab(s, a).sel = [s EXCEPT !.pid_tab = tab]
  BY DEF fill_pid_tab
<1> HIDE DEF list, clos, old
<1>2. tab = Result("pidtab", clos, old, list)
  BY PidTabRun
<1> HIDE DEF tab
<1> QED
  BY <1>1, <1>2 DEF clos, old, list

LEMMA TableChosen ==
  ASSUME NEW s, SelSound(s), NEW mask, Suits(s, mask), NEW tab, Listing(tab)
  PROVE  /\ SelSound([s EXCEPT !.core_tab = tab]) /\ Suits([s EXCEPT !.core_tab = tab], mask)
         /\ SelSound([s EXCEPT !.pid_tab = tab])
         /\ mask \subseteq {"OS"} => Suits([s EXCEPT !.pid_tab = tab], mask)
         /\ SelSound([s EXCEPT !.chan_tab = tab]) /\ SelSound([s EXCEPT !.dev_tab = tab])
         /\ mask \subseteq {"MSR", "MMIO"} =>
              /\ Suits([s EXCEPT !.chan_tab = tab], mask)
              /\ Suits([s EXCEPT !.dev_tab = tab], mask)
<1>1. ASSUME NEW t, t \in {[s EXCEPT !.core_tab = tab], [s EXCEPT !.pid_tab = tab],
                          [s EXCEPT !.chan_tab = tab], [s EXCEPT !.dev_tab = tab]}
      PROVE  SelSound(t) /\ t.groups = s.groups
  <2>1. DOMAIN t = SelFields /\ t.alloc_opts = s.alloc_opts /\ t.domains = s.domains
        /\ t.groups = s.groups /\ t.core_tab \in {tab, s.core_tab} /\ t.pid_tab \in {tab, s.pid_tab}
        /\ t.chan_tab \in {tab, s.chan_tab} /\ t.dev_tab \in {tab, s.dev_tab}
    BY <1>1 DEF SelSound, SelFields
  <2> QED
    BY <2>1 DEF SelSound
<1>2. \A t : t.groups = s.groups => TypesIn(t) = TypesIn(s)
  BY DEF TypesIn
<1>3. DOMAIN s = SelFields
  BY DEF SelSound
<1>4. SelSound([s EXCEPT !.core_tab = tab]) /\ Suits([s EXCEPT !.core_tab = tab], mask)
  BY <1>1, <1>2, <1>3 DEF Suits, SelFields
<1>5. SelSound([s EXCEPT !.pid_tab = tab]) /\ (mask \subseteq {"OS"} => Suits([s EXCEPT !.pid_tab = tab], mask))
  BY <1>1, <1>2, <1>3 DEF Suits, SelFields
<1>6. /\ SelSound([s EXCEPT !.chan_tab = tab])
      /\ mask \subseteq {"MSR", "MMIO"} => Suits([s EXCEPT !.chan_tab = tab], mask)
  BY <1>1, <1>2, <1>3 DEF Suits, SelFields
<1>7. /\ SelSound([s EXCEPT !.dev_tab = tab])
      /\ mask \subseteq {"MSR", "MMIO"} => Suits([s EXCEPT !.dev_tab = tab], mask)
  BY <1>1, <1>2, <1>3 DEF Suits, SelFields
<1> QED
  BY <1>4, <1>5, <1>6, <1>7

\* One association: the interfaces it needs are what is left.
LEMMA AssociateKeeps ==
  ASSUME NEW v, Chosen(v), NEW x \in AssocArg, Associate(v, x).ok
  PROVE  Chosen(Associate(v, x))
<1> DEFINE n == narrow_iface(v, AssocMask(x))
           s == n.sel
           got == parse_allocation_assoc(s, x)
<1>1. n.ok
  BY DEF Associate
<1>2. Chosen(n) /\ n.mask \subseteq AssocMask(x)
  BY <1>1, Narrowed
<1>3. Associate(v, x) = Selecting(n, got)
  BY <1>1 DEF Associate
<1> HIDE DEF n
<1>4. SelSound(s) /\ Suits(s, n.mask)
  BY <1>2 DEF Chosen
<1>5. SelSound(got.sel) /\ Suits(got.sel, n.mask)
  <2>1. ASSUME NEW tab, Listing(tab)
        PROVE  /\ SelSound([s EXCEPT !.core_tab = tab]) /\ Suits([s EXCEPT !.core_tab = tab], n.mask)
               /\ SelSound([s EXCEPT !.pid_tab = tab])
               /\ n.mask \subseteq {"OS"} => Suits([s EXCEPT !.pid_tab = tab], n.mask)
               /\ SelSound([s EXCEPT !.chan_tab = tab]) /\ SelSound([s EXCEPT !.dev_tab = tab])
               /\ n.mask \subseteq {"MSR", "MMIO"} =>
                    /\ Suits([s EXCEPT !.chan_tab = tab], n.mask)
                    /\ Suits([s EXCEPT !.dev_tab = tab], n.mask)
    BY <1>4, <2>1, TableChosen
  <2>2. CASE x.kind = "core"
    <3>1. x.list \in Lists
      BY <2>2 DEF AssocArg
    <3> DEFINE list == strlisttotab(x.list, Cardinality(Core))
               clos == x.clos
               old == s.core_tab
               tab == Result("coretab", clos, old, list.tab)
    <3>2. Listing(list.tab)
      BY <3>1, ListTables DEF Tabled
    <3>3. Listing(old)
      BY <1>4 DEF SelSound
    <3> HIDE DEF list, clos, old
    <3>4. Listing(tab)
      BY <3>2, <3>3, CoresMentioned
    <3>5. got.sel = [s EXCEPT !.core_tab = tab]
      BY <2>2, CoreTableIs DEF parse_allocation_assoc, list, clos, old
    <3> HIDE DEF tab
    <3> QED
      BY <2>1, <3>4, <3>5
  <2>3. CASE x.kind = "pid"
    <3>1. x.list \in Lists
      BY <2>3 DEF AssocArg
    <3> DEFINE list == strlisttotab(x.list, TabMax)
               clos == x.clos
               old == s.pid_tab
               tab == Result("pidtab", clos, old, list.tab)
    <3>2. Listing(list.tab)
      BY <3>1, ListTables DEF Tabled
    <3>3. Listing(old)
      BY <1>4 DEF SelSound
    <3> HIDE DEF list, clos, old
    <3>4. Listing(tab)
      BY <3>2, <3>3, PidsMentioned
    <3>5. got.sel = [s EXCEPT !.pid_tab = tab]
      BY <2>3, PidTableIs DEF parse_allocation_assoc, list, clos, old
    <3>6. n.mask \subseteq {"OS"}
      BY <1>2, <2>3 DEF AssocMask
    <3> HIDE DEF tab
    <3> QED
      BY <2>1, <3>4, <3>5, <3>6
  <2>4. CASE x.kind \in {"channel", "dev"}
    <3>1. \A tab, y, c, max : Listing(tab) => Listing(Mention(tab, y, c, max))
      BY AppendLists, ExceptLists DEF Mention
    <3>2. Listing(Mention(s.chan_tab, x.channel, x.clos, TabMax))
      BY <1>4, <3>1 DEF SelSound
    <3>3. Listing(Mention(s.dev_tab, [dev |-> x.dev, vc |-> x.vc], x.clos, TabMax))
      BY <1>4, <3>1 DEF SelSound
    <3>4. n.mask \subseteq {"MSR", "MMIO"}
      BY <1>2, <2>4 DEF AssocMask
    <3>5. \/ got.sel = [s EXCEPT !.chan_tab = Mention(s.chan_tab, x.channel, x.clos, TabMax)]
          \/ got.sel = [s EXCEPT !.dev_tab = Mention(s.dev_tab, [dev |-> x.dev, vc |-> x.vc], x.clos, TabMax)]
      BY <2>4 DEF parse_allocation_assoc, fill_channel_tab, fill_dev_tab
    <3> QED
      BY <2>1, <3>2, <3>3, <3>4, <3>5
  <2>5. x.kind \in {"core", "pid", "channel", "dev"}
    BY DEF AssocArg
  <2> QED
    BY <2>2, <2>3, <2>4, <2>5
<1> HIDE DEF got
<1> QED
  BY <1>2, <1>3, <1>5, SelectedKeeps

LEMMA AssociationsKeep ==
  ASSUME NEW v, Chosen(v), NEW arg \in Seq(AssocArg), selfn_allocation_assoc(v, arg).ok
  PROVE  Chosen(selfn_allocation_assoc(v, arg))
<1>1. selfn_allocation_assoc(v, arg) = Result("assoc", 0, v, arg)
  BY AssocLoop DEF selfn_allocation_assoc
<1>2. \A u : Keeps("assoc", 0, v, u) <=> (u.ok => Chosen(u))
  BY DEF Keeps
<1>3. \A u, x : Body("assoc", 0, u, x) = IF u.ok THEN Associate(u, x) ELSE u
  BY DEF Body, Doing, WorldKinds
<1>4. Len(arg) \in Nat /\ \A i \in 1 .. Len(arg) : arg[i] \in AssocArg
  BY SequenceMembers
<1>5. Keeps("assoc", 0, v, Result("assoc", 0, v, arg))
  BY <1>2, <1>3, <1>4, AssociateKeeps, LoopKeeps
<1> QED
  BY <1>1, <1>2, <1>5

\* Monitoring strings, on the interfaces that their groups need.
LEMMA MonitorsKeep ==
  ASSUME NEW v, Chosen(v), NEW type \in GroupType, NEW arg \in Seq(MonitorArg(type)),
         type = "pid" => v.mask \subseteq {"OS"},
         type \in {"channel", "device"} => v.mask \subseteq {"MSR", "MMIO"},
         MonitorStrings(v, arg).ok
  PROVE  Chosen(MonitorStrings(v, arg))
<1>1. MonitorStrings(v, arg) = Result("monitor", 0, v, arg)
  BY MonitorLoop DEF MonitorStrings
<1>2. \A u : Keeps("monitor", 0, v, u) <=> (u.ok => Chosen(u) /\ u.mask = v.mask)
  BY DEF Keeps
<1>3. \A u, x : Body("monitor", 0, u, x) =
                  IF u.ok THEN Selecting(u, parse_monitor_group(u.sel, x)) ELSE u
  BY DEF Body, Doing, WorldKinds
<1>4. Len(arg) \in Nat /\ \A i \in 1 .. Len(arg) : arg[i] \in MonitorArg(type)
  BY SequenceMembers
<1>5. ASSUME NEW u, Chosen(u), u.mask = v.mask, NEW x \in MonitorArg(type),
             Selecting(u, parse_monitor_group(u.sel, x)).ok
      PROVE  /\ Chosen(Selecting(u, parse_monitor_group(u.sel, x)))
             /\ Selecting(u, parse_monitor_group(u.sel, x)).mask = v.mask
  <2> DEFINE got == parse_monitor_group(u.sel, x)
             b == [ok |-> TRUE, sel |-> u.sel]
  <2>1. SelSound(u.sel) /\ Suits(u.sel, v.mask) /\ b.sel = u.sel
    BY <1>5 DEF Chosen
  <2>2. Grown(type, b, got)
    BY <2>1, StringGrows
  <2> HIDE DEF got, b
  <2>3. SelSound(got.sel) /\ Suits(got.sel, u.mask)
    BY <1>5, <2>1, <2>2, GrownSuits DEF Grown
  <2>4. Chosen(Selecting(u, got)) /\ Selecting(u, got).mask = u.mask
    BY <1>5, <2>3, SelectedKeeps DEF got
  <2> QED
    BY <1>5, <2>4 DEF got
<1>6. Keeps("monitor", 0, v, Result("monitor", 0, v, arg))
  BY <1>2, <1>3, <1>4, <1>5, LoopKeeps
<1> QED
  BY <1>1, <1>2, <1>6

LEMMA DevicesKeep ==
  ASSUME NEW v, Chosen(v), NEW arg \in Seq(DevArg), v.mask \subseteq {"MSR", "MMIO"},
         selfn_monitor_devs(v, arg).ok
  PROVE  Chosen(selfn_monitor_devs(v, arg))
<1>1. selfn_monitor_devs(v, arg) = Result("device", 0, v, arg)
  BY DeviceLoop DEF selfn_monitor_devs
<1>2. \A u : Keeps("device", 0, v, u) <=> (u.ok => Chosen(u) /\ u.mask = v.mask)
  BY DEF Keeps
<1>3. \A u, x : Body("device", 0, u, x) =
                  IF u.ok THEN Selecting(u, parse_monitor_dev(u.sel, x)) ELSE u
  BY DEF Body, Doing, WorldKinds
<1>4. Len(arg) \in Nat /\ \A i \in 1 .. Len(arg) : arg[i] \in DevArg
  BY SequenceMembers
<1>5. ASSUME NEW u, Chosen(u), u.mask = v.mask, NEW x \in DevArg,
             Selecting(u, parse_monitor_dev(u.sel, x)).ok
      PROVE  /\ Chosen(Selecting(u, parse_monitor_dev(u.sel, x)))
             /\ Selecting(u, parse_monitor_dev(u.sel, x)).mask = v.mask
  <2> DEFINE got == parse_monitor_dev(u.sel, x)
             b == [ok |-> TRUE, sel |-> u.sel]
  <2>1. SelSound(u.sel) /\ Suits(u.sel, v.mask) /\ b.sel = u.sel
    BY <1>5 DEF Chosen
  <2>2. Grown("device", b, got)
    BY <2>1, DeviceGrows
  <2> HIDE DEF got, b
  <2>3. SelSound(got.sel) /\ Suits(got.sel, u.mask)
    BY <1>5, <2>1, <2>2, GrownSuits DEF Grown
  <2>4. Chosen(Selecting(u, got)) /\ Selecting(u, got).mask = u.mask
    BY <1>5, <2>3, SelectedKeeps DEF got
  <2> QED
    BY <1>5, <2>4 DEF got
<1>6. Keeps("device", 0, v, Result("device", 0, v, arg))
  BY <1>2, <1>3, <1>4, <1>5, LoopKeeps
<1> QED
  BY <1>1, <1>2, <1>6


LEMMA ClassesChosen ==
  ASSUME NEW s, SelSound(s), NEW mask, Suits(s, mask), NEW defs \in Seq(ClassDef)
  PROVE  SelSound([s EXCEPT !.alloc_opts = defs]) /\ Suits([s EXCEPT !.alloc_opts = defs], mask)
<1> DEFINE t == [s EXCEPT !.alloc_opts = defs]
<1>1. DOMAIN t = SelFields /\ t.alloc_opts = defs /\ t.domains = s.domains /\ t.core_tab = s.core_tab
      /\ t.pid_tab = s.pid_tab /\ t.chan_tab = s.chan_tab /\ t.dev_tab = s.dev_tab
      /\ t.groups = s.groups
  BY DEF SelSound, SelFields
<1> HIDE DEF t
<1>2. TypesIn(t) = TypesIn(s)
  BY <1>1 DEF TypesIn
<1>3. SelSound(t)
  <2> HIDE DEF ClassDef
  <2> QED
    BY <1>1 DEF SelSound
<1> QED
  BY <1>1, <1>2, <1>3 DEF Suits, t

LEMMA DomainsChosen ==
  ASSUME NEW s, SelSound(s), NEW mask, Suits(s, mask), NEW tab, Listing(tab)
  PROVE  SelSound([s EXCEPT !.domains = tab]) /\ Suits([s EXCEPT !.domains = tab], mask)
<1> DEFINE t == [s EXCEPT !.domains = tab]
<1>1. DOMAIN t = SelFields /\ t.domains = tab /\ t.alloc_opts = s.alloc_opts /\ t.core_tab = s.core_tab
      /\ t.pid_tab = s.pid_tab /\ t.chan_tab = s.chan_tab /\ t.dev_tab = s.dev_tab
      /\ t.groups = s.groups
  BY DEF SelSound, SelFields
<1> HIDE DEF t
<1>2. TypesIn(t) = TypesIn(s)
  BY <1>1 DEF TypesIn
<1>3. SelSound(t)
  BY <1>1 DEF SelSound
<1> QED
  BY <1>1, <1>2, <1>3 DEF Suits, t

LEMMA OthersChosen ==
  ASSUME NEW s, SelSound(s), NEW mask, Suits(s, mask), NEW x
  PROVE  /\ SelSound([s EXCEPT !.regions = x]) /\ Suits([s EXCEPT !.regions = x], mask)
         /\ SelSound([s EXCEPT !.limits = x]) /\ Suits([s EXCEPT !.limits = x], mask)
         /\ SelSound([s EXCEPT !.mon_type = x]) /\ Suits([s EXCEPT !.mon_type = x], mask)
         /\ SelSound([s EXCEPT !.disabled = x]) /\ Suits([s EXCEPT !.disabled = x], mask)
         /\ SelSound([s EXCEPT !.timeout = x]) /\ Suits([s EXCEPT !.timeout = x], mask)
         /\ SelSound([s EXCEPT !.out_file = x]) /\ Suits([s EXCEPT !.out_file = x], mask)
         /\ SelSound([s EXCEPT !.out_type = x]) /\ Suits([s EXCEPT !.out_type = x], mask)
         /\ SelSound([s EXCEPT !.mon_opts = x]) /\ Suits([s EXCEPT !.mon_opts = x], mask)
         /\ \A y : /\ SelSound([s EXCEPT !.mon_regions = x, !.mon_opts = y])
                   /\ Suits([s EXCEPT !.mon_regions = x, !.mon_opts = y], mask)
<1>1. ASSUME NEW t, DOMAIN t = DOMAIN s, t.alloc_opts = s.alloc_opts, t.domains = s.domains,
             t.core_tab = s.core_tab, t.pid_tab = s.pid_tab, t.chan_tab = s.chan_tab,
             t.dev_tab = s.dev_tab, t.groups = s.groups
      PROVE  SelSound(t) /\ Suits(t, mask)
  BY <1>1, OthersSound
<1>2. DOMAIN s = SelFields
  BY DEF SelSound
<1>3. \A t \in {[s EXCEPT !.regions = x], [s EXCEPT !.limits = x], [s EXCEPT !.mon_type = x],
                [s EXCEPT !.disabled = x]} : SelSound(t) /\ Suits(t, mask)
  BY <1>1, <1>2 DEF SelFields
<1>4. \A t \in {[s EXCEPT !.timeout = x], [s EXCEPT !.out_file = x], [s EXCEPT !.out_type = x],
                [s EXCEPT !.mon_opts = x]} : SelSound(t) /\ Suits(t, mask)
  BY <1>1, <1>2 DEF SelFields
<1>5. ASSUME NEW y PROVE /\ SelSound([s EXCEPT !.mon_regions = x, !.mon_opts = y])
                         /\ Suits([s EXCEPT !.mon_regions = x, !.mon_opts = y], mask)
  BY <1>1, <1>2 DEF SelFields
<1> QED
  BY <1>3, <1>4, <1>5

LEMMA TopKeeps ==
  ASSUME NEW n, Chosen(n), NEW look, look.first \in Seq(ProcArg), look.second \in Seq(ProcArg),
         n.mask \subseteq {"OS"}, selfn_monitor_top_pids(n, look).ok
  PROVE  Chosen(selfn_monitor_top_pids(n, look))
<1> DEFINE s == [n.sel EXCEPT !.mon_opts = TRUE]
           m == [n EXCEPT !.sel = s]
           got == fill_top_procs(s, look.first, look.second)
           b == [ok |-> TRUE, sel |-> s]
<1>1. DOMAIN n = WorldFields /\ SelSound(n.sel) /\ Suits(n.sel, n.mask)
  BY DEF Chosen
<1>2. SelSound(s) /\ Suits(s, n.mask)
  BY <1>1, OthersChosen
<1>3. [n EXCEPT !.sel.mon_opts = TRUE] = m
  BY <1>1 DEF WorldFields
<1>4. selfn_monitor_top_pids(n, look) = Selecting(m, got)
  BY <1>3 DEF selfn_monitor_top_pids
<1> HIDE DEF s
<1>5. m.mask = n.mask /\ b.sel = s
  BY <1>1 DEF WorldFields
<1>6. Chosen(m)
  BY <1>2, ChosenSel
<1> HIDE DEF m
<1>7. Grown("pid", b, got)
  BY <1>2, TopGrows
<1> HIDE DEF got, b
<1>8. SelSound(got.sel)
  BY <1>7 DEF Grown
<1>9. Suits(got.sel, m.mask)
  BY <1>2, <1>5, <1>7, GrownSuits
<1> QED
  BY <1>4, <1>6, <1>8, <1>9, SelectedKeeps

\* The rest of an option that needs certain interfaces.
LEMMA OptionKeeps ==
  ASSUME NEW i \in DOMAIN Options, Options[i].opt # "-f", NEW v, Chosen(v), v.ok,
         Handle(v, Options[i]).ok
  PROVE  Chosen(Handle(v, Options[i]))
<1> DEFINE o == Options[i]
           u == Handle(v, o)
<1>1. o.opt \in OptionName \ {"-f"} /\ o.arg \in Args(o.opt)
  BY OptionsAssumption
<1>2. Chosen(v) /\ DOMAIN v = WorldFields /\ SelSound(v.sel) /\ Suits(v.sel, v.mask)
  BY DEF Chosen
<1>3. u.ok
  OBVIOUS
<1> SUFFICES Chosen(u)
  OBVIOUS
<1> HIDE DEF o
<1>4. CASE o.opt = "iface"
  <2>1. u = [v EXCEPT !.iface = IF o.arg = "auto" THEN "AUTO" ELSE o.arg,
                      !.user = IF o.arg = "auto" THEN "none" ELSE o.arg, !.selected = TRUE]
    BY <1>4 DEF Handle, selfn_iface
  <2>2. o.arg \in Interface \cup {"auto"}
    BY <1>1, <1>4 DEF Args
  <2> DEFINE x == IF o.arg = "auto" THEN "AUTO" ELSE o.arg
             y == IF o.arg = "auto" THEN "none" ELSE o.arg
  <2>3. x \in Interface \cup {"AUTO"}
    BY <2>2
  <2> HIDE DEF x, y
  <2>4. Chosen([v EXCEPT !.iface = x, !.user = y, !.selected = TRUE])
    BY <2>3, ChosenIface
  <2> QED
    BY <2>1, <2>4 DEF x, y
<1>5. CASE o.opt = "-e"
  <2>1. o.arg \in Seq(ClassDef)
    BY <1>1, <1>5 DEF Args
  <2> DEFINE s == [v.sel EXCEPT !.alloc_opts = @ \o o.arg]
  <2>2. u = [v EXCEPT !.sel = s]
    BY <1>2, <1>3, <1>5, ErrorStops DEF Handle, selfn_allocation_class
  <2>3. SelSound(s) /\ Suits(s, v.mask)
    <3>1. v.sel.alloc_opts \o o.arg \in Seq(ClassDef)
      BY <1>2, <2>1 DEF SelSound
    <3> QED
      BY <1>2, <3>1, ClassesChosen
  <2> HIDE DEF s
  <2> QED
    BY <2>2, <2>3, ChosenSel
<1>6. CASE o.opt = "-a"
  <2>1. o.arg \in Seq(AssocArg)
    BY <1>1, <1>6 DEF Args
  <2>2. u = selfn_allocation_assoc(v, o.arg)
    BY <1>6 DEF Handle
  <2> QED
    BY <1>3, <2>1, <2>2, AssociationsKeep
<1>7. CASE o.opt \in {"-c", "-l", "-r", "-s", "version"}
  <2>1. PICK x : u = [v EXCEPT !.flags = x]
    BY <1>7 DEF Handle
  <2>2. Chosen([v EXCEPT !.flags = x])
    BY ChosenFlags
  <2> QED
    BY <2>1, <2>2
<1>8. CASE o.opt \in {"domains", "regions", "limit", "mem-regions"}
  <2> DEFINE n == narrow_iface(v, {"MMIO"})
  <2>1. Chosen(n) /\ n.ok
    <3>1. ~n.ok => u = n
      BY <1>8 DEF Handle, Needing
    <3> QED
      BY <1>3, <3>1, Narrowed
  <2> HIDE DEF n
  <2>2. DOMAIN n = WorldFields /\ SelSound(n.sel) /\ Suits(n.sel, n.mask)
    BY <2>1 DEF Chosen
  <2>3. CASE o.opt = "domains"
    <3> DEFINE t == NumberList(o.arg, MaxIds, MaxDomains)
               s == [n.sel EXCEPT !.domains = t.tab]
    <3>1. Listing(t.tab)
      BY <1>1, <2>3, NumberTables DEF Args, Tabled
    <3>2. u = IF t.ok THEN [n EXCEPT !.sel = s] ELSE Error(n)
      BY <2>1, <2>2, <2>3 DEF Handle, Needing, selfn_alloc_domain_id, n
    <3> HIDE DEF t
    <3>3. SelSound(s) /\ Suits(s, n.mask)
      BY <2>2, <3>1, DomainsChosen
    <3> HIDE DEF s
    <3> QED
      BY <1>3, <2>1, <2>2, <3>2, <3>3, ChosenSel, ErrorStops
  <2>4. CASE o.opt # "domains"
    <3>1. \A x : /\ SelSound([n.sel EXCEPT !.regions = x]) /\ Suits([n.sel EXCEPT !.regions = x], n.mask)
                 /\ SelSound([n.sel EXCEPT !.limits = x]) /\ Suits([n.sel EXCEPT !.limits = x], n.mask)
                 /\ \A y : /\ SelSound([n.sel EXCEPT !.mon_regions = x, !.mon_opts = y])
                           /\ Suits([n.sel EXCEPT !.mon_regions = x, !.mon_opts = y], n.mask)
      BY <2>2, OthersChosen
    <3>2. CASE o.opt = "regions"
      <4> DEFINE t == NumberList(o.arg, MaxRegions, MaxRegions)
      <4>1. u = IF t.ok THEN [n EXCEPT !.sel = [n.sel EXCEPT !.regions = t.tab]] ELSE Error(n)
        BY <2>1, <2>2, <3>2 DEF Handle, Needing, selfn_alloc_mem_regions, n
      <4> DEFINE s == [n.sel EXCEPT !.regions = t.tab]
      <4> HIDE DEF t
      <4>2. SelSound(s) /\ Suits(s, n.mask)
        BY <3>1
      <4> HIDE DEF s
      <4>3. Chosen([n EXCEPT !.sel = s])
        BY <2>1, <4>2, ChosenSel
      <4>4. ~Error(n).ok
        BY <2>2, ErrorStops
      <4> QED
        BY <1>3, <4>1, <4>3, <4>4 DEF s
    <3>3. CASE o.opt = "limit"
      <4>1. PICK x : u = [n EXCEPT !.sel = [n.sel EXCEPT !.limits = x]]
        BY <2>1, <2>2, <3>3 DEF Handle, Needing, n
      <4> DEFINE s == [n.sel EXCEPT !.limits = x]
      <4>2. SelSound(s) /\ Suits(s, n.mask)
        BY <3>1
      <4> HIDE DEF s
      <4>3. Chosen([n EXCEPT !.sel = s])
        BY <2>1, <4>2, ChosenSel
      <4> QED
        BY <4>1, <4>3 DEF s
    <3>4. CASE o.opt = "mem-regions"
      <4> DEFINE t == pqos_parse_mem_regions(o.arg, MaxRegions)
      <4>1. u = IF t.ok THEN [n EXCEPT !.sel = [n.sel EXCEPT !.mon_regions = t.tab, !.mon_opts = TRUE]]
                ELSE Error(n)
        <5> HIDE DEF t
        <5>1. u = IF t.ok THEN [n EXCEPT !.sel.mon_regions = t.tab, !.sel.mon_opts = TRUE] ELSE Error(n)
          BY <2>1, <3>4 DEF Handle, Needing, selfn_mon_mem_regions, n, t
        <5>2. [n EXCEPT !.sel.mon_regions = t.tab, !.sel.mon_opts = TRUE] =
                [n EXCEPT !.sel = [n.sel EXCEPT !.mon_regions = t.tab, !.mon_opts = TRUE]]
          BY <2>2 DEF WorldFields, SelSound
        <5> QED
          BY <5>1, <5>2
      <4> DEFINE s == [n.sel EXCEPT !.mon_regions = t.tab, !.mon_opts = TRUE]
      <4> HIDE DEF t
      <4>2. SelSound(s) /\ Suits(s, n.mask)
        BY <3>1
      <4> HIDE DEF s
      <4>3. Chosen([n EXCEPT !.sel = s])
        BY <2>1, <4>2, ChosenSel
      <4>4. ~Error(n).ok
        BY <2>2, ErrorStops
      <4> QED
        BY <1>3, <4>1, <4>3, <4>4 DEF s
    <3> QED
      BY <1>8, <2>4, <3>2, <3>3, <3>4
  <2> QED
    BY <2>3, <2>4
<1>9. CASE o.opt \in {"-m", "uncore"}
  <2> DEFINE n == narrow_iface_for_mon_events(v, o.arg)
             type == IF o.opt = "-m" THEN "core" ELSE "uncore"
  <2>1. CASE o.opt = "uncore" /\ o.arg = <<>>
    <3>1. PICK x : u = [v EXCEPT !.sel = [v.sel EXCEPT !.mon_type = x]]
      BY <1>2, <2>1 DEF Handle
    <3> DEFINE s == [v.sel EXCEPT !.mon_type = x]
    <3>2. SelSound(s) /\ Suits(s, v.mask)
      BY <1>2, OthersChosen
    <3> HIDE DEF s
    <3>3. Chosen([v EXCEPT !.sel = s])
      BY <3>2, ChosenSel
    <3> QED
      BY <3>1, <3>3 DEF s
  <2>2. CASE ~(o.opt = "uncore" /\ o.arg = <<>>)
    <3>1. u = IF n.ok THEN MonitorStrings(n, o.arg) ELSE n
      BY <1>9, <2>2 DEF Handle
    <3>2. n.ok
      BY <1>3, <3>1
    <3>3. Chosen(n)
      BY <3>2, NarrowedIf DEF narrow_iface_for_mon_events
    <3> HIDE DEF n
    <3>4. o.arg \in Seq(MonitorArg(type)) /\ type \in GroupType
      BY <1>1, <1>9 DEF Args, GroupType
    <3>5. type \notin {"pid", "channel", "device"}
      OBVIOUS
    <3> HIDE DEF type
    <3> QED
      BY <1>3, <3>1, <3>2, <3>3, <3>4, <3>5, MonitorsKeep
  <2> QED
    BY <2>1, <2>2
<1>10. CASE o.opt \in {"-p", "channels", "devs", "top", "print-io"}
  <2> DEFINE mask == IF o.opt \in {"-p", "top"} THEN {"OS"} ELSE {"MSR", "MMIO"}
             n == narrow_iface(v, mask)
  <2>1. ~n.ok => u = n
    BY <1>10 DEF Handle, Needing
  <2>2. Chosen(n) /\ n.ok /\ n.mask \subseteq mask
    BY <1>3, <2>1, Narrowed
  <2>3. CASE o.opt = "-p"
    <3>1. u = MonitorStrings(n, o.arg)
      BY <2>2, <2>3 DEF Handle, Needing
    <3>2. o.arg \in Seq(MonitorArg("pid"))
      BY <1>1, <2>3 DEF Args
    <3>3. n.mask \subseteq {"OS"}
      BY <2>2, <2>3
    <3> HIDE DEF n
    <3> QED
      BY <1>3, <2>2, <3>1, <3>2, <3>3, MonitorsKeep DEF GroupType
  <2>4. CASE o.opt = "channels"
    <3>1. u = MonitorStrings(n, o.arg)
      BY <2>2, <2>4 DEF Handle, Needing
    <3>2. o.arg \in Seq(MonitorArg("channel"))
      BY <1>1, <2>4 DEF Args
    <3>3. n.mask \subseteq {"MSR", "MMIO"}
      BY <2>2, <2>4
    <3> HIDE DEF n
    <3> QED
      BY <1>3, <2>2, <3>1, <3>2, <3>3, MonitorsKeep DEF GroupType
  <2>5. CASE o.opt = "devs"
    <3>1. u = selfn_monitor_devs(n, o.arg)
      BY <2>2, <2>5 DEF Handle, Needing
    <3>2. o.arg \in Seq(DevArg)
      BY <1>1, <2>5 DEF Args
    <3>3. n.mask \subseteq {"MSR", "MMIO"}
      BY <2>2, <2>5
    <3> HIDE DEF n
    <3> QED
      BY <1>3, <2>2, <3>1, <3>2, <3>3, DevicesKeep
  <2>6. CASE o.opt = "top"
    <3>1. u = selfn_monitor_top_pids(n, o.arg)
      BY <2>2, <2>6 DEF Handle, Needing
    <3>2. o.arg.first \in Seq(ProcArg) /\ o.arg.second \in Seq(ProcArg)
      BY <1>1, <2>6 DEF Args
    <3>3. n.mask \subseteq {"OS"}
      BY <2>2, <2>6
    <3> HIDE DEF n
    <3> QED
      BY <1>3, <2>2, <3>1, <3>2, <3>3, TopKeeps
  <2>7. CASE o.opt = "print-io"
    <3>1. PICK x : u = [n EXCEPT !.flags = x]
      BY <2>2, <2>7 DEF Handle, Needing
    <3> HIDE DEF n
    <3>2. Chosen([n EXCEPT !.flags = x])
      BY <2>2, ChosenFlags
    <3> QED
      BY <3>1, <3>2
  <2> QED
    BY <1>10, <2>3, <2>4, <2>5, <2>6, <2>7
<1>11. CASE o.opt \in {"disable", "-t", "-o", "-u"}
  <2>1. \A s, m : SelSound(s) /\ Suits(s, m) =>
          \A x : /\ SelSound([s EXCEPT !.disabled = x]) /\ Suits([s EXCEPT !.disabled = x], m)
                 /\ SelSound([s EXCEPT !.timeout = x]) /\ Suits([s EXCEPT !.timeout = x], m)
                 /\ SelSound([s EXCEPT !.out_file = x]) /\ Suits([s EXCEPT !.out_file = x], m)
                 /\ SelSound([s EXCEPT !.out_type = x]) /\ Suits([s EXCEPT !.out_type = x], m)
                 /\ SelSound([s EXCEPT !.mon_opts = x]) /\ Suits([s EXCEPT !.mon_opts = x], m)
    BY OthersChosen
  <2>2. \E s \in {[v.sel EXCEPT !.disabled = @ \cup {o.arg}], [v.sel EXCEPT !.timeout = o.arg],
                  [v.sel EXCEPT !.out_file = TRUE], [v.sel EXCEPT !.out_type = o.arg]} :
          u = [v EXCEPT !.sel = [s EXCEPT !.mon_opts = TRUE]]
    BY <1>11 DEF Handle, MonOpt
  <2>3. PICK s : u = [v EXCEPT !.sel = [s EXCEPT !.mon_opts = TRUE]] /\ SelSound(s) /\ Suits(s, v.mask)
    BY <1>2, <2>1, <2>2
  <2> DEFINE t == [s EXCEPT !.mon_opts = TRUE]
  <2>4. SelSound(t) /\ Suits(t, v.mask)
    BY <2>1, <2>3
  <2>5. u = [v EXCEPT !.sel = t]
    BY <2>3
  <2> HIDE DEF t
  <2>6. Chosen([v EXCEPT !.sel = t])
    BY <2>4, ChosenSel
  <2> QED
    BY <2>5, <2>6
<1>12. CASE o.opt = "-R"
  <2> DEFINE n == narrow_iface_for_reset_alloc(v, o.arg)
  <2>1. ~n.ok => u = n
    BY <1>12 DEF Handle
  <2>2. n.ok
    BY <1>3, <2>1
  <2>3. Chosen(n)
    BY <2>2, NarrowedIf DEF narrow_iface_for_reset_alloc
  <2>4. u = selfn_reset_alloc(n, o.arg)
    BY <1>12, <2>2 DEF Handle
  <2> HIDE DEF n
  <2>5. PICK x, y : selfn_reset_alloc(n, o.arg) = [n EXCEPT !.flags = x, !.reset = y]
    BY DEF selfn_reset_alloc
  <2>6. Chosen([n EXCEPT !.flags = x, !.reset = y])
    BY <2>3, ChosenReset
  <2> QED
    BY <2>4, <2>5, <2>6
<1> QED
  BY <1>1, <1>4, <1>5, <1>6, <1>7, <1>8, <1>9, <1>10, <1>11, <1>12 DEF OptionName

LEMMA LinesKeep ==
  ASSUME NEW v, Chosen(v), NEW lines \in Seq(DOMAIN Options),
         \A j \in DOMAIN lines : Options[lines[j]].opt # "-f",
         NEW u, u = ForEach(v, lines, LAMBDA x, i : Handle(x, Options[i])), u.ok
  PROVE  Chosen(u)
<1>1. u = Result("line", 0, v, lines)
  BY LineLoop
<1>2. \A x : Keeps("line", 0, v, x) <=> (x.ok => Chosen(x))
  BY DEF Keeps
<1>3. \A x, i : Body("line", 0, x, i) = IF x.ok THEN Handle(x, Options[i]) ELSE x
  BY DEF Body, Doing, WorldKinds
<1>4. Len(lines) \in Nat /\ \A j \in 1 .. Len(lines) : lines[j] \in DOMAIN Options /\ Options[lines[j]].opt # "-f"
  <2>1. Len(lines) \in Nat /\ \A j \in 1 .. Len(lines) : lines[j] \in DOMAIN Options
    BY SequenceMembers
  <2>2. DOMAIN lines = 1 .. Len(lines)
    BY SequenceDomain
  <2> QED
    BY <2>1, <2>2
<1>5. Keeps("line", 0, v, Result("line", 0, v, lines))
  BY <1>2, <1>3, <1>4, OptionKeeps, LoopKeeps
<1> QED
  BY <1>1, <1>2, <1>5

-----------------------------------------------------------------------------
(* Allocation. *)

Ready(v) == DOMAIN v = WorldFields /\ v.calls \in Nat /\ SelSound(v.sel)

LEMMA AllocatingSame == ASSUME NEW v, Ready(v) PROVE Allocating(v, v) /\ Allocating(v, Error(v))
<1>1. DOMAIN v = WorldFields /\ v.calls \in Nat
  BY DEF Ready
<1>2. Allocating(v, v)
  BY <1>1 DEF Allocating, Called
<1>3. Allocating(v, Error(v))
  BY <1>1 DEF Allocating, Called, Error, WorldFields
<1> QED
  BY <1>2, <1>3

LEMMA AllocatingTwice ==
  ASSUME NEW b, NEW v, NEW u, Allocating(b, v), Allocating(v, u)
  PROVE  Allocating(b, u)
  BY DEF Allocating, Called

LEMMA AllocatingReady ==
  ASSUME NEW b, NEW v, Ready(b), Allocating(b, v)
  PROVE  Ready(v)
  BY DEF Ready, Allocating, Called

LEMMA ModKeeps ==
  ASSUME NEW b, NEW v, Allocating(b, v), NEW x
  PROVE  Allocating(b, [v EXCEPT !.mod = x])
<1>1. DOMAIN v = WorldFields
  BY DEF Allocating, Called
<1> DEFINE u == [v EXCEPT !.mod = x]
<1>2. DOMAIN u = WorldFields /\ u.calls = v.calls /\ u.iface = v.iface /\ u.mask = v.mask
      /\ u.open = v.open /\ u.ok = v.ok /\ u.failed = v.failed /\ u.alien = v.alien
      /\ u.sel = v.sel /\ u.running = v.running /\ u.stops = v.stops
  BY <1>1 DEF WorldFields
<1> HIDE DEF u
<1>3. Allocating(b, u)
  BY <1>2 DEF Allocating, Called
<1> QED
  BY <1>3 DEF u

\* A call to an interface that implements it, or is excused.
LEMMA CallKeeps ==
  ASSUME NEW v, DOMAIN v = WorldFields, v.calls \in Nat, v.ok, NEW op, NEW valid, NEW lib,
         op \in Type \cup {"mon_uncore"} \/ v.iface \in Implementers(op)
  PROVE  Allocating(v, Call(v, op, valid, lib))
<1> DEFINE u == Call(v, op, valid, lib)
           known == v.iface \in Implementers(op)
           good == known /\ valid /\ v.calls + 1 # v.fail
<1>1. u = [v EXCEPT !.calls = v.calls + 1, !.ok = good, !.failed = @ \/ ~good,
                    !.alien = @ \/ (~known /\ op \notin Type \cup {"mon_uncore"}),
                    !.lib = IF good THEN lib ELSE @]
  BY DEF Call
<1>2. ~(~known /\ op \notin Type \cup {"mon_uncore"})
  OBVIOUS
<1> HIDE DEF good, known
<1>3. DOMAIN u = WorldFields /\ u.calls = v.calls + 1 /\ u.iface = v.iface /\ u.mask = v.mask
      /\ u.open = v.open /\ u.sel = v.sel /\ u.running = v.running /\ u.stops = v.stops
  BY <1>1 DEF WorldFields
<1>4. u.ok = good /\ u.failed = (v.failed \/ ~good)
      /\ u.alien = (v.alien \/ (~known /\ op \notin Type \cup {"mon_uncore"}))
  BY <1>1 DEF WorldFields
<1>5. (u.failed => v.failed \/ ~u.ok) /\ (u.alien => v.alien)
  BY <1>2, <1>4
<1> HIDE DEF u
<1> QED
  BY <1>3, <1>5 DEF Allocating, Called, u

LEMMA AllocatingLoop ==
  ASSUME NEW kind \in {"cat", "card", "bw", "mba", "clos", "class", "core", "pid", "chan", "dev",
                       "devchan"},
         NEW a, NEW b, Ready(b), NEW s, Len(s) \in Nat,
         \A v : \A n \in 1 .. Len(s) :
           Allocating(b, v) /\ Ready(v) /\ v.ok => Allocating(v, Doing(kind, a, v, s[n]))
  PROVE  Allocating(b, Result(kind, a, b, s))
<1>1. \A v : Keeps(kind, a, b, v) <=> Allocating(b, v)
  BY DEF Keeps
<1>2. \A v, x : Body(kind, a, v, x) = IF v.ok THEN Doing(kind, a, v, x) ELSE v
  BY DEF Body, WorldKinds
<1>3. ASSUME NEW v, NEW n \in 1 .. Len(s), Allocating(b, v)
      PROVE  Allocating(b, Body(kind, a, v, s[n]))
  <2>1. Ready(v)
    BY <1>3, AllocatingReady
  <2>2. v.ok => Allocating(b, Doing(kind, a, v, s[n]))
    BY <1>3, <2>1, AllocatingTwice
  <2> QED
    BY <1>2, <1>3, <2>2
<1>4. Keeps(kind, a, b, b)
  BY <1>1, AllocatingSame
<1>5. Keeps(kind, a, b, Result(kind, a, b, s))
  BY <1>1, <1>3, <1>4, LoopKeeps
<1> QED
  BY <1>1, <1>5

\* A value is read, or nothing is; then it is written.
LEMMA WritingKeeps ==
  ASSUME NEW v, Ready(v), v.ok, NEW op \in Type, NEW valid, NEW lib
  PROVE  LET u == Call(v, op, valid, lib)
         IN Allocating(v, u) /\ Ready(u) /\ Allocating(v, Error(u))
            /\ \A x : Allocating(v, [u EXCEPT !.mod = x])
<1> DEFINE u == Call(v, op, valid, lib)
<1>1. Allocating(v, u)
  BY CallKeeps DEF Ready
<1>2. Ready(u)
  BY <1>1, AllocatingReady
<1> HIDE DEF u
<1>3. Allocating(v, Error(u))
  BY <1>1, <1>2, AllocatingSame, AllocatingTwice
<1>4. \A x : Allocating(v, [u EXCEPT !.mod = x])
  BY <1>1, ModKeeps
<1> QED
  BY <1>1, <1>2, <1>3, <1>4 DEF u

LEMMA CatKeeps ==
  ASSUME NEW v, Ready(v), v.ok, NEW t \in Type, NEW id, NEW d
  PROVE  Allocating(v, SetCat(v, t, id, d))
<1> DEFINE got == Call(v, t, id \in IdsOf(t), v.lib)
           lib == [got.lib EXCEPT !.cls[t][id][d.class] = Written(@, d.scope, d.value)]
           done == Call(got, t, d.value # 0, lib)
<1>1. Allocating(v, got) /\ Ready(got) /\ Allocating(v, Error(got))
  BY WritingKeeps
<1>2. SetCat(v, t, id, d) \in {got, Error(got)} \/
        (got.ok /\ SetCat(v, t, id, d) = IF done.ok THEN [done EXCEPT !.mod = @ + 1] ELSE done)
  BY DEF SetCat
<1> HIDE DEF got
<1>3. got.ok => Allocating(got, done) /\ \A x : Allocating(got, [done EXCEPT !.mod = x])
  <2> HIDE DEF lib
  <2> QED
    BY <1>1, WritingKeeps
<1> HIDE DEF done
<1>4. got.ok => Allocating(v, done) /\ Allocating(v, [done EXCEPT !.mod = @ + 1])
  BY <1>1, <1>3, AllocatingTwice
<1> QED
  BY <1>1, <1>2, <1>4

LEMMA CardKeeps ==
  ASSUME NEW v, Ready(v), v.ok, NEW dom, NEW d
  PROVE  Allocating(v, SetCard(v, dom, d))
<1> DEFINE got == Call(v, "llc", dom \in Domain, v.lib)
           lib == [got.lib EXCEPT !.ways[dom][d.class] = d.value]
           done == Call(got, "llc", d.value # 0, lib)
<1>0. "llc" \in Type
  BY DEF Type
<1>1. Allocating(v, got) /\ Ready(got) /\ Allocating(v, Error(got))
  BY <1>0, WritingKeeps
<1>2. SetCard(v, dom, d) \in {got, Error(got)} \/
        (got.ok /\ SetCard(v, dom, d) = IF done.ok THEN [done EXCEPT !.mod = @ + 1] ELSE done)
  BY DEF SetCard
<1> HIDE DEF got
<1>3. got.ok => Allocating(got, done) /\ \A x : Allocating(got, [done EXCEPT !.mod = x])
  <2> HIDE DEF lib
  <2> QED
    BY <1>0, <1>1, WritingKeeps
<1> HIDE DEF done
<1>4. got.ok => Allocating(v, done) /\ Allocating(v, [done EXCEPT !.mod = @ + 1])
  BY <1>1, <1>3, AllocatingTwice
<1> QED
  BY <1>1, <1>2, <1>4

LEMMA BwKeeps ==
  ASSUME NEW v, Ready(v), v.ok, NEW dom, NEW d
  PROVE  Allocating(v, SetBw(v, dom, d))
<1> DEFINE mine == ToSet(v.sel.regions) \X LimitsWritten(v.sel)
           lib == [v.lib EXCEPT !.bw[dom][d.class] =
                      [x \in DOMAIN @ |-> IF x \in mine THEN d.value ELSE @[x]]]
           valid == dom \in Domain /\ d.class \in Class
           done == Call(v, "mba", valid, lib)
<1>1. SetBw(v, dom, d) = IF done.ok THEN [done EXCEPT !.mod = @ + 1] ELSE done
  BY DEF SetBw
<1> HIDE DEF lib, valid
<1>2. Allocating(v, done) /\ \A x : Allocating(v, [done EXCEPT !.mod = x])
  BY WritingKeeps DEF Type
<1> HIDE DEF done
<1> QED
  BY <1>1, <1>2

LEMMA MbaKeeps ==
  ASSUME NEW v, Ready(v), v.ok, NEW t \in Type, NEW id, NEW d
  PROVE  Allocating(v, SetMba(v, t, id, d))
<1> DEFINE lib == [v.lib EXCEPT !.cls[t][id][d.class] = Start(d.value)]
           valid == id \in IdsOf(t) /\ d.class \in Class
           done == Call(v, t, valid, lib)
<1>1. SetMba(v, t, id, d) = IF done.ok THEN [done EXCEPT !.mod = @ + 1] ELSE done
  BY DEF SetMba
<1> HIDE DEF lib, valid
<1>2. Allocating(v, done) /\ \A x : Allocating(v, [done EXCEPT !.mod = x])
  BY WritingKeeps
<1> HIDE DEF done
<1> QED
  BY <1>1, <1>2

LEMMA EachKeeps ==
  ASSUME NEW b, Ready(b), NEW s, Listing(s), NEW t \in Type, NEW d
  PROVE  /\ Allocating(b, Result("cat", <<t, d>>, b, s))
         /\ Allocating(b, Result("card", d, b, s))
         /\ Allocating(b, Result("bw", d, b, s))
         /\ Allocating(b, Result("mba", <<t, d>>, b, s))
<1> DEFINE a == <<t, d>>
<1>1. Len(s) \in Nat
  BY DEF Listing
<1>2. \A v, x : /\ Doing("cat", a, v, x) = SetCat(v, t, x, d)
                /\ Doing("card", d, v, x) = SetCard(v, x, d)
                /\ Doing("bw", d, v, x) = SetBw(v, x, d)
                /\ Doing("mba", a, v, x) = SetMba(v, t, x, d)
  BY DEF Doing
<1> HIDE DEF a
<1>3. Allocating(b, Result("cat", a, b, s))
  BY <1>1, <1>2, CatKeeps, AllocatingLoop
<1>4. Allocating(b, Result("card", d, b, s))
  BY <1>1, <1>2, CardKeeps, AllocatingLoop
<1>5. Allocating(b, Result("bw", d, b, s))
  BY <1>1, <1>2, BwKeeps, AllocatingLoop
<1>6. Allocating(b, Result("mba", a, b, s))
  BY <1>1, <1>2, MbaKeeps, AllocatingLoop
<1> QED
  BY <1>3, <1>4, <1>5, <1>6 DEF a

LEMMA ClosKeeps ==
  ASSUME NEW v, Ready(v), NEW t \in Type, NEW d, NEW ids, Listing(ids)
  PROVE  Allocating(v, set_allocation_clos(v, t, d, ids))
<1> DEFINE doms == v.sel.domains
           cards == ForEach(v, doms, LAMBDA u, dom : SetCard(u, dom, d))
           bws == ForEach(v, doms, LAMBDA u, dom : SetBw(u, dom, d))
           cats(x) == ForEach(v, ids, LAMBDA u, id : SetCat(u, x, id, d))
           mbas(x) == ForEach(v, ids, LAMBDA u, id : SetMba(u, x, id, d))
<1>1. Listing(doms)
  BY DEF Ready, SelSound
<1>2. /\ set_l3_clos(v, d, ids) \in {Error(v), cards, cats("llc")}
      /\ set_l2_clos(v, d, ids) \in {Error(v), cats("l2")}
      /\ set_mba_clos(v, d, ids) \in {Error(v), bws, mbas("mba")}
      /\ set_smba_clos(v, d, ids) \in {Error(v), mbas("smba")}
  BY DEF set_l3_clos, set_l2_clos, set_mba_clos, set_smba_clos
<1> HIDE DEF doms
<1>3. cards = Result("card", d, v, doms)
  BY CardLoop
<1>4. bws = Result("bw", d, v, doms)
  BY BwLoop
<1>5. \A x : cats(x) = Result("cat", <<x, d>>, v, ids)
  <2> SUFFICES ASSUME NEW x PROVE cats(x) = Result("cat", <<x, d>>, v, ids)
    OBVIOUS
  <2> QED
    BY CatLoop
<1>6. \A x : mbas(x) = Result("mba", <<x, d>>, v, ids)
  <2> SUFFICES ASSUME NEW x PROVE mbas(x) = Result("mba", <<x, d>>, v, ids)
    OBVIOUS
  <2> QED
    BY MbaLoop
<1> HIDE DEF cards, bws, cats, mbas
<1>7. Allocating(v, cards) /\ Allocating(v, bws)
  BY <1>1, <1>3, <1>4, EachKeeps
<1>8. \A x \in Type : Allocating(v, cats(x)) /\ Allocating(v, mbas(x))
  BY <1>5, <1>6, EachKeeps
<1>9. Allocating(v, Error(v))
  BY AllocatingSame
<1>10. {"llc", "l2", "mba", "smba"} = Type
  BY DEF Type
<1>11. set_allocation_clos(v, t, d, ids)
         \in {set_l3_clos(v, d, ids), set_l2_clos(v, d, ids), set_mba_clos(v, d, ids),
              set_smba_clos(v, d, ids)}
  BY <1>10 DEF set_allocation_clos
<1> QED
  BY <1>2, <1>7, <1>8, <1>9, <1>10, <1>11

LEMMA ClassKeeps ==
  ASSUME NEW v, Ready(v), NEW o \in ClassDef
  PROVE  Allocating(v, set_allocation_class(v, o))
<1> DEFINE ids == IF o.ids = <<>> THEN Table(InOrder(IdsOf(o.type))) ELSE strlisttotab(o.ids, MaxIds)
           a == <<o.type, ids.tab>>
           u == ForEach(v, o.defs, LAMBDA x, d : set_allocation_clos(x, o.type, d, ids.tab))
<1>1. o.type \in Type /\ o.ids \in Lists /\ Len(o.defs) \in Nat
  BY DEF ClassDef, Type, Lists
<1>2. Listing(ids.tab)
  <2>1. Listing(strlisttotab(o.ids, MaxIds).tab)
    BY <1>1, ListTables DEF Tabled
  <2>2. Listing(InOrder(IdsOf(o.type)))
    BY ResourceAssumption, InOrderLists DEF IdsOf
  <2> QED
    BY <2>1, <2>2 DEF Table
<1> HIDE DEF ids
<1>3. \A x, d : Doing("clos", a, x, d) = set_allocation_clos(x, o.type, d, ids.tab)
  BY DEF Doing
<1>4. u = Result("clos", a, v, o.defs)
  BY ClosLoop
<1> HIDE DEF a
<1>5. Allocating(v, Result("clos", a, v, o.defs))
  BY <1>1, <1>2, <1>3, ClosKeeps, AllocatingLoop
<1>6. set_allocation_class(v, o) \in {Error(v), u}
  BY DEF set_allocation_class, ids
<1> HIDE DEF u
<1> QED
  BY <1>4, <1>5, <1>6, AllocatingSame

LEMMA ClassesKeep == ASSUME NEW v, Ready(v) PROVE Allocating(v, set_alloc(v))
<1> DEFINE s == v.sel.alloc_opts
<1>1. set_alloc(v) = Result("class", 0, v, s)
  BY ClassLoop DEF set_alloc
<1>2. s \in Seq(ClassDef)
  BY DEF Ready, SelSound
<1> HIDE DEF s
<1>3. Len(s) \in Nat /\ \A n \in 1 .. Len(s) : s[n] \in ClassDef
  BY <1>2, SequenceMembers
<1>4. \A x, o : Doing("class", 0, x, o) = set_allocation_class(x, o)
  BY DEF Doing
<1>5. Allocating(v, Result("class", 0, v, s))
  BY <1>3, <1>4, ClassKeeps, AllocatingLoop
<1> QED
  BY <1>1, <1>5

\* A core, a task, a channel and a device are associated.
LEMMA AssocKeeps ==
  ASSUME NEW v, Ready(v), v.ok, NEW e
  PROVE  /\ v.iface \in {"MSR", "OS"} => Allocating(v, set_core(v, e))
         /\ v.iface = "OS" => Allocating(v, set_pid(v, e))
         /\ v.iface \in {"MSR", "MMIO"} => \A ch, c : Allocating(v, set_channel(v, ch, c))
<1>1. DOMAIN v = WorldFields /\ v.calls \in Nat
  BY DEF Ready
<1>2. /\ Implementers("assoc_core") = {"MSR", "OS"} /\ Implementers("assoc_pid") = {"OS"}
      /\ Implementers("assoc_channel") = {"MSR", "MMIO"}
  BY DEF Implementers
<1>3. v.iface \in {"MSR", "OS"} => \A valid, lib : Allocating(v, Call(v, "assoc_core", valid, lib))
  BY <1>1, <1>2, CallKeeps
<1>4. v.iface = "OS" => \A valid, lib : Allocating(v, Call(v, "assoc_pid", valid, lib))
  BY <1>1, <1>2, CallKeeps
<1>5. v.iface \in {"MSR", "MMIO"} => \A valid, lib : Allocating(v, Call(v, "assoc_channel", valid, lib))
  BY <1>1, <1>2, CallKeeps
<1> QED
  BY <1>3, <1>4, <1>5 DEF set_core, set_pid, set_channel

LEMMA DevKeeps ==
  ASSUME NEW v, Ready(v), v.ok, v.iface \in {"MSR", "MMIO"}, NEW e
  PROVE  Allocating(v, set_dev(v, e))
<1> DEFINE chans == DevChannels[e.what.dev]
           c == e.clos
           u == ForEach(v, chans, LAMBDA x, ch : IF ch = 0 THEN x ELSE set_channel(x, ch, c))
<1>1. set_dev(v, e) \in {Error(v), set_channel(v, chans[e.what.vc + 1], c)}
        \/ (e.what.dev \in Dev /\ set_dev(v, e) = u)
  BY DEF set_dev
<1>2. Allocating(v, Error(v)) /\ Allocating(v, set_channel(v, chans[e.what.vc + 1], c))
  BY AllocatingSame, AssocKeeps
<1>3. e.what.dev \in Dev => Len(chans) \in Nat
  BY DevAssumption
<1> HIDE DEF chans, c
<1>4. u = Result("devchan", c, v, chans)
  BY DevChanLoop
<1>5. \A x, ch : Doing("devchan", c, x, ch) = IF ch = 0 THEN x ELSE set_channel(x, ch, c)
  BY DEF Doing
<1>6. ASSUME NEW x, NEW ch, Allocating(v, x), Ready(x), x.ok
      PROVE  Allocating(x, Doing("devchan", c, x, ch))
  <2>1. x.iface \in {"MSR", "MMIO"}
    BY <1>6 DEF Allocating, Called
  <2>2. Allocating(x, x) /\ Allocating(x, set_channel(x, ch, c))
    BY <1>6, <2>1, AllocatingSame, AssocKeeps
  <2> QED
    BY <1>5, <2>2
<1>7. e.what.dev \in Dev => Allocating(v, Result("devchan", c, v, chans))
  BY <1>3, <1>6, AllocatingLoop
<1> QED
  BY <1>1, <1>2, <1>4, <1>7

\* Each of the association loops, on an interface that suits it.
LEMMA AssocLoops ==
  ASSUME NEW b, Ready(b), NEW s, Listing(s)
  PROVE  /\ (s # <<>> => b.iface \in {"MSR", "OS"}) => Allocating(b, Result("core", 0, b, s))
         /\ (s # <<>> => b.iface = "OS") => Allocating(b, Result("pid", 0, b, s))
         /\ (s # <<>> => b.iface \in {"MSR", "MMIO"}) => Allocating(b, Result("chan", 0, b, s))
         /\ (s # <<>> => b.iface \in {"MSR", "MMIO"}) => Allocating(b, Result("dev", 0, b, s))
<1>1. Len(s) \in Nat /\ \A n \in 1 .. Len(s) : s # <<>>
  BY DEF Listing
<1>2. \A v, x : /\ Doing("core", 0, v, x) = set_core(v, x)
                /\ Doing("pid", 0, v, x) = set_pid(v, x)
                /\ Doing("chan", 0, v, x) = set_channel(v, x.what, x.clos)
                /\ Doing("dev", 0, v, x) = set_dev(v, x)
  BY DEF Doing
<1>3. \A v : Allocating(b, v) => v.iface = b.iface
  BY DEF Allocating, Called
<1>4. ASSUME s # <<>> => b.iface \in {"MSR", "OS"}
      PROVE  Allocating(b, Result("core", 0, b, s))
  <2>1. \A v : \A n \in 1 .. Len(s) :
          Allocating(b, v) /\ Ready(v) /\ v.ok => Allocating(v, Doing("core", 0, v, s[n]))
    BY <1>1, <1>2, <1>3, <1>4, AssocKeeps
  <2> QED
    BY <1>1, <2>1, AllocatingLoop
<1>5. ASSUME s # <<>> => b.iface = "OS"
      PROVE  Allocating(b, Result("pid", 0, b, s))
  <2>1. \A v : \A n \in 1 .. Len(s) :
          Allocating(b, v) /\ Ready(v) /\ v.ok => Allocating(v, Doing("pid", 0, v, s[n]))
    BY <1>1, <1>2, <1>3, <1>5, AssocKeeps
  <2> QED
    BY <1>1, <2>1, AllocatingLoop
<1>6. ASSUME s # <<>> => b.iface \in {"MSR", "MMIO"}
      PROVE  Allocating(b, Result("chan", 0, b, s)) /\ Allocating(b, Result("dev", 0, b, s))
  <2>1. \A v : \A n \in 1 .. Len(s) :
          Allocating(b, v) /\ Ready(v) /\ v.ok => Allocating(v, Doing("chan", 0, v, s[n]))
    BY <1>1, <1>2, <1>3, <1>6, AssocKeeps
  <2>2. \A v : \A n \in 1 .. Len(s) :
          Allocating(b, v) /\ Ready(v) /\ v.ok => Allocating(v, Doing("dev", 0, v, s[n]))
    BY <1>1, <1>2, <1>3, <1>6, DevKeeps
  <2> QED
    BY <1>1, <2>1, <2>2, AllocatingLoop
<1> QED
  BY <1>4, <1>5, <1>6

LEMMA AssocsKeep ==
  ASSUME NEW v, Ready(v), v.iface \in Interface, Suits(v.sel, {v.iface})
  PROVE  Allocating(v, set_allocation_assoc(v))
<1> DEFINE ct == v.sel.core_tab
           pt == v.sel.pid_tab
           ht == v.sel.chan_tab
           dt == v.sel.dev_tab
           cores == ForEach(v, ct, set_core)
           pids == ForEach(cores, pt, set_pid)
           chans == ForEach(pids, ht, LAMBDA u, e : set_channel(u, e.what, e.clos))
           devs == ForEach(chans, dt, set_dev)
<1>1. /\ Listing(ct) /\ Listing(pt) /\ Listing(ht) /\ Listing(dt)
      /\ pt # <<>> => v.iface = "OS"
      /\ ht # <<>> \/ dt # <<>> => v.iface \in {"MSR", "MMIO"}
  BY DEF Ready, SelSound, Suits
<1>2. set_allocation_assoc(v) =
        IF v.iface = "MMIO" /\ (ct # <<>> \/ pt # <<>>) THEN Error(v) ELSE devs
  BY DEF set_allocation_assoc
<1>3. ~(v.iface = "MMIO" /\ (ct # <<>> \/ pt # <<>>)) => (ct # <<>> => v.iface \in {"MSR", "OS"})
  BY DEF Interface
<1> HIDE DEF ct, pt, ht, dt
<1>4. cores = Result("core", 0, v, ct)
  BY CoreLoop
<1> HIDE DEF cores
<1>5. pids = Result("pid", 0, cores, pt)
  BY PidLoop
<1> HIDE DEF pids
<1>6. chans = Result("chan", 0, pids, ht)
  BY ChanLoop
<1> HIDE DEF chans
<1>7. devs = Result("dev", 0, chans, dt)
  BY DevLoop
<1> HIDE DEF devs
<1>8. \A u : Allocating(v, u) => u.iface = v.iface
  BY DEF Allocating, Called
<1>9. Allocating(v, Error(v))
  BY AllocatingSame
<1>10. ASSUME ct # <<>> => v.iface \in {"MSR", "OS"} PROVE Allocating(v, devs)
  <2>1. Allocating(v, cores) /\ Ready(cores)
    BY <1>1, <1>4, <1>10, AssocLoops, AllocatingReady
  <2>2. Allocating(cores, pids)
    BY <1>1, <1>5, <1>8, <2>1, AssocLoops
  <2>3. Allocating(v, pids) /\ Ready(pids)
    BY <2>1, <2>2, AllocatingTwice, AllocatingReady
  <2>4. Allocating(pids, chans)
    BY <1>1, <1>6, <1>8, <2>3, AssocLoops
  <2>5. Allocating(v, chans) /\ Ready(chans)
    BY <2>3, <2>4, AllocatingTwice, AllocatingReady
  <2>6. Allocating(chans, devs)
    BY <1>1, <1>7, <1>8, <2>5, AssocLoops
  <2> QED
    BY <2>5, <2>6, AllocatingTwice
<1> QED
  BY <1>2, <1>3, <1>9, <1>10

\* Nothing but allocation was done, or was added to what is to be done.
Applying(b, u) ==
  /\ Called(b, u) /\ SelSound(u.sel) /\ Suits(u.sel, {u.iface})
  /\ u.running = b.running /\ u.stops = b.stops

LEMMA ProfileKeeps ==
  ASSUME NEW v, Ready(v), Suits(v.sel, {v.iface})
  PROVE  Applying(v, profile_l3ca_apply(v)) /\ Applying(v, v)
<1> DEFINE s == v.sel
           t == [s EXCEPT !.alloc_opts = @ \o ProfileDefs]
           u == [v EXCEPT !.sel = t]
<1>1. DOMAIN v = WorldFields /\ v.calls \in Nat /\ SelSound(s)
  BY DEF Ready
<1>2. profile_l3ca_apply(v) \in {Error(v), u}
  BY DEF profile_l3ca_apply
<1>3. DOMAIN t = DOMAIN s /\ t.alloc_opts = s.alloc_opts \o ProfileDefs /\ t.domains = s.domains
      /\ t.core_tab = s.core_tab /\ t.pid_tab = s.pid_tab /\ t.chan_tab = s.chan_tab
      /\ t.dev_tab = s.dev_tab /\ t.groups = s.groups
  BY <1>1 DEF SelSound, SelFields
<1> HIDE DEF t
<1>4. s.alloc_opts \o ProfileDefs \in Seq(ClassDef)
  BY <1>1, ProfileAssumption DEF SelSound
<1>5. SelSound(t)
  BY <1>1, <1>3, <1>4 DEF SelSound
<1>6. TypesIn(t) = TypesIn(s)
  BY <1>3 DEF TypesIn
<1>7. Suits(t, {v.iface})
  BY <1>3, <1>6 DEF Suits
<1>8. DOMAIN u = WorldFields /\ u.sel = t /\ u.calls = v.calls /\ u.iface = v.iface
      /\ u.mask = v.mask /\ u.open = v.open /\ u.ok = v.ok /\ u.failed = v.failed
      /\ u.alien = v.alien /\ u.running = v.running /\ u.stops = v.stops
  BY <1>1 DEF WorldFields
<1> HIDE DEF u
<1>9. Applying(v, u)
  BY <1>1, <1>5, <1>7, <1>8 DEF Applying, Called
<1>10. Allocating(v, v) /\ Allocating(v, Error(v))
  BY AllocatingSame
<1>11. Applying(v, v) /\ Applying(v, Error(v))
  BY <1>1, <1>10 DEF Applying, Allocating, Called
<1> QED
  BY <1>2, <1>9, <1>11

LEMMA AllocKeeps ==
  ASSUME NEW v, Ready(v), v.iface \in Interface, Suits(v.sel, {v.iface})
  PROVE  Allocating(v, alloc_apply(v).w)
<1> DEFINE classes == set_alloc(v)
<1>1. Allocating(v, v) /\ Allocating(v, Error(v))
  BY AllocatingSame
<1>2. Allocating(v, classes)
  BY ClassesKeep
<1>3. alloc_apply(v).w \in {Error(v), v, classes, set_allocation_assoc(classes)}
  BY DEF alloc_apply
<1> HIDE DEF classes
<1>4. Ready(classes) /\ classes.iface = v.iface /\ classes.sel = v.sel
  BY <1>2, AllocatingReady DEF Allocating, Called
<1>5. Allocating(classes, set_allocation_assoc(classes))
  BY <1>4, AssocsKeep
<1>6. Allocating(v, set_allocation_assoc(classes))
  BY <1>2, <1>5, AllocatingTwice
<1> QED
  BY <1>1, <1>2, <1>3, <1>6

-----------------------------------------------------------------------------
(* Monitoring is started. *)

LEMMA CalledTwice ==
  ASSUME NEW b, NEW v, NEW u, Called(b, v), Called(v, u)
  PROVE  Called(b, u)
  BY DEF Called

\* A group is given its channels and its events, and is marked as started.
LEMMA GroupPut ==
  ASSUME NEW b, NEW v, Starting(b, v), NEW i \in DOMAIN v.sel.groups, NEW g, NEW u,
         DOMAIN g = {"type", "events", "res", "started"}, g.type \in GroupType,
         \/ g.type = v.sel.groups[i].type
         \/ g.type = "channel" /\ v.sel.groups[i].type = "device",
         v.sel.groups[i].started => g.started,
         Called(v, u), u.stops = v.stops, u.sel = [v.sel EXCEPT !.groups[i] = g],
         \A j \in u.running : j \in v.running \/ (j = i /\ g.started)
  PROVE  Starting(b, u)
<1> DEFINE gs == v.sel.groups
           hs == u.sel.groups
           s == v.sel
           t == u.sel
<1>1. DOMAIN s = SelFields /\ Listing(gs) /\ Suits(s, {v.iface})
  BY DEF Starting, SelSound
<1>2. DOMAIN t = SelFields /\ hs = [gs EXCEPT ![i] = g] /\ t.alloc_opts = s.alloc_opts
      /\ t.domains = s.domains /\ t.core_tab = s.core_tab /\ t.pid_tab = s.pid_tab
      /\ t.chan_tab = s.chan_tab /\ t.dev_tab = s.dev_tab
  BY <1>1 DEF SelFields
<1>3. i \in DOMAIN gs /\ DOMAIN hs = DOMAIN gs /\ hs[i] = g
      /\ \A k \in DOMAIN gs : k # i => hs[k] = gs[k]
  BY <1>2
<1>4. Listing(hs)
  <2> HIDE DEF gs, hs, s
  <2> QED
    BY <1>1, <1>2, ExceptLists
<1>5. Called(b, u)
  BY CalledTwice DEF Starting
<1>6. \A k \in DOMAIN gs : DOMAIN gs[k] = {"type", "events", "res", "started"} /\ gs[k].type \in GroupType
  BY DEF Starting, SelSound
<1>7. v.running \subseteq DOMAIN gs /\ \A k \in v.running : gs[k].started
  BY DEF Starting, StartedGroups
<1>8. s.alloc_opts \in Seq(ClassDef) /\ Listing(s.domains) /\ Listing(s.core_tab)
      /\ Listing(s.pid_tab) /\ Listing(s.chan_tab) /\ Listing(s.dev_tab)
  BY DEF Starting, SelSound
<1>9. DOMAIN gs = DOMAIN b.sel.groups /\ v.stops = b.stops
  BY DEF Starting
<1>10. g.type = gs[i].type \/ (g.type = "channel" /\ gs[i].type = "device")
  OBVIOUS
<1>11. gs[i].started => g.started
  OBVIOUS
<1>12. u.iface = v.iface
  BY DEF Called
<1>13. TypesIn(s) = {gs[k].type : k \in DOMAIN gs} /\ TypesIn(t) = {hs[k].type : k \in DOMAIN hs}
  BY DEF TypesIn
<1>14. StartedGroups(u) = {k \in DOMAIN hs : hs[k].started}
  BY DEF StartedGroups
<1> HIDE DEF gs, hs, s
<1>15. SelSound(t)
  BY <1>2, <1>3, <1>4, <1>6, <1>8 DEF SelSound, hs
<1>16. TypesIn(t) \subseteq TypesIn(s) \cup {g.type} /\ gs[i].type \in TypesIn(s)
  BY <1>3, <1>13
<1> HIDE DEF t
<1>17. Suits(t, {u.iface})
  BY <1>1, <1>2, <1>10, <1>12, <1>16 DEF Suits
<1>18. u.running \subseteq StartedGroups(u)
  BY <1>3, <1>7, <1>11, <1>14
<1>19. DOMAIN hs = DOMAIN b.sel.groups /\ u.stops = b.stops
  BY <1>3, <1>9
<1> QED
  BY <1>5, <1>15, <1>17, <1>18, <1>19 DEF Starting, hs, t

LEMMA StartKeeps ==
  ASSUME NEW b, NEW v, Starting(b, v), v.ok, v.iface \in Interface,
         NEW i \in DOMAIN v.sel.groups, v.sel.groups[i].type # "device"
  PROVE  Starting(b, MonStart(v, i, v.sel.groups[i]))
<1> DEFINE grp == v.sel.groups[i]
           free == \A j \in v.running :
                     \/ v.sel.groups[j].type # grp.type
                     \/ ToSet(v.sel.groups[j].res) \cap ToSet(grp.res) = {}
           real == ToSet(grp.res) \subseteq (CASE grp.type = "core" -> Core
                                               [] grp.type = "pid" -> Pid
                                               [] grp.type = "channel" -> Channel
                                               [] OTHER -> Range(SocketOf))
           valid == free /\ real /\ grp.events # {} /\ grp.events \subseteq v.events
           op == MonOp[grp.type]
           done == Call(v, op, valid, v.lib)
           res == [done EXCEPT !.running = @ \cup {i}, !.sel.groups[i].started = TRUE]
           g == [grp EXCEPT !.started = TRUE]
<1>1. MonStart(v, i, grp) = IF done.ok THEN res ELSE done
  BY DEF MonStart
<1>2. DOMAIN v = WorldFields /\ v.calls \in Nat
  BY DEF Starting, Called
<1>3. DOMAIN v.sel = SelFields /\ DOMAIN grp = {"type", "events", "res", "started"}
      /\ grp.type \in GroupType /\ Suits(v.sel, {v.iface}) /\ grp.type \in TypesIn(v.sel)
  BY DEF Starting, SelSound, TypesIn
<1>4. op \in Type \cup {"mon_uncore"} \/ v.iface \in Implementers(op)
  <2>1. CASE grp.type = "core"
    BY <2>1 DEF MonOp, Implementers, Interface
  <2>2. CASE grp.type = "pid"
    <3>1. v.iface = "OS"
      BY <1>3, <2>2 DEF Suits
    <3> QED
      BY <2>2, <3>1 DEF MonOp, Implementers
  <2>3. CASE grp.type = "channel"
    <3>1. v.iface \in {"MSR", "MMIO"}
      BY <1>3, <2>3 DEF Suits
    <3> QED
      BY <2>3, <3>1 DEF MonOp, Implementers
  <2>4. CASE grp.type = "uncore"
    BY <2>4 DEF MonOp
  <2> QED
    BY <1>3, <2>1, <2>2, <2>3, <2>4 DEF GroupType
<1> HIDE DEF valid, op
<1>5. Allocating(v, done)
  BY <1>2, <1>4, CallKeeps
<1> HIDE DEF done
<1>6. DOMAIN done = WorldFields /\ done.sel = v.sel /\ done.running = v.running
      /\ done.stops = v.stops /\ Called(v, done)
  BY <1>5 DEF Allocating, Called
<1>7. Starting(b, done)
  <2>1. Called(b, done)
    BY <1>6, CalledTwice DEF Starting
  <2>2. done.iface = v.iface
    BY <1>6 DEF Called
  <2>3. StartedGroups(done) = StartedGroups(v)
    BY <1>6 DEF StartedGroups
  <2> QED
    BY <1>6, <2>1, <2>2, <2>3 DEF Starting
<1>8. done.ok => Starting(b, res)
  <2>1. DOMAIN g = {"type", "events", "res", "started"} /\ g.type = grp.type /\ g.started
    BY <1>3
  <2>2. res.sel = [v.sel EXCEPT !.groups[i] = g]
    BY <1>3, <1>6 DEF WorldFields, SelFields
  <2>3. res.running = v.running \cup {i} /\ res.stops = v.stops
    BY <1>6 DEF WorldFields
  <2>4. Called(v, res)
    <3>1. DOMAIN res = WorldFields /\ res.calls = done.calls /\ res.iface = done.iface
          /\ res.mask = done.mask /\ res.open = done.open /\ res.ok = done.ok
          /\ res.failed = done.failed /\ res.alien = done.alien
      BY <1>6 DEF WorldFields
    <3> HIDE DEF res
    <3> QED
      BY <1>6, <3>1 DEF Called
  <2> HIDE DEF res, g
  <2> QED
    BY <1>3, <2>1, <2>2, <2>3, <2>4, GroupPut
<1> HIDE DEF res
<1> QED
  BY <1>1, <1>7, <1>8

LEMMA StartingError ==
  ASSUME NEW b, NEW v, Starting(b, v)
  PROVE  Starting(b, Error(v))
<1> DEFINE u == Error(v)
<1>1. DOMAIN v = WorldFields /\ v.calls \in Nat
  BY DEF Starting, Called
<1>2. DOMAIN u = WorldFields /\ u.sel = v.sel /\ u.running = v.running /\ u.stops = v.stops
      /\ u.calls = v.calls /\ u.iface = v.iface /\ u.mask = v.mask /\ u.open = v.open
      /\ u.ok = FALSE /\ u.failed = v.failed /\ u.alien = v.alien
  BY <1>1 DEF Error, WorldFields
<1> HIDE DEF u
<1>3. StartedGroups(u) = StartedGroups(v)
  BY <1>2 DEF StartedGroups
<1>4. Starting(b, u)
  BY <1>1, <1>2, <1>3 DEF Starting, Called
<1> QED
  BY <1>4 DEF u

LEMMA GroupStarts ==
  ASSUME NEW b, NEW v, Starting(b, v), v.ok, v.iface \in Interface,
         NEW i \in DOMAIN v.sel.groups
  PROVE  Starting(b, StartGroup(v, i))
<1> DEFINE grp == v.sel.groups[i]
           conv == IF grp.type = "device" THEN grp_device_to_channel(grp)
                   ELSE [ok |-> TRUE, grp |-> grp]
           evts == monitor_setup_events(v, conv.grp)
           ready == [conv.grp EXCEPT !.events = evts.events]
           u == [v EXCEPT !.sel.groups[i] = ready]
<1>1. DOMAIN v = WorldFields /\ v.calls \in Nat /\ DOMAIN v.sel = SelFields
      /\ DOMAIN grp = {"type", "events", "res", "started"} /\ grp.type \in GroupType
  BY DEF Starting, Called, SelSound
<1>2. StartGroup(v, i) \in {MonStart(u, i, ready), Error(u), Error(v)}
  BY DEF StartGroup
<1>3. /\ DOMAIN conv.grp = {"type", "events", "res", "started"} /\ conv.grp.started = grp.started
      /\ conv.grp.type = IF grp.type = "device" THEN "channel" ELSE grp.type
  <2>1. CASE grp.type = "device"
    <3> DEFINE d == grp.res[1]
               chans == IF d.dev \notin Dev THEN <<>>
                        ELSE IF d.vc = DevAllVcs THEN SelectSeq(DevChannels[d.dev], LAMBDA c : c # 0)
                        ELSE SelectSeq(SubSeq(DevChannels[d.dev], d.vc + 1, d.vc + 1),
                                       LAMBDA c : c # 0)
    <3>1. conv.grp = [grp EXCEPT !.type = "channel", !.res = chans]
      BY <2>1 DEF grp_device_to_channel
    <3> HIDE DEF chans, conv, grp
    <3> QED
      BY <1>1, <2>1, <3>1
  <2> QED
    BY <1>1, <2>1
<1> HIDE DEF conv, evts
<1>4. DOMAIN ready = {"type", "events", "res", "started"} /\ ready.started = grp.started
      /\ ready.type = IF grp.type = "device" THEN "channel" ELSE grp.type
  BY <1>3
<1> HIDE DEF ready
<1>5. DOMAIN u = WorldFields /\ u.sel = [v.sel EXCEPT !.groups[i] = ready]
      /\ u.running = v.running /\ u.stops = v.stops
  BY <1>1 DEF WorldFields
<1>6. u.calls = v.calls /\ u.iface = v.iface /\ u.mask = v.mask /\ u.open = v.open
      /\ u.ok = v.ok /\ u.failed = v.failed /\ u.alien = v.alien
  BY <1>1 DEF WorldFields
<1>7. u.sel.groups[i] = ready /\ DOMAIN u.sel.groups = DOMAIN v.sel.groups
  BY <1>1, <1>5 DEF SelFields
<1> HIDE DEF u
<1>8. ready.type \in GroupType /\ ready.type # "device"
      /\ (ready.type = grp.type \/ (ready.type = "channel" /\ grp.type = "device"))
  BY <1>1, <1>4 DEF GroupType
<1>9. Called(v, u)
  BY <1>1, <1>5, <1>6 DEF Called
<1>10. Starting(b, u)
  BY <1>4, <1>5, <1>8, <1>9, GroupPut
<1>11. Starting(b, MonStart(u, i, u.sel.groups[i]))
  BY <1>6, <1>7, <1>8, <1>10, StartKeeps
<1>12. Starting(b, Error(u)) /\ Starting(b, Error(v))
  BY <1>10, StartingError
<1> QED
  BY <1>2, <1>7, <1>11, <1>12

\* A world in which nothing is monitored yet, and what is asked of the start.
Startable(v) ==
  /\ Ready(v) /\ Suits(v.sel, {v.iface}) /\ v.iface \in Interface /\ v.ok
  /\ v.running = {} /\ v.stops = <<>>

\* Monitoring was set up: the groups run and none was stopped, or none runs.
SetUp(b, u) ==
  /\ Called(b, u)
  /\ u.running \subseteq DOMAIN u.sel.groups
  /\ IF u.ok
     THEN u.running \subseteq StartedGroups(u) /\ \A i \in DOMAIN u.stops : u.stops[i] = 0
     ELSE u.running = {} /\ \A i \in DOMAIN u.stops : u.stops[i] <= 1

\* When all started groups are stopped none is left, and each was stopped once.
LEMMA StoppingAll ==
  ASSUME NEW v, DOMAIN v = WorldFields, v.running \subseteq StartedGroups(v),
         \A i \in DOMAIN v.stops : v.stops[i] = 0
  PROVE  LET u == StopAll(v)
         IN /\ DOMAIN u = WorldFields /\ u.sel = v.sel /\ u.calls = v.calls /\ u.iface = v.iface
            /\ u.mask = v.mask /\ u.open = v.open /\ u.ok = v.ok /\ u.failed = v.failed
            /\ u.alien = v.alien
            /\ u.running = {} /\ \A i \in DOMAIN u.stops : u.stops[i] <= 1
<1> DEFINE mine == StartedGroups(v)
           stops == [i \in DOMAIN v.stops |-> IF i \in mine THEN v.stops[i] + 1 ELSE v.stops[i]]
           left == v.running \ mine
           u == [v EXCEPT !.running = left, !.stops = stops]
<1>1. StopAll(v) = u
  BY DEF StopAll
<1>2. left = {}
  OBVIOUS
<1>3. \A i \in DOMAIN stops : stops[i] <= 1
  OBVIOUS
<1> HIDE DEF left, stops, mine
<1>4. /\ DOMAIN u = WorldFields /\ u.sel = v.sel /\ u.calls = v.calls /\ u.iface = v.iface
      /\ u.mask = v.mask /\ u.open = v.open /\ u.ok = v.ok /\ u.failed = v.failed
      /\ u.alien = v.alien /\ u.running = left /\ u.stops = stops
  BY DEF WorldFields
<1> HIDE DEF u
<1> QED
  BY <1>1, <1>2, <1>3, <1>4

LEMMA StartsKeep ==
  ASSUME NEW b, Ready(b), Suits(b.sel, {b.iface}), b.iface \in Interface,
         b.running = {}, NEW n, n = Len(b.sel.groups), NEW s, s = [i \in 1 .. n |-> i]
  PROVE  Starting(b, Result("start", 0, b, s))
<1>1. n \in Nat /\ DOMAIN b.sel.groups = 1 .. n
  BY DEF Ready, SelSound, Listing
<1>2. Len(s) = n /\ \A i \in 1 .. n : s[i] = i
  <2>1. s = [i \in 1 .. n |-> s[i]]
    OBVIOUS
  <2> QED
    BY <1>1, <2>1, ListingTo
<1>3. \A v : Keeps("start", 0, b, v) <=> Starting(b, v)
  BY DEF Keeps
<1>4. \A v, i : Body("start", 0, v, i) = IF v.ok THEN StartGroup(v, i) ELSE v
  BY DEF Body, Doing, WorldKinds
<1>5. Starting(b, b)
  BY DEF Starting, Called, Ready
<1>6. ASSUME NEW v, NEW i \in 1 .. Len(s), Starting(b, v)
      PROVE  Starting(b, Body("start", 0, v, s[i]))
  <2>1. v.iface = b.iface /\ s[i] \in DOMAIN v.sel.groups
    BY <1>1, <1>2, <1>6 DEF Starting, Called
  <2> QED
    BY <1>4, <1>6, <2>1, GroupStarts
<1>7. Keeps("start", 0, b, Result("start", 0, b, s))
  BY <1>1, <1>2, <1>3, <1>5, <1>6, LoopKeeps
<1> QED
  BY <1>3, <1>7

LEMMA AllStart ==
  ASSUME NEW v, Startable(v)
  PROVE  SetUp(v, StartAll(v))
<1> DEFINE zero == [i \in DOMAIN v.sel.groups |-> 0]
           b == [v EXCEPT !.stops = zero]
           s == [i \in 1 .. Len(v.sel.groups) |-> i]
           r == ForEach(b, s, StartGroup)
           last == IF r.ok THEN r ELSE StopAll(r)
<1>1. DOMAIN v = WorldFields /\ v.calls \in Nat
  BY DEF Startable, Ready
<1>2. StartAll(v) \in {last, Error(v)}
  BY DEF StartAll, Once
<1>3. \A i \in DOMAIN zero : zero[i] = 0
  OBVIOUS
<1> HIDE DEF zero
<1>4. DOMAIN b = WorldFields /\ b.sel = v.sel /\ b.calls = v.calls /\ b.iface = v.iface
      /\ b.mask = v.mask /\ b.open = v.open /\ b.ok = v.ok /\ b.failed = v.failed
      /\ b.alien = v.alien /\ b.running = v.running /\ b.stops = zero
  BY <1>1 DEF WorldFields
<1> HIDE DEF b, s
<1>5. Ready(b) /\ Suits(b.sel, {b.iface}) /\ b.iface \in Interface /\ b.running = {} /\ Called(v, b)
  BY <1>1, <1>4 DEF Startable, Ready, Called
<1>6. r = Result("start", 0, b, s)
  BY StartLoop
<1> HIDE DEF r
<1>7. s = [i \in 1 .. Len(b.sel.groups) |-> i]
  BY <1>4 DEF s
<1>8. Starting(b, r)
  BY <1>5, <1>6, <1>7, StartsKeep
<1>9. Called(v, r) /\ r.running \subseteq StartedGroups(r) /\ \A i \in DOMAIN r.stops : r.stops[i] = 0
  BY <1>3, <1>4, <1>5, <1>8, CalledTwice DEF Starting
<1>10. StartedGroups(r) \subseteq DOMAIN r.sel.groups
  BY DEF StartedGroups
<1>11. r.ok => SetUp(v, r)
  BY <1>9, <1>10 DEF SetUp
<1>12. ~r.ok => SetUp(v, StopAll(r))
  <2> DEFINE u == StopAll(r)
  <2>1. DOMAIN r = WorldFields
    BY <1>9 DEF Called
  <2>2. /\ DOMAIN u = WorldFields /\ u.calls = r.calls /\ u.iface = r.iface
        /\ u.mask = r.mask /\ u.open = r.open /\ u.ok = r.ok /\ u.failed = r.failed
        /\ u.alien = r.alien
        /\ u.running = {} /\ \A i \in DOMAIN u.stops : u.stops[i] <= 1
    BY <1>9, <2>1, StoppingAll
  <2> HIDE DEF u
  <2>3. Called(v, u)
    BY <1>9, <2>2 DEF Called
  <2>4. ~r.ok => SetUp(v, u)
    BY <2>2, <2>3 DEF SetUp
  <2> QED
    BY <2>4 DEF u
<1>13. SetUp(v, Error(v))
  <2> DEFINE u == Error(v)
  <2>1. DOMAIN u = WorldFields /\ u.calls = v.calls /\ u.iface = v.iface
        /\ u.mask = v.mask /\ u.open = v.open /\ ~u.ok /\ u.failed = v.failed
        /\ u.alien = v.alien /\ u.running = v.running /\ u.stops = v.stops
    BY <1>1 DEF Error, WorldFields
  <2> HIDE DEF u
  <2>2. Called(v, u)
    BY <1>1, <2>1 DEF Called, Startable
  <2>3. u.running = {} /\ DOMAIN u.stops = {}
    BY <2>1 DEF Startable
  <2>4. SetUp(v, u)
    BY <2>1, <2>2, <2>3 DEF SetUp
  <2> QED
    BY <2>4 DEF u
<1> QED
  BY <1>2, <1>11, <1>12, <1>13

LEMMA SetUpKeeps ==
  ASSUME NEW v, Startable(v)
  PROVE  SetUp(v, monitor_setup(v))
<1> DEFINE s == v.sel
           t == DefaultGroups(s)
           b == [v EXCEPT !.sel = t]
<1>1. DOMAIN v = WorldFields /\ v.calls \in Nat /\ SelSound(s) /\ Suits(s, {v.iface})
  BY DEF Startable, Ready
<1>2. monitor_setup(v) = StartAll(b)
  BY DEF monitor_setup, Once
<1>3. PICK type \in {"core", "uncore"} :
        Grown(type, [ok |-> TRUE, sel |-> s], [ok |-> TRUE, sel |-> t])
  BY <1>1, DefaultsGrow
<1> HIDE DEF t
<1>4. SelSound(t) /\ Suits(t, {v.iface})
  <2> DEFINE old == [ok |-> TRUE, sel |-> s]
             new == [ok |-> TRUE, sel |-> t]
             mask == {v.iface}
  <2>1. old.sel = s /\ new.sel = t
    OBVIOUS
  <2>2. Grown(type, old, new)
    BY <1>3
  <2> HIDE DEF old, new
  <2>3. Suits(old.sel, mask)
    BY <1>1, <2>1
  <2> HIDE DEF mask
  <2>4. Suits(new.sel, mask)
    BY <2>2, <2>3, GrownSuits
  <2>5. SelSound(new.sel)
    BY <2>2 DEF Grown
  <2> QED
    BY <2>1, <2>4, <2>5 DEF mask
<1>5. DOMAIN b = WorldFields /\ b.sel = t /\ b.calls = v.calls /\ b.iface = v.iface
      /\ b.mask = v.mask /\ b.open = v.open /\ b.ok = v.ok /\ b.failed = v.failed
      /\ b.alien = v.alien /\ b.running = v.running /\ b.stops = v.stops
  BY <1>1 DEF WorldFields
<1> HIDE DEF b
<1>6. Startable(b) /\ Called(v, b)
  BY <1>1, <1>4, <1>5 DEF Startable, Ready, Called
<1>7. SetUp(b, StartAll(b))
  BY <1>6, AllStart
<1>8. SetUp(v, StartAll(b))
  BY <1>6, <1>7, CalledTwice DEF SetUp
<1> QED
  BY <1>2, <1>8

\* The end of monitoring: everything that runs is stopped.
LEMMA StopKeeps ==
  ASSUME NEW v, DOMAIN v = WorldFields, v.running \subseteq StartedGroups(v),
         \A i \in DOMAIN v.stops : v.stops[i] = 0
  PROVE  LET u == monitor_stop(v)
         IN /\ DOMAIN u = WorldFields /\ u.calls = v.calls /\ u.iface = v.iface
            /\ u.mask = v.mask /\ u.open = v.open /\ u.ok = v.ok /\ u.failed = v.failed
            /\ u.alien = v.alien
            /\ u.running = {} /\ \A i \in DOMAIN u.stops : u.stops[i] <= 1
<1> DEFINE x == StopAll(v)
           groups == [i \in DOMAIN x.sel.groups |-> [x.sel.groups[i] EXCEPT !.started = FALSE]]
           u == [x EXCEPT !.sel.groups = groups]
<1>1. monitor_stop(v) = u
  BY DEF monitor_stop
<1>2. /\ DOMAIN x = WorldFields /\ x.calls = v.calls /\ x.iface = v.iface
      /\ x.mask = v.mask /\ x.open = v.open /\ x.ok = v.ok /\ x.failed = v.failed
      /\ x.alien = v.alien
      /\ x.running = {} /\ \A i \in DOMAIN x.stops : x.stops[i] <= 1
  BY StoppingAll
<1> HIDE DEF x, groups
<1>3. /\ DOMAIN u = WorldFields /\ u.calls = x.calls /\ u.iface = x.iface
      /\ u.mask = x.mask /\ u.open = x.open /\ u.ok = x.ok /\ u.failed = x.failed
      /\ u.alien = x.alien /\ u.running = x.running /\ u.stops = x.stops
  BY <1>2 DEF WorldFields
<1> HIDE DEF u
<1> QED
  BY <1>1, <1>2, <1>3

-----------------------------------------------------------------------------
(* The utility, from its first option to its end. *)

\* The steps of opening a file keep its types.
LEMMA FilesTyped ==
  ASSUME OpenTypeOK, FilesInv,
         \/ UNCHANGED openVars
         \/ \E how \in Opener : BeginOpen(how)
         \/ EndOpen \/ OpenStep \/ Switch
  PROVE  OpenTypeOK'
<1> DEFINE Steps == {"idle", "lstat", "open", "again", "fstat", "end"}
           Proper(o) == /\ o.how \in Opener \cup {"none"} /\ o.step \in Steps /\ o.saw \in Entry
                       /\ o.new_file \in BOOLEAN /\ o.fd \in File \cup {NoFile}
<1>1. /\ entry \in Entry /\ denoted \subseteq File /\ touched \subseteq File
      /\ switches \in 0 .. MaxSwitch /\ Proper(opening) /\ DOMAIN opening = OpenFields
  BY DEF OpenTypeOK, FilesInv, OpenShape
<1>2. ASSUME entry' \in Entry, denoted' \subseteq File, touched' \subseteq File,
             switches' \in 0 .. MaxSwitch, Proper(opening')
      PROVE  OpenTypeOK'
  BY <1>2 DEF OpenTypeOK
<1>3. Nothing \in Entry /\ \A e \in Entry : Itself(e) \subseteq File
  BY ItselfIs DEF Entry
<1>4. Proper([opening EXCEPT !.step = "end", !.fd = NoFile])
  BY <1>1 DEF OpenFields
<1>5. CASE UNCHANGED openVars
  BY <1>1, <1>2, <1>5 DEF openVars
<1>6. ASSUME NEW how \in Opener, BeginOpen(how)
      PROVE  OpenTypeOK'
  <2>1. Proper(opening')
    BY <1>3, <1>6 DEF BeginOpen, NotOpening
  <2>2. entry' \in Entry /\ denoted' \subseteq File /\ touched' = {} /\ switches' = 0
    BY <1>3, <1>6 DEF BeginOpen
  <2> HIDE DEF Proper
  <2> QED
    BY <1>2, <2>1, <2>2, SwitchAssumption
<1>7. CASE EndOpen
  <2>1. Proper(opening')
    BY <1>3, <1>7 DEF EndOpen, NotOpening
  <2> HIDE DEF Proper
  <2> QED
    BY <1>1, <1>2, <1>7, <2>1 DEF EndOpen
<1>8. CASE Lstat
  <2>1. Proper([opening EXCEPT !.step = "open", !.saw = entry, !.new_file = entry = Nothing])
    BY <1>1 DEF OpenFields
  <2> HIDE DEF Proper
  <2>2. Proper(opening')
    BY <1>4, <1>8, <2>1 DEF Lstat, Refuse
  <2> QED
    BY <1>1, <1>2, <1>8, <2>2 DEF Lstat
<1>9. CASE Open
  <2>1. CASE Refuse /\ UNCHANGED <<entry, denoted, touched>>
    <3>1. Proper(opening')
      BY <1>4, <2>1 DEF Refuse
    <3> HIDE DEF Proper
    <3> QED
      BY <1>1, <1>2, <1>9, <2>1, <3>1 DEF Open
  <2>2. CASE ~(Refuse /\ UNCHANGED <<entry, denoted, touched>>)
    <3>1. PICK f \in IF entry = Nothing THEN File \ denoted ELSE {entry.file} :
            /\ entry' = IF entry = Nothing THEN Plain(f) ELSE entry
            /\ opening' = [opening EXCEPT
                             !.fd = f,
                             !.step = IF opening.new_file THEN "again" ELSE "fstat"]
            /\ denoted' = denoted \cup Itself(entry')
            /\ touched' = touched \cup {f}
      BY <1>9, <2>2 DEF Open
    <3>2. f \in File
      BY <1>1, <3>1, ItselfIs
    <3>3. entry' \in Entry
      BY <1>1, <3>1, <3>2, PlainIs
    <3>4. Proper(opening')
      BY <1>1, <3>1, <3>2 DEF OpenFields
    <3> HIDE DEF Proper
    <3>5. switches' = switches
      BY <1>9 DEF Open
    <3> QED
      BY <1>1, <1>2, <1>3, <3>1, <3>2, <3>3, <3>4, <3>5
  <2> QED
    BY <2>1, <2>2
<1>10. CASE LstatAgain
  <2>1. Proper([opening EXCEPT !.step = "fstat", !.saw = entry])
    BY <1>1 DEF OpenFields
  <2> HIDE DEF Proper
  <2>2. Proper(opening')
    BY <1>4, <1>10, <2>1 DEF LstatAgain, Refuse
  <2> QED
    BY <1>1, <1>2, <1>10, <2>2 DEF LstatAgain
<1>11. CASE Fstat
  <2>1. Proper([opening EXCEPT !.step = "end"])
    BY <1>1 DEF OpenFields
  <2> HIDE DEF Proper
  <2>2. Proper(opening')
    BY <1>4, <1>11, <2>1 DEF Fstat, Refuse
  <2> QED
    BY <1>1, <1>2, <1>11, <2>2 DEF Fstat
<1>12. CASE Switch
  <2>1. entry' \in Entry /\ denoted' \subseteq File
    BY <1>1, <1>3, <1>12 DEF Switch
  <2>2. switches' \in 0 .. MaxSwitch /\ touched' = touched /\ opening' = opening
    BY <1>1, <1>12, SwitchAssumption DEF Switch
  <2> HIDE DEF Proper
  <2> QED
    BY <1>1, <1>2, <2>1, <2>2
<1> QED
  BY <1>5, <1>6, <1>7, <1>8, <1>9, <1>10, <1>11, <1>12 DEF OpenStep

\* Nothing was sent where it does not belong.
Regular(v) ==
  /\ DOMAIN v = WorldFields /\ v.calls \in Nat /\ ~v.alien
  /\ v.iface \in Interface \cup {"AUTO"} /\ v.mask \subseteq Interface

\* The interface is settled, but for what AUTO will be.
Settled(v) == Chosen(v) /\ Suits(v.sel, IF v.iface = "AUTO" THEN Interface ELSE {v.iface})

\* The library is open and what was selected suits the interface.
Opened(v) == Regular(v) /\ Startable(v)

\* Groups are monitored.
Watching(v) ==
  Regular(v) /\ v.running \subseteq StartedGroups(v) /\ \A i \in DOMAIN v.stops : v.stops[i] = 0

\* No group is monitored, and none was stopped twice.
Over(v) == Regular(v) /\ v.running = {} /\ \A i \in DOMAIN v.stops : v.stops[i] <= 1

OptionPhase == {"options", "config", "resolve"}
SettledPhase == {"check", "log", "init"}
OpenPhase == {"caps", "version", "reset_mon", "reset_alloc", "print", "alloc", "after_alloc",
              "setup", "output", "start"}
LoopPhase == {"poll", "timer", "stop"}
EndPhase == {"fini", "cleanup", "done"}

\* What holds of the world and of the exit code in each phase.
WorldInv(p, v, code) ==
  /\ p \in OptionPhase => Chosen(v) /\ v.ok
  /\ p \in SettledPhase => Settled(v) /\ v.ok
  /\ p \in OpenPhase => Opened(v)
  /\ p \in LoopPhase => Watching(v)
  /\ p \in EndPhase => Over(v)
  /\ p \in {"cleanup", "done"} => ~v.open
  /\ p \in {"caps", "version"} => ~v.failed
  /\ v.failed => code = Failure

LoopFields == {"runtime", "first", "overflows"}

MainInv ==
  /\ pc \in Phase /\ argv \in CommandLines /\ optind \in 0 .. Len(argv)
  /\ platform \in Platforms /\ exit_val \in {Success, Failure} /\ stop \in BOOLEAN
  /\ DOMAIN loop = LoopFields /\ loop.overflows \in 0 .. MaxOverflow
  /\ pc = "config" => optind < Len(argv) /\ Options[argv[optind + 1]].opt = "-f"

ToolInv == MainInv /\ WorldInv(pc, w, exit_val) /\ OpenTypeOK /\ FilesInv

LEMMA PhasesAre ==
  /\ Phase = OptionPhase \cup SettledPhase \cup OpenPhase \cup LoopPhase \cup EndPhase
  /\ \A p \in OptionPhase : p \notin SettledPhase \cup OpenPhase \cup LoopPhase \cup EndPhase
  /\ \A p \in SettledPhase : p \notin OpenPhase \cup LoopPhase \cup EndPhase
  /\ \A p \in OpenPhase : p \notin LoopPhase \cup EndPhase
  /\ \A p \in LoopPhase : p \notin EndPhase
  BY DEF Phase, OptionPhase, SettledPhase, OpenPhase, LoopPhase, EndPhase

LEMMA ChosenRegular ==
  ASSUME NEW v, Chosen(v)
  PROVE  Regular(v) /\ Over(v) /\ ~v.open /\ ~v.failed
  BY DEF Chosen, Regular, Over

LEMMA OpenedOver ==
  ASSUME NEW v, Opened(v)
  PROVE  Over(v)
  BY DEF Opened, Startable, Over

\* In each phase the world is regular.
LEMMA WorldRegular ==
  ASSUME NEW p \in Phase, NEW v, NEW code, WorldInv(p, v, code)
  PROVE  Regular(v)
<1>1. CASE p \in OptionPhase
  BY <1>1, ChosenRegular DEF WorldInv
<1>2. CASE p \in SettledPhase
  BY <1>2, ChosenRegular DEF WorldInv, Settled
<1>3. CASE p \in OpenPhase
  BY <1>3 DEF WorldInv, Opened
<1>4. CASE p \in LoopPhase
  BY <1>4 DEF WorldInv, Watching
<1>5. CASE p \in EndPhase
  BY <1>5 DEF WorldInv, Over
<1> QED
  BY <1>1, <1>2, <1>3, <1>4, <1>5, PhasesAre

\* How the phases are entered.
LEMMA EnterOptions ==
  ASSUME NEW p \in OptionPhase, NEW v, NEW code, Chosen(v), v.ok
  PROVE  WorldInv(p, v, code)
  BY ChosenRegular, PhasesAre DEF WorldInv, OptionPhase

LEMMA EnterSettled ==
  ASSUME NEW p \in SettledPhase, NEW v, NEW code, Settled(v), v.ok
  PROVE  WorldInv(p, v, code)
  BY ChosenRegular, PhasesAre DEF WorldInv, Settled, SettledPhase

LEMMA EnterOpen ==
  ASSUME NEW p \in OpenPhase, NEW v, NEW code, Opened(v), v.failed => code = Failure,
         p \in {"caps", "version"} => ~v.failed
  PROVE  WorldInv(p, v, code)
  BY PhasesAre DEF WorldInv, OpenPhase

LEMMA EnterLoop ==
  ASSUME NEW p \in LoopPhase, NEW v, NEW code, Watching(v), v.failed => code = Failure
  PROVE  WorldInv(p, v, code)
  BY PhasesAre DEF WorldInv, LoopPhase

LEMMA EnterEnd ==
  ASSUME NEW p \in EndPhase, NEW v, NEW code, Over(v), v.failed => code = Failure,
         p # "fini" => ~v.open
  PROVE  WorldInv(p, v, code)
  BY PhasesAre DEF WorldInv, EndPhase

\* Before the library is open the utility can leave at once.
LEMMA EnterQuit ==
  ASSUME NEW v, NEW code, Chosen(v)
  PROVE  WorldInv("done", v, code) /\ WorldInv("cleanup", v, code)
  BY ChosenRegular, EnterEnd DEF EndPhase

\* With the library open it leaves through pqos_fini().
LEMMA EnterLeave ==
  ASSUME NEW v, NEW code, Over(v), v.failed => code = Failure
  PROVE  WorldInv("fini", v, code)
  BY EnterEnd DEF EndPhase

-----------------------------------------------------------------------------
(* The steps of main. *)

LEMMA InOptions ==
  ASSUME ToolInv, pc \in OptionPhase
  PROVE  Chosen(w) /\ w.ok
  BY DEF ToolInv, WorldInv

LEMMA InSettled ==
  ASSUME ToolInv, pc \in SettledPhase
  PROVE  Settled(w) /\ w.ok /\ Chosen(w) /\ ~w.failed
  BY ChosenRegular DEF ToolInv, WorldInv, Settled

LEMMA InOpen ==
  ASSUME ToolInv, pc \in OpenPhase
  PROVE  Opened(w) /\ w.ok /\ Over(w) /\ (w.failed => exit_val = Failure)
  BY OpenedOver DEF ToolInv, WorldInv, Opened, Startable

\* The option that is read next is one of the options.
LEMMA NextOption == ASSUME ToolInv, optind < Len(argv) PROVE argv[optind + 1] \in DOMAIN Options
<1>1. argv \in Seq(DOMAIN Options) /\ optind \in Nat
  BY LinesAssumption DEF ToolInv, MainInv
<1>2. optind + 1 \in 1 .. Len(argv)
  BY <1>1
<1> QED
  BY <1>1, <1>2, SequenceMembers

LEMMA ReadsOption == ASSUME ToolInv, ReadOption PROVE WorldInv(pc', w', exit_val')
<1> DEFINE i == argv[optind + 1]
           u == Handle(w, Options[i])
<1>1. Chosen(w) /\ w.ok /\ pc = "options" /\ "options" \in OptionPhase
  BY InOptions DEF ReadOption, OptionPhase
<1>2. i \in DOMAIN Options
  BY NextOption DEF ReadOption
<1>3. Options[i].opt # "-f"
  BY DEF ReadOption
<1>4. \/ u.ok /\ w' = u /\ pc' = pc
      \/ pc' = "done" /\ w' = w
  BY DEF ReadOption, Quit, Goto
<1>5. u.ok => Chosen(u)
  BY <1>1, <1>2, <1>3, OptionKeeps
<1> HIDE DEF u, i
<1>6. CASE u.ok /\ w' = u /\ pc' = pc
  BY <1>1, <1>5, <1>6, EnterOptions
<1>7. CASE pc' = "done" /\ w' = w
  BY <1>1, <1>7, EnterQuit
<1> QED
  BY <1>4, <1>6, <1>7

LEMMA OpensConfig == ASSUME ToolInv, OpenConfig PROVE WorldInv(pc', w', exit_val')
<1>1. Chosen(w) /\ w.ok /\ "config" \in OptionPhase /\ w' = w
  BY InOptions DEF OpenConfig, OptionPhase
<1>2. pc' = "done" \/ pc' = "config"
  BY DEF OpenConfig, Quit, Goto
<1> QED
  BY <1>1, <1>2, EnterOptions, EnterQuit

LEMMA ReadsConfig == ASSUME ToolInv, parse_config_file PROVE WorldInv(pc', w', exit_val')
<1> DEFINE i == argv[optind + 1]
           lines == Options[i].arg
           b == [w EXCEPT !.config = TRUE]
           u == ForEach(b, lines, LAMBDA v, j : Handle(v, Options[j]))
<1>1. Chosen(w) /\ w.ok /\ "options" \in OptionPhase
  BY InOptions DEF parse_config_file, OptionPhase
<1>2. \/ u.ok /\ w' = u /\ pc' = "options"
      \/ pc' = "done" /\ w' = w
  BY DEF parse_config_file, Quit, Goto
<1>3. i \in DOMAIN Options /\ Options[i].opt = "-f"
  BY NextOption DEF ToolInv, MainInv, parse_config_file
<1>4. lines \in Seq(DOMAIN Options) /\ \A j \in DOMAIN lines : Options[lines[j]].opt # "-f"
  BY <1>3, OptionsAssumption
<1>5. Chosen(b)
  BY <1>1, ChosenFlags
<1> HIDE DEF lines, b
<1>6. u.ok => Chosen(u)
  BY <1>4, <1>5, LinesKeep
<1> HIDE DEF u
<1>7. CASE u.ok /\ w' = u /\ pc' = "options"
  BY <1>1, <1>6, <1>7, EnterOptions
<1>8. CASE pc' = "done" /\ w' = w
  BY <1>1, <1>8, EnterQuit
<1> QED
  BY <1>2, <1>7, <1>8

LEMMA ReadsAll == ASSUME ToolInv, OptionsRead PROVE WorldInv(pc', w', exit_val')
<1>1. Chosen(w) /\ w.ok /\ "resolve" \in OptionPhase
  BY InOptions DEF OptionsRead, OptionPhase
<1> QED
  BY <1>1, EnterOptions DEF OptionsRead, Goto

\* The interface that is settled on is one that every option left.
LEMMA InterfaceSettled ==
  ASSUME NEW mask, mask \subseteq Interface, mask # {}, NEW user,
         iface_resolve(mask, user) # "error"
  PROVE  LET iface == iface_resolve(mask, user)
         IN /\ iface \in Interface \cup {"AUTO"}
            /\ (IF iface = "AUTO" THEN Interface ELSE {iface}) \subseteq mask
  BY DEF iface_resolve, Prefer, Interface

LEMMA FewerSuits ==
  ASSUME NEW s, NEW mask, Suits(s, mask), NEW fewer, fewer \subseteq mask
  PROVE  Suits(s, fewer)
  BY DEF Suits

LEMMA Resolves == ASSUME ToolInv, resolve_interface PROVE WorldInv(pc', w', exit_val')
<1>1. Chosen(w) /\ w.ok /\ DOMAIN w = WorldFields
  BY InOptions DEF resolve_interface, OptionPhase, Chosen
<1>2. PICK mask :
        /\ mask \subseteq w.mask
        /\ \/ pc' = "done" /\ w' = w
           \/ /\ mask # {} /\ iface_resolve(mask, w.user) # "error" /\ pc' = "check"
              /\ w' = [w EXCEPT !.iface = iface_resolve(mask, w.user)]
  <2>1. PICK known \in BOOLEAN :
         LET asked == w.user = "none" /\ w.mask # Interface
             mask == IF asked /\ known THEN w.mask \cap platform.avail ELSE w.mask
             iface == iface_resolve(mask, w.user)
         IN IF mask = {} \/ iface = "error" THEN Quit /\ UNCHANGED w
            ELSE Goto("check") /\ w' = [w EXCEPT !.iface = iface] /\ UNCHANGED exit_val
    BY DEF resolve_interface
  <2> DEFINE asked == w.user = "none" /\ w.mask # Interface
             mask == IF asked /\ known THEN w.mask \cap platform.avail ELSE w.mask
  <2>2. mask \subseteq w.mask
    OBVIOUS
  <2>3. IF mask = {} \/ iface_resolve(mask, w.user) = "error" THEN Quit /\ w' = w
        ELSE Goto("check") /\ w' = [w EXCEPT !.iface = iface_resolve(mask, w.user)]
    BY <2>1
  <2> HIDE DEF mask
  <2> QED
    BY <2>2, <2>3 DEF Quit, Goto
<1>3. CASE pc' = "done" /\ w' = w
  BY <1>1, <1>3, EnterQuit
<1>4. CASE /\ mask # {} /\ iface_resolve(mask, w.user) # "error" /\ pc' = "check"
           /\ w' = [w EXCEPT !.iface = iface_resolve(mask, w.user)]
  <2> DEFINE iface == iface_resolve(mask, w.user)
             left == IF iface = "AUTO" THEN Interface ELSE {iface}
             u == [w EXCEPT !.iface = iface]
  <2>1. w.mask \subseteq Interface /\ Suits(w.sel, w.mask)
    BY <1>1 DEF Chosen
  <2>2. iface \in Interface \cup {"AUTO"} /\ left \subseteq w.mask
    BY <1>2, <1>4, <2>1, InterfaceSettled
  <2> HIDE DEF iface
  <2>3. DOMAIN u = WorldFields /\ u.iface = iface /\ u.sel = w.sel /\ u.mask = w.mask
        /\ u.calls = w.calls /\ u.failed = w.failed /\ u.alien = w.alien /\ u.open = w.open
        /\ u.running = w.running /\ u.stops = w.stops /\ u.ok = w.ok
    BY <1>1 DEF WorldFields
  <2>4. w' = u /\ pc' = "check"
    BY <1>4 DEF iface
  <2> HIDE DEF u
  <2>5. Chosen(u)
    BY <1>1, <2>2, <2>3, ChosenSame
  <2>6. Suits(u.sel, left)
    BY <2>1, <2>2, <2>3, FewerSuits
  <2>7. Settled(u) /\ u.ok
    BY <1>1, <2>3, <2>5, <2>6 DEF Settled
  <2> QED
    BY <2>4, <2>7, EnterSettled DEF SettledPhase
<1> QED
  BY <1>2, <1>3, <1>4

LEMMA Checks == ASSUME ToolInv, CheckOptions \/ LogOpened PROVE WorldInv(pc', w', exit_val')
<1>1. Settled(w) /\ w.ok /\ Chosen(w) /\ w' = w /\ {"log", "init"} \subseteq SettledPhase
  BY InSettled DEF CheckOptions, LogOpened, SettledPhase
<1>2. pc' \in {"done", "log", "init", "cleanup"}
  BY DEF CheckOptions, LogOpened, Quit, Goto
<1> QED
  BY <1>1, <1>2, EnterSettled, EnterQuit

LEMMA OpenedSame ==
  ASSUME NEW v, Opened(v), NEW u, DOMAIN u = WorldFields, u.sel = v.sel, u.calls = v.calls,
         u.alien = v.alien, u.iface = v.iface, u.mask = v.mask, u.ok, u.running = v.running,
         u.stops = v.stops
  PROVE  Opened(u)
  BY DEF Opened, Regular, Startable, Ready

\* What allocation makes of an open library.
LEMMA OpenedApplying ==
  ASSUME NEW v, Opened(v), NEW u, Applying(v, u)
  PROVE  /\ Over(u) /\ Opened([u EXCEPT !.ok = TRUE])
         /\ u.ok => Opened(u)
         /\ u.failed => v.failed \/ ~u.ok
<1>1. /\ DOMAIN v = WorldFields /\ ~v.alien /\ v.iface \in Interface /\ v.mask \subseteq Interface
      /\ v.running = {} /\ v.stops = <<>>
  BY DEF Opened, Regular, Startable
<1>2. /\ DOMAIN u = WorldFields /\ u.calls \in Nat /\ u.iface = v.iface /\ u.mask = v.mask
      /\ (u.failed => v.failed \/ ~u.ok) /\ ~u.alien /\ SelSound(u.sel)
      /\ Suits(u.sel, {u.iface}) /\ u.running = {} /\ u.stops = <<>>
  BY <1>1 DEF Applying, Called
<1>3. Regular(u) /\ Over(u)
  BY <1>1, <1>2 DEF Regular, Over
<1> DEFINE x == [u EXCEPT !.ok = TRUE]
<1>4. /\ DOMAIN x = WorldFields /\ x.calls = u.calls /\ x.iface = u.iface /\ x.mask = u.mask
      /\ x.alien = u.alien /\ x.sel = u.sel /\ x.running = u.running /\ x.stops = u.stops
      /\ x.ok
  BY <1>2 DEF WorldFields
<1> HIDE DEF x
<1>5. Opened(x)
  BY <1>1, <1>2, <1>4 DEF Opened, Regular, Startable, Ready
<1>6. u.ok => Opened(u)
  BY <1>1, <1>2, <1>3 DEF Opened, Startable, Ready
<1> QED
  BY <1>2, <1>3, <1>5, <1>6 DEF x

\* A call every interface implements.
LEMMA OpenedCalls ==
  ASSUME NEW v, Opened(v), NEW op \in {"sysconfig", "mon_reset", "alloc_reset"}, NEW valid, NEW lib
  PROVE  Applying(v, Call(v, op, valid, lib))
<1>1. DOMAIN v = WorldFields /\ v.calls \in Nat /\ v.ok /\ v.iface \in Interface
      /\ SelSound(v.sel) /\ Suits(v.sel, {v.iface})
  BY DEF Opened, Startable, Ready
<1>2. Implementers(op) = Interface
  BY DEF Implementers, Interface
<1>3. Allocating(v, Call(v, op, valid, lib))
  BY <1>1, <1>2, CallKeeps
<1> QED
  BY <1>1, <1>3 DEF Applying, Allocating, Called

LEMMA Inits == ASSUME ToolInv, InitLibrary PROVE WorldInv(pc', w', exit_val')
<1>1. Settled(w) /\ w.ok /\ Chosen(w) /\ ~w.failed /\ DOMAIN w = WorldFields
  BY InSettled DEF InitLibrary, SettledPhase, Chosen
<1>2. PICK iface \in IF w.iface = "AUTO" THEN platform.avail ELSE {w.iface},
           fail \in 0 .. MaxFail :
        LET u == Call([w EXCEPT !.iface = iface, !.fail = fail], "init",
                      iface \in platform.avail, w.lib)
        IN IF u.ok THEN /\ Goto("caps") /\ w' = [u EXCEPT !.open = TRUE]
                        /\ UNCHANGED exit_val
           ELSE /\ Goto("cleanup") /\ w' = u /\ exit_val' = Failure
  BY DEF InitLibrary
<1> DEFINE b == [w EXCEPT !.iface = iface, !.fail = fail]
           valid == iface \in platform.avail
           lib == w.lib
           u == Call(b, "init", valid, lib)
           x == [u EXCEPT !.open = TRUE]
<1>3. \/ u.ok /\ pc' = "caps" /\ w' = x
      \/ ~u.ok /\ pc' = "cleanup" /\ w' = u /\ exit_val' = Failure
  BY <1>2 DEF Goto
<1>4. iface \in Interface /\ Suits(w.sel, {iface})
  <2>1. platform.avail \subseteq Interface
    BY PlatformsAssumption DEF ToolInv, MainInv
  <2>2. w.iface \in Interface \cup {"AUTO"}
    BY <1>1 DEF Chosen
  <2> DEFINE left == IF w.iface = "AUTO" THEN Interface ELSE {w.iface}
  <2>3. iface \in left /\ iface \in Interface
    BY <1>2, <2>1, <2>2
  <2>4. Suits(w.sel, left)
    BY <1>1 DEF Settled
  <2> HIDE DEF left
  <2> QED
    BY <2>3, <2>4, FewerSuits
<1>5. DOMAIN b = WorldFields /\ b.iface = iface /\ b.sel = w.sel /\ b.mask = w.mask
      /\ b.calls = w.calls /\ b.failed = w.failed /\ b.alien = w.alien /\ b.open = w.open
      /\ b.running = w.running /\ b.stops = w.stops /\ b.ok = w.ok
  BY <1>1 DEF WorldFields
<1> HIDE DEF b, valid, lib
<1>6. b.calls = 0 /\ ~b.failed /\ ~b.alien /\ ~b.open /\ b.running = {} /\ b.stops = <<>>
      /\ SelSound(b.sel) /\ b.mask \subseteq Interface
  BY <1>1, <1>5 DEF Chosen
<1>7. Implementers("init") = Interface
  BY DEF Implementers, Interface
<1>8. Allocating(b, u)
  <2>1. DOMAIN b = WorldFields /\ b.calls \in Nat /\ b.ok
    BY <1>1, <1>5, <1>6
  <2>2. b.iface \in Implementers("init")
    BY <1>4, <1>5, <1>7
  <2> QED
    BY <2>1, <2>2, CallKeeps
<1> HIDE DEF u
<1>9. /\ DOMAIN u = WorldFields /\ u.calls \in Nat /\ u.iface = iface /\ u.mask = w.mask
      /\ u.open = b.open /\ (u.failed => ~u.ok) /\ ~u.alien /\ u.sel = w.sel /\ u.running = {}
      /\ u.stops = <<>>
  BY <1>5, <1>6, <1>8 DEF Allocating, Called
<1>10. Regular(u) /\ Over(u)
  BY <1>4, <1>5, <1>6, <1>9 DEF Regular, Over
<1>11. CASE u.ok /\ pc' = "caps" /\ w' = x
  <2>1. /\ DOMAIN x = WorldFields /\ x.calls = u.calls /\ x.iface = u.iface /\ x.mask = u.mask
        /\ x.failed = u.failed /\ x.alien = u.alien /\ x.sel = u.sel /\ x.running = u.running
        /\ x.stops = u.stops /\ x.ok = u.ok
    BY <1>9 DEF WorldFields
  <2> HIDE DEF x
  <2>2. Opened(x) /\ ~x.failed
    BY <1>4, <1>5, <1>6, <1>9, <1>11, <2>1 DEF Opened, Regular, Startable, Ready
  <2> QED
    BY <1>11, <2>2, EnterOpen DEF OpenPhase
<1>12. CASE ~u.ok /\ pc' = "cleanup" /\ w' = u /\ exit_val' = Failure
  BY <1>6, <1>9, <1>10, <1>12, EnterEnd DEF EndPhase
<1> QED
  BY <1>3, <1>11, <1>12

LEMMA ReadsCaps == ASSUME ToolInv, ReadCaps PROVE WorldInv(pc', w', exit_val')
<1> DEFINE lib == w.lib
           u == Call(w, "sysconfig", TRUE, lib)
           x == [u EXCEPT !.caps = platform.caps, !.cdp = platform.cdp,
                          !.events = platform.events, !.ioevents = platform.ioevents]
<1>1. Opened(w)
  BY InOpen DEF ReadCaps, OpenPhase
<1>2. ~w.failed
  BY DEF ToolInv, WorldInv, ReadCaps
<1>3. \/ u.ok /\ pc' = "version" /\ w' = x
      \/ pc' = "fini" /\ w' = u /\ exit_val' = Failure
  BY DEF ReadCaps, Goto, Leave
<1> HIDE DEF lib
<1>4. Applying(w, u)
  BY <1>1, OpenedCalls
<1> HIDE DEF u
<1>5. Over(u) /\ (u.ok => Opened(u)) /\ (u.failed => ~u.ok)
  BY <1>1, <1>2, <1>4, OpenedApplying
<1>6. CASE u.ok /\ pc' = "version" /\ w' = x
  <2>1. DOMAIN u = WorldFields
    BY <1>5 DEF Over, Regular
  <2>2. /\ DOMAIN x = WorldFields /\ x.calls = u.calls /\ x.iface = u.iface /\ x.mask = u.mask
        /\ x.failed = u.failed /\ x.alien = u.alien /\ x.sel = u.sel /\ x.running = u.running
        /\ x.stops = u.stops /\ x.ok = u.ok
    BY <2>1 DEF WorldFields
  <2> HIDE DEF x
  <2>3. Opened(x) /\ ~x.failed
    BY <1>5, <1>6, <2>2, OpenedSame
  <2> QED
    BY <1>6, <2>3, EnterOpen DEF OpenPhase
<1>7. CASE pc' = "fini" /\ w' = u /\ exit_val' = Failure
  BY <1>5, <1>7, EnterLeave
<1> QED
  BY <1>3, <1>6, <1>7

LEMMA PrintsVersion == ASSUME ToolInv, PrintVersion PROVE WorldInv(pc', w', exit_val')
<1>1. Opened(w) /\ Over(w) /\ w' = w
  BY InOpen DEF PrintVersion, OpenPhase
<1>2. ~w.failed /\ pc' \in {"fini", "reset_mon"}
  BY DEF ToolInv, WorldInv, PrintVersion, Leave, Goto
<1> QED
  BY <1>1, <1>2, EnterOpen, EnterLeave DEF OpenPhase

\* A reset may fail, and is remembered.
LEMMA ResetKeeps ==
  ASSUME NEW u, NEW p \in {"reset_alloc", "print"},
         Applying(w, u) \/ u = w, Opened(w), w.failed => exit_val = Failure,
         pc' = p, w' = [u EXCEPT !.ok = TRUE], exit_val' = After(u, exit_val)
  PROVE  WorldInv(pc', w', exit_val')
<1> DEFINE x == [u EXCEPT !.ok = TRUE]
<1>1. DOMAIN w = WorldFields /\ Applying(w, w)
  <2>1. Ready(w) /\ Suits(w.sel, {w.iface})
    BY DEF Opened, Startable
  <2> QED
    BY <2>1, ProfileKeeps DEF Ready
<1>2. Applying(w, u)
  BY <1>1
<1>3. Opened(x) /\ Over(u) /\ (u.failed => w.failed \/ ~u.ok)
  BY <1>2, OpenedApplying
<1>4. x.failed = u.failed
  BY <1>3 DEF Over, Regular, WorldFields
<1> HIDE DEF x
<1>5. x.failed => exit_val' = Failure
  BY <1>3, <1>4 DEF After
<1>6. w' = x
  BY DEF x
<1> QED
  BY <1>3, <1>5, <1>6, EnterOpen DEF OpenPhase

LEMMA ResetsMonitoring == ASSUME ToolInv, ResetMonitoring PROVE WorldInv(pc', w', exit_val')
<1> DEFINE lib == w.lib
           u == IF "-r" \in w.flags /\ "mon" \in w.caps THEN Call(w, "mon_reset", TRUE, lib) ELSE w
<1>1. Opened(w) /\ (w.failed => exit_val = Failure)
  BY InOpen DEF ResetMonitoring, OpenPhase
<1>2. pc' = "reset_alloc" /\ w' = [u EXCEPT !.ok = TRUE] /\ exit_val' = After(u, exit_val)
  BY DEF ResetMonitoring, Goto
<1> HIDE DEF lib
<1>3. Applying(w, u) \/ u = w
  BY <1>1, OpenedCalls
<1> HIDE DEF u
<1> QED
  BY <1>1, <1>2, <1>3, ResetKeeps

LEMMA ResetsAllocation == ASSUME ToolInv, ResetAllocation PROVE WorldInv(pc', w', exit_val')
<1> DEFINE lib == AfterReset
           called == Call(w, "alloc_reset", TRUE, lib)
           cdp == CdpAfter(w)
           more == [called EXCEPT !.cdp = cdp]
           u == CASE "-R" \notin w.flags -> w
                  [] called.ok -> more
                  [] OTHER -> called
<1>1. Opened(w) /\ (w.failed => exit_val = Failure)
  BY InOpen DEF ResetAllocation, OpenPhase
<1>2. pc' = "print" /\ w' = [u EXCEPT !.ok = TRUE] /\ exit_val' = After(u, exit_val)
  BY DEF ResetAllocation, Goto
<1> HIDE DEF lib, cdp
<1>3. Applying(w, called)
  BY <1>1, OpenedCalls
<1> HIDE DEF called
<1>4. Applying(w, more)
  <2>1. DOMAIN called = WorldFields
    BY <1>3 DEF Applying, Called
  <2>2. /\ DOMAIN more = WorldFields /\ more.calls = called.calls /\ more.iface = called.iface
        /\ more.mask = called.mask /\ more.open = called.open /\ more.ok = called.ok
        /\ more.failed = called.failed /\ more.alien = called.alien /\ more.sel = called.sel
        /\ more.running = called.running /\ more.stops = called.stops
    BY <2>1 DEF WorldFields
  <2> HIDE DEF more
  <2> QED
    BY <1>3, <2>2 DEF Applying, Called
<1> HIDE DEF more
<1>5. Applying(w, u) \/ u = w
  BY <1>3, <1>4
<1> HIDE DEF u
<1> QED
  BY <1>1, <1>2, <1>5, ResetKeeps

LEMMA Prints == ASSUME ToolInv, PrintAndLeave PROVE WorldInv(pc', w', exit_val')
<1>1. Opened(w) /\ Over(w) /\ (w.failed => exit_val = Failure) /\ w' = w /\ exit_val' = exit_val
  BY InOpen DEF PrintAndLeave, OpenPhase
<1>2. pc' \in {"fini", "alloc"}
  BY DEF PrintAndLeave, Goto
<1> QED
  BY <1>1, <1>2, EnterOpen, EnterLeave DEF OpenPhase

LEMMA Allocates == ASSUME ToolInv, Allocate PROVE WorldInv(pc', w', exit_val')
<1> DEFINE profiled == IF "-c" \in w.flags THEN profile_l3ca_apply(w) ELSE w
           res == IF profiled.ok THEN alloc_apply(profiled)
                  ELSE [w |-> profiled, changed |-> FALSE]
           u == res.w
<1>1. Opened(w) /\ (w.failed => exit_val = Failure)
  BY InOpen DEF Allocate, OpenPhase
<1>2. /\ w' = u
      /\ \/ ~u.ok /\ pc' = "fini" /\ exit_val' = Failure
         \/ u.ok /\ pc' \in {"fini", "after_alloc"} /\ exit_val' = exit_val
  BY DEF Allocate, Leave, Goto
<1>3. Ready(w) /\ Suits(w.sel, {w.iface}) /\ w.iface \in Interface
  BY <1>1 DEF Opened, Startable
<1>4. Applying(w, profiled)
  BY <1>3, ProfileKeeps
<1> HIDE DEF profiled
<1>5. Ready(profiled) /\ Suits(profiled.sel, {profiled.iface}) /\ profiled.iface \in Interface
  BY <1>3, <1>4 DEF Applying, Called, Ready
<1>6. Allocating(profiled, alloc_apply(profiled).w)
  BY <1>5, AllocKeeps
<1>7. u \in {profiled, alloc_apply(profiled).w}
  OBVIOUS
<1>8. Applying(w, alloc_apply(profiled).w)
  <2> DEFINE x == alloc_apply(profiled).w
  <2> HIDE DEF x
  <2>1. Allocating(profiled, x)
    BY <1>6 DEF x
  <2>2. Called(w, x)
    BY <1>4, <2>1, CalledTwice DEF Applying, Allocating
  <2>3. x.sel = profiled.sel /\ x.iface = profiled.iface /\ x.running = profiled.running
        /\ x.stops = profiled.stops
    BY <2>1 DEF Allocating, Called
  <2>4. Applying(w, x)
    BY <1>4, <2>2, <2>3 DEF Applying
  <2> QED
    BY <2>4 DEF x
<1>9. Applying(w, u)
  BY <1>4, <1>7, <1>8
<1> HIDE DEF u
<1>10. Over(u) /\ (u.ok => Opened(u)) /\ (u.failed => w.failed \/ ~u.ok)
  BY <1>1, <1>9, OpenedApplying
<1> QED
  BY <1>1, <1>2, <1>10, EnterOpen, EnterLeave DEF OpenPhase

LEMMA GoesOn ==
  ASSUME ToolInv, AfterAllocation \/ SetUpMonitoring \/ OutputOpened
  PROVE  WorldInv(pc', w', exit_val')
<1>1. Opened(w) /\ Over(w) /\ (w.failed => exit_val = Failure) /\ w' = w
  BY InOpen DEF AfterAllocation, SetUpMonitoring, OutputOpened, OpenPhase
<1>2. /\ pc' \in {"fini", "setup", "output", "start"}
      /\ exit_val' \in {exit_val, Failure}
  BY DEF AfterAllocation, SetUpMonitoring, OutputOpened, Leave, Goto
<1> QED
  BY <1>1, <1>2, EnterOpen, EnterLeave DEF OpenPhase

LEMMA Starts == ASSUME ToolInv, StartMonitoring PROVE WorldInv(pc', w', exit_val')
<1> DEFINE u == monitor_setup(w)
<1>1. Opened(w) /\ (w.failed => exit_val = Failure)
  BY InOpen DEF StartMonitoring, OpenPhase
<1>2. \/ u.ok /\ pc' = "poll" /\ w' = u /\ exit_val' = exit_val
      \/ ~u.ok /\ pc' = "fini" /\ w' = u /\ exit_val' = Failure
  BY DEF StartMonitoring, Leave, Goto
<1>3. SetUp(w, u)
  BY <1>1, SetUpKeeps DEF Opened
<1> HIDE DEF u
<1>4. Regular(u) /\ (u.failed => w.failed \/ ~u.ok)
  BY <1>1, <1>3 DEF SetUp, Called, Opened, Regular
<1>5. u.ok => Watching(u)
  BY <1>3, <1>4 DEF SetUp, Watching
<1>6. ~u.ok => Over(u)
  BY <1>3, <1>4 DEF SetUp, Over
<1> QED
  BY <1>1, <1>2, <1>4, <1>5, <1>6, EnterLoop, EnterLeave DEF LoopPhase

-----------------------------------------------------------------------------
(* The loop and the end. *)

LEMMA Loops ==
  ASSUME ToolInv, LoopNotStarted \/ Poll \/ Timer \/ TimerAfterCtrlC
  PROVE  WorldInv(pc', w', exit_val')
<1>1. pc \in LoopPhase /\ pc' \in LoopPhase /\ w' = w /\ exit_val' = exit_val
  BY DEF LoopNotStarted, Poll, Timer, TimerAfterCtrlC, LoopKeep, LoopPhase, Goto
<1>2. Watching(w) /\ (w.failed => exit_val = Failure)
  BY <1>1 DEF ToolInv, WorldInv
<1> QED
  BY <1>1, <1>2, EnterLoop

LEMMA StopsAll == ASSUME ToolInv, StopMonitoring PROVE WorldInv(pc', w', exit_val')
<1> DEFINE u == monitor_stop(w)
<1>1. pc' = "fini" /\ w' = u /\ exit_val' = exit_val
  BY DEF StopMonitoring, Goto
<1>2. Watching(w) /\ (w.failed => exit_val = Failure)
  BY DEF ToolInv, WorldInv, StopMonitoring, LoopPhase
<1>3. /\ DOMAIN u = WorldFields /\ u.calls = w.calls /\ u.iface = w.iface
      /\ u.mask = w.mask /\ u.failed = w.failed /\ u.alien = w.alien
      /\ u.running = {} /\ \A i \in DOMAIN u.stops : u.stops[i] <= 1
  BY <1>2, StopKeeps DEF Watching, Regular
<1> HIDE DEF u
<1>4. Over(u)
  BY <1>2, <1>3 DEF Over, Watching, Regular
<1> QED
  BY <1>1, <1>2, <1>3, <1>4, EnterLeave

LEMMA Ends == ASSUME ToolInv, Fini \/ Cleanup PROVE WorldInv(pc', w', exit_val')
<1>1. Over(w) /\ (w.failed => exit_val = Failure) /\ exit_val' = exit_val
      /\ (pc = "cleanup" => ~w.open)
  BY DEF ToolInv, WorldInv, EndPhase, Fini, Cleanup
<1> DEFINE u == [w EXCEPT !.open = FALSE]
<1>2. /\ DOMAIN u = WorldFields /\ u.calls = w.calls /\ u.iface = w.iface
      /\ u.mask = w.mask /\ u.failed = w.failed /\ u.alien = w.alien
      /\ u.running = w.running /\ u.stops = w.stops /\ ~u.open
  BY <1>1 DEF Over, Regular, WorldFields
<1>3. \/ pc' = "cleanup" /\ w' = u
      \/ pc = "cleanup" /\ pc' = "done" /\ w' = w
  BY DEF Fini, Cleanup, Goto
<1> HIDE DEF u
<1>4. Over(u)
  BY <1>1, <1>2 DEF Over, Regular
<1> QED
  BY <1>1, <1>2, <1>3, <1>4, EnterEnd DEF EndPhase

\* A step of the utility, whatever becomes of its world.
LEMMA MainStep == ASSUME ToolInv, ToolStep \/ LoopStep \/ monitoring_ctrlc PROVE MainInv'
<1>1. /\ pc \in Phase /\ argv \in CommandLines /\ optind \in 0 .. Len(argv) /\ Len(argv) \in Nat
      /\ platform \in Platforms /\ exit_val \in {Success, Failure} /\ stop \in BOOLEAN
      /\ DOMAIN loop = LoopFields /\ loop.overflows \in 0 .. MaxOverflow
      /\ (pc = "config" => optind < Len(argv) /\ Options[argv[optind + 1]].opt = "-f")
  BY LinesAssumption, SequenceMembers DEF ToolInv, MainInv
<1>2. ASSUME pc' \in Phase, exit_val' \in {Success, Failure}, argv' = argv, platform' = platform,
             optind' \in 0 .. Len(argv), stop' \in BOOLEAN, DOMAIN loop' = LoopFields,
             loop'.overflows \in 0 .. MaxOverflow,
             pc' = "config" =>
               optind' < Len(argv) /\ Options[argv[optind' + 1]].opt = "-f"
      PROVE  MainInv'
  BY <1>1, <1>2 DEF MainInv
<1>3. ASSUME UNCHANGED <<argv, platform, loop, stop, optind>>, pc' \in Phase \ {"config"},
             exit_val' \in {Success, Failure}
      PROVE  MainInv'
  BY <1>1, <1>2, <1>3
<1>4. CASE ReadOption \/ parse_config_file
  <2>1. pc' \in {pc, "done", "options"} /\ (pc' = pc => pc # "config" \/ optind' = optind)
        /\ exit_val' \in {exit_val, Failure} /\ optind' \in {optind, optind + 1}
        /\ UNCHANGED <<argv, platform, loop, stop>>
    BY <1>4 DEF ReadOption, parse_config_file, Quit, Goto, Keep
  <2>2. optind < Len(argv)
    BY <1>1, <1>4 DEF ReadOption, parse_config_file
  <2>3. optind' \in 0 .. Len(argv)
    BY <1>1, <2>1, <2>2
  <2>4. pc' \in Phase
    BY <1>1, <2>1 DEF Phase
  <2> QED
    BY <1>1, <1>2, <2>1, <2>3, <2>4
<1>5. CASE OpenConfig
  <2>1. pc' \in {"config", "done"} /\ exit_val' \in {exit_val, Failure} /\ optind' = optind
        /\ UNCHANGED <<argv, platform, loop, stop>>
        /\ optind < Len(argv) /\ Options[argv[optind + 1]].opt = "-f"
    BY <1>5 DEF OpenConfig, Quit, Goto, Keep
  <2> QED
    BY <1>1, <1>2, <2>1 DEF Phase
<1>6. CASE OptionsRead \/ resolve_interface \/ CheckOptions \/ LogOpened \/ InitLibrary
  BY <1>1, <1>3, <1>6 DEF OptionsRead, resolve_interface, CheckOptions, LogOpened, InitLibrary,
     Quit, Goto, Keep, Phase
<1>7. CASE ReadCaps \/ PrintVersion \/ ResetMonitoring \/ ResetAllocation \/ PrintAndLeave
  BY <1>1, <1>3, <1>7 DEF ReadCaps, PrintVersion, ResetMonitoring, ResetAllocation,
     PrintAndLeave, Leave, After, Goto, Keep, Phase, Success, Failure
<1>8. CASE \/ Allocate \/ AfterAllocation \/ SetUpMonitoring \/ OutputOpened \/ StartMonitoring
  BY <1>1, <1>3, <1>8 DEF Allocate, AfterAllocation, SetUpMonitoring, OutputOpened,
     StartMonitoring, Leave, Goto, Keep, Phase
<1>9. CASE OpeningFile
  BY <1>1, <1>2, <1>9 DEF OpeningFile, toolVars
<1>10. CASE LoopStep \/ monitoring_ctrlc
  <2>1. /\ pc' \in {pc, "poll", "timer", "stop", "fini", "cleanup", "done"}
        /\ (pc' = pc => pc \in {"poll", "timer"})
        /\ UNCHANGED <<argv, optind, platform, exit_val>>
    BY <1>10 DEF LoopStep, LoopNotStarted, Poll, Timer, TimerAfterCtrlC, StopMonitoring, Fini,
       Cleanup, monitoring_ctrlc, Goto, Keep, LoopKeep
  <2>2. stop' \in {stop, TRUE}
    BY <1>10 DEF LoopStep, LoopNotStarted, Poll, Timer, TimerAfterCtrlC, StopMonitoring, Fini,
       Cleanup, monitoring_ctrlc, Keep, LoopKeep
  <2>3. \/ loop' = loop
        \/ loop' = [loop EXCEPT !.first = FALSE]
        \/ loop.overflows < MaxOverflow /\ loop' = [loop EXCEPT !.overflows = @ + 1]
        \/ \E n \in Nat : loop' = [loop EXCEPT !.runtime = Runtime(w.sel, loop, n)]
    BY <1>10 DEF LoopStep, LoopNotStarted, Poll, Timer, TimerAfterCtrlC, StopMonitoring, Fini,
       Cleanup, monitoring_ctrlc, Keep, LoopKeep
  <2>4. DOMAIN loop' = LoopFields /\ loop'.overflows \in 0 .. MaxOverflow
    <3>1. loop'.overflows = loop.overflows
          \/ (loop.overflows < MaxOverflow /\ loop'.overflows = loop.overflows + 1)
      BY <1>1, <2>3 DEF LoopFields
    <3>2. DOMAIN loop' = LoopFields
      BY <1>1, <2>3
    <3> QED
      BY <1>1, <3>1, <3>2, OverflowAssumption
  <2>5. pc' \in Phase \ {"config"}
    BY <1>1, <2>1 DEF Phase
  <2> QED
    BY <1>1, <1>2, <2>1, <2>2, <2>4, <2>5
<1> QED
  BY <1>4, <1>5, <1>6, <1>7, <1>8, <1>9, <1>10 DEF ToolStep

LEMMA WorldStep ==
  ASSUME ToolInv, ToolStep \/ LoopStep \/ monitoring_ctrlc
  PROVE  WorldInv(pc', w', exit_val')
<1>1. CASE UNCHANGED <<w, exit_val>> /\ pc' = pc
  BY <1>1 DEF ToolInv
<1>2. OpeningFile \/ monitoring_ctrlc => UNCHANGED <<w, exit_val>> /\ pc' = pc
  BY DEF OpeningFile, monitoring_ctrlc, toolVars
<1> QED
  BY <1>1, <1>2, ReadsOption, OpensConfig, ReadsConfig, ReadsAll, Resolves, Checks, Inits,
     ReadsCaps, PrintsVersion, ResetsMonitoring, ResetsAllocation, Prints, Allocates, GoesOn,
     Starts, Loops, StopsAll, Ends DEF ToolStep, LoopStep

\* Each step opens a file, goes on opening one, or has nothing to do with files.
LEMMA FileStep ==
  ASSUME [Next]_vars
  PROVE  \/ UNCHANGED openVars
         \/ \E how \in Opener : BeginOpen(how)
         \/ EndOpen \/ OpenStep \/ Switch
<1>1. {"safe_open", "safe_fopen", "safe_fopen_r"} \subseteq Opener
  BY DEF Opener
<1> QED
  BY <1>1 DEF Next, ToolStep, LoopStep, ReadOption, OpenConfig, parse_config_file, OptionsRead,
     resolve_interface, CheckOptions, LogOpened, InitLibrary, ReadCaps, PrintVersion,
     ResetMonitoring, ResetAllocation, PrintAndLeave, Allocate, AfterAllocation,
     SetUpMonitoring, OutputOpened, StartMonitoring, OpeningFile, LoopNotStarted, Poll,
     Timer, TimerAfterCtrlC, StopMonitoring, Fini, Cleanup, LoopKeep, monitoring_ctrlc,
     OthersSwitch, Ended, Quiet, vars

\* At the start nothing is chosen, and everything suits.
LEMMA ToolStarts == Init => MainInv /\ WorldInv(pc, w, exit_val) /\ OpenTypeOK
<1> SUFFICES ASSUME Init PROVE MainInv /\ WorldInv(pc, w, exit_val) /\ OpenTypeOK
  OBVIOUS
<1>1. MainInv
  <2>1. Len(argv) \in Nat /\ argv \in CommandLines
    BY LinesAssumption, SequenceMembers DEF Init
  <2>2. 0 \in 0 .. Len(argv) /\ 0 \in 0 .. MaxOverflow
    BY <2>1, OverflowAssumption
  <2>3. pc = "options" /\ optind = 0 /\ platform \in Platforms /\ exit_val = Success
        /\ stop = FALSE /\ loop.overflows = 0 /\ DOMAIN loop = LoopFields
    BY DEF Init, LoopFields
  <2> QED
    BY <2>1, <2>2, <2>3 DEF MainInv, Phase
<1>2. Chosen(w) /\ w.ok
  <2> DEFINE s == NothingSelected
  <2>1. DOMAIN s = SelFields /\ s.alloc_opts = <<>> /\ s.domains = <<>> /\ s.core_tab = <<>>
        /\ s.pid_tab = <<>> /\ s.chan_tab = <<>> /\ s.dev_tab = <<>> /\ s.groups = <<>>
    BY DEF NothingSelected, NoAllocSelected, NoMonSelected, SelFields
  <2>2. w.sel = s /\ DOMAIN w = WorldFields /\ w.mask = Interface /\ w.iface = "AUTO"
        /\ w.calls = 0 /\ w.failed = FALSE /\ w.alien = FALSE /\ w.open = FALSE
        /\ w.running = {} /\ w.stops = <<>> /\ w.ok = TRUE
    BY DEF Init, WorldFields
  <2> HIDE DEF s
  <2>3. SelSound(s)
    <3>1. <<>> \in Seq(ClassDef) /\ Listing(<<>>)
      BY DEF Listing
    <3>2. DOMAIN s.groups = {}
      BY <2>1
    <3> QED
      BY <2>1, <3>1, <3>2 DEF SelSound
  <2>4. Suits(s, Interface)
    BY <2>1 DEF Suits, TypesIn
  <2> QED
    BY <2>2, <2>3, <2>4 DEF Chosen
<1>3. WorldInv(pc, w, exit_val)
  BY <1>2, EnterOptions DEF Init, OptionPhase
<1>4. OpenTypeOK
  BY SwitchAssumption DEF Init, OpenInit, OpenTypeOK, NotOpening, Nothing, Entry, Opener
<1> QED
  BY <1>1, <1>3, <1>4

\* However the utility ends - by itself, by Ctrl-C, by a timeout or by an error
\* anywhere on the way, for every command line, every configuration file, every
\* platform and whichever call of the library fails - no association and no start
\* was sent to an interface that has no such function, the library is closed, no
\* group is left running and none was stopped twice, and the exit code admits
\* every failure of the library before the loop.
THEOREM UtilityEndsClean == Spec => []EndsClean
<1>1. Init => ToolInv
  <2>1. Init => FilesInv
    BY NotOpeningIs, NoFileAssumption
       DEF Init, OpenInit, FilesInv, OpenShape, Recorded, Looked, LookedAgain, Closed,
           OpenedByName, LinkNotFollowed, Itself, Entry, Nothing, Plain
  <2> QED
    BY <2>1, ToolStarts DEF ToolInv
<1>2. ToolInv /\ [Next]_vars => ToolInv'
  <2> SUFFICES ASSUME ToolInv, [Next]_vars PROVE ToolInv'
    OBVIOUS
  <2>1. OpenTypeOK' /\ FilesInv'
    BY FileStep, FilesTyped, FilesStep DEF ToolInv
  <2>2. CASE ToolStep \/ LoopStep \/ monitoring_ctrlc
    BY <2>1, <2>2, MainStep, WorldStep DEF ToolInv
  <2>3. CASE UNCHANGED toolVars
    <3>1. MainInv'
      BY <2>3 DEF ToolInv, MainInv, toolVars
    <3>2. WorldInv(pc', w', exit_val')
      BY <2>3 DEF ToolInv, toolVars
    <3> QED
      BY <2>1, <3>1, <3>2 DEF ToolInv
  <2> QED
    BY <2>2, <2>3 DEF Next, OthersSwitch, Ended, vars
<1>3. ToolInv => EndsClean
  <2> SUFFICES ASSUME ToolInv PROVE EndsClean
    OBVIOUS
  <2>1. Regular(w) /\ MainInv /\ OpenTypeOK
    BY WorldRegular DEF ToolInv, MainInv
  <2>2. w.running \subseteq DOMAIN w.sel.groups
    <3>1. pc \in Phase /\ WorldInv(pc, w, exit_val)
      BY DEF ToolInv, MainInv
    <3>2. pc \in LoopPhase => w.running \subseteq StartedGroups(w)
      BY <3>1 DEF WorldInv, Watching
    <3>3. pc \notin LoopPhase => w.running = {}
      BY <3>1, PhasesAre DEF WorldInv, Chosen, Settled, Opened, Startable, Over
    <3> QED
      BY <3>2, <3>3 DEF StartedGroups
  <2>3. TypeOK
    BY <2>1, <2>2 DEF TypeOK, MainInv, Regular
  <2>4. InterfaceFits
    BY <2>1 DEF InterfaceFits, Regular
  <2>5. ExitHonest
    BY DEF ToolInv, WorldInv, ExitHonest, Success, Failure
  <2>6. GroupsStopped
    BY DEF ToolInv, WorldInv, GroupsStopped, EndPhase, Over
  <2> QED
    BY <2>3, <2>4, <2>5, <2>6 DEF EndsClean
<1> QED
  BY <1>1, <1>2, <1>3, PTL DEF Spec

=============================================================================
