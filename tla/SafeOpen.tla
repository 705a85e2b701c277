------------------------------ MODULE SafeOpen ------------------------------
(***************************************************************************)
(* Opening a file by name while others change the name: safe_open and      *)
(* safe_fopen of pqos/common.c.                                            *)
(* Each call looks at the name (lstat), opens it, and compares what it got *)
(* (fstat) with what it had looked at.  Between any two of these steps     *)
(* another process may put another file, a symbolic link or nothing in the *)
(* name's place.                                                           *)
(***************************************************************************)
EXTENDS Integers, Sequences, FiniteSets

CONSTANTS
  File,        \* the files there are, or may be, on the system
  MaxSwitch,   \* how often the name changes hands during one call
  NoFile       \* the name denotes nothing

ASSUME SwitchAssumption == MaxSwitch \in Nat
ASSUME NoFileAssumption == NoFile \notin File

\* What the name denotes: a file, a link to a file, or nothing.
Plain(f) == [link |-> FALSE, file |-> f]
Link(f) == [link |-> TRUE, file |-> f]
Nothing == Plain(NoFile)
Entry == {Plain(f) : f \in File} \cup {Link(f) : f \in File} \cup {Nothing}

\* safe_open with O_CREAT, and safe_fopen for writing and for reading: in mode
\* "r" a missing file is not created.
Opener == {"safe_open", "safe_fopen", "safe_fopen_r"}
Creates(how) == how \in {"safe_open", "safe_fopen"}

VARIABLES
  entry,    \* what the name denotes now
  opening,  \* the call in progress: the function, its step, what it looked
            \* at, whether the name was free then, what it has open
  denoted,  \* the files the name itself denoted at some time during the call
  touched,  \* the files the call has created or opened
  switches  \* how often the name has changed hands during the call

openVars == <<entry, opening, denoted, touched, switches>>

NotOpening == [how |-> "none", step |-> "idle", saw |-> Nothing,
               new_file |-> FALSE, fd |-> NoFile]

OpenTypeOK ==
  /\ entry \in Entry
  /\ opening.how \in Opener \cup {"none"}
  /\ opening.step \in {"idle", "lstat", "open", "again", "fstat", "end"}
  /\ opening.saw \in Entry /\ opening.new_file \in BOOLEAN
  /\ opening.fd \in File \cup {NoFile}
  /\ denoted \subseteq File /\ touched \subseteq File
  /\ switches \in 0 .. MaxSwitch

OpenInit ==
  /\ entry = Nothing /\ opening = NotOpening
  /\ denoted = {} /\ touched = {} /\ switches = 0

Itself(e) == IF e.link \/ e.file = NoFile THEN {} ELSE {e.file}

-----------------------------------------------------------------------------
\* A call starts, whatever the name denotes by then.
BeginOpen(how) ==
  /\ opening.step = "idle"
  /\ \E e \in Entry :
       /\ entry' = e
       /\ denoted' = Itself(e)
  /\ opening' = [NotOpening EXCEPT !.how = how, !.step = "lstat"]
  /\ touched' = {} /\ switches' = 0

\* The call ends without a descriptor; one that was open is closed.
Refuse == opening' = [opening EXCEPT !.step = "end", !.fd = NoFile]

\* A missing name is fine, for a reader too; a link is refused by safe_open
\* only.
Lstat ==
  /\ opening.step = "lstat"
  /\ IF entry.link /\ opening.how = "safe_open"
     THEN Refuse
     ELSE opening' = [opening EXCEPT !.step = "open", !.saw = entry,
                                     !.new_file = entry = Nothing]
  /\ UNCHANGED <<entry, denoted, touched, switches>>

\* O_NOFOLLOW, and O_EXCL where the name was free.
MayOpen(o, e) ==
  o.how = "safe_open" => ~e.link /\ (o.new_file => e = Nothing)

\* Through the name, or the link in its place, to a file; it is created when
\* there is none and the call may create it.  A reader opens a file that has
\* appeared since.
Open ==
  /\ opening.step = "open"
  /\ IF MayOpen(opening, entry) /\ (entry = Nothing => Creates(opening.how))
     THEN \E f \in IF entry = Nothing THEN File \ denoted ELSE {entry.file} :
            /\ entry' = IF entry = Nothing THEN Plain(f) ELSE entry
            /\ opening' = [opening EXCEPT
                             !.fd = f,
                             !.step = IF opening.new_file THEN "again" ELSE "fstat"]
            /\ denoted' = denoted \cup Itself(entry')
            /\ touched' = touched \cup {f}
     ELSE Refuse /\ UNCHANGED <<entry, denoted, touched>>
  /\ UNCHANGED switches

\* A file that was not there is looked at under its name.
LstatAgain ==
  /\ opening.step = "again"
  /\ IF entry = Nothing THEN Refuse
     ELSE opening' = [opening EXCEPT !.step = "fstat", !.saw = entry]
  /\ UNCHANGED <<entry, denoted, touched, switches>>

M_SameFile(o) == o.saw.file = o.fd \/ o.new_file

\* Is what was opened what was looked at?
SameFile(o) == ~o.saw.link /\ o.saw.file = o.fd

Fstat ==
  /\ opening.step = "fstat"
  /\ IF SameFile(opening) THEN opening' = [opening EXCEPT !.step = "end"]
     ELSE Refuse
  /\ UNCHANGED <<entry, denoted, touched, switches>>

\* The caller has its answer.
EndOpen ==
  /\ opening.step = "end"
  /\ opening' = NotOpening
  /\ UNCHANGED <<entry, denoted, touched, switches>>

\* Another process changes what the name denotes.
Switch ==
  /\ opening.step \in {"open", "again", "fstat"}
  /\ switches < MaxSwitch
  /\ switches' = switches + 1
  /\ \E e \in Entry \ {entry} :
       /\ entry' = e
       /\ denoted' = denoted \cup Itself(e)
  /\ UNCHANGED <<opening, touched>>

OpenStep == Lstat \/ Open \/ LstatAgain \/ Fstat

-----------------------------------------------------------------------------
\* A descriptor is handed out only for a file that the name itself denoted
\* during the call, never for one that was reached through a link.
OpenedByName == opening.step = "end" /\ opening.fd # NoFile => opening.fd \in denoted

\* safe_open leaves alone every file the name did not itself denote: a link
\* put there between two steps creates or opens nothing.
LinkNotFollowed == opening.how = "safe_open" => touched \subseteq denoted

=============================================================================
