------------------------ MODULE PqosLifecycleProofs ------------------------
(***************************************************************************)
(* Theorems about PqosLifecycle, for any number of threads and domains, in *)
(* an application that calls pqos_fini() once for each pqos_init() that    *)
(* succeeded and on a machine where the lock file of a living process is   *)
(* not taken for stale.  Mode faults are allowed, except where said.       *)
(***************************************************************************)
EXTENDS PqosLifecycle, TLAPS

Disciplined == Faults \cap {"fini_off", "field"} = {}

\* The thread is between lock_get() and lock_release().
Holds(t) == at[t] \in Stages \cup {"check", "body", "release"}

\* What a thread does fits the call it is in; pqos_init() has its lock file.
PlaceOfOp ==
  \A t \in Thread :
    /\ at[t] = "idle" <=> op[t] = "none"
    /\ at[t] \in Stages => op[t] = "init"
    /\ at[t] = "body" => op[t] \in {"api", "fini"}
    /\ at[t] = "lock_fini" => op[t] \in {"init", "fini"}
    /\ at[t] \notin {"release", "lock_fini"} => ret[t] = "OK"
    /\ op[t] = "init" => lockfile

\* At most one thread opens or closes the library.
OneOpener ==
  \A t, u \in Thread :
    op[t] \in {"init", "fini"} /\ op[u] \in {"init", "fini"} => t = u

\* A usable mutex is taken while a thread holds it, and by one thread only.
HolderUnique ==
  mutex.usable =>
    /\ \A t \in Thread : Holds(t) => mutex.taken
    /\ \A t, u \in Thread : Holds(t) /\ Holds(u) => t = u

\* Once the mutex is destroyed the library is closed, and the threads that
\* are still about are API calls that will find it closed.
DestroyedMeansClosed ==
  ~mutex.usable =>
    /\ ~m_init_done
    /\ \A t \in Thread : op[t] \in {"none", "api"} /\ at[t] # "body"

\* When the library is known to be closed, and when to be open.
ClosedWhere ==
  \A t \in Thread :
    /\ op[t] = "init" /\ ~(at[t] = "release" /\ ret[t] = "OK") => ~m_init_done
    /\ op[t] = "fini" /\ at[t] \in {"release", "lock_fini"} => ~m_init_done
    /\ at[t] = "body" => m_init_done


-----------------------------------------------------------------------------
(***************************************************************************)
(* Type correctness.                                                       *)
(***************************************************************************)
LEMMA InitTyped == Init => TypeOK
<1> SUFFICES ASSUME Init PROVE TypeOK
  OBVIOUS
<1>1. mode \in [1 .. NumDomain -> Mode]
  BY DEF Init, Mode
<1>2. mutex \in [usable : BOOLEAN, taken : BOOLEAN]
  BY DEF Init
<1>3. /\ at \in [Thread -> Places]
      /\ op \in [Thread -> {"none", "init", "fini", "api"}]
      /\ iface \in [Thread -> Interface]
      /\ ret \in [Thread -> RetVal]
  BY DEF Init, Places, Interface, RetVal
<1> QED BY <1>1, <1>2, <1>3 DEF Init, TypeOK, Interface

\* A stage is followed by a stage.
LEMMA NextStageIsStage ==
  ASSUME NEW i, NEW s \in Stages
  PROVE  NextStage(i, s) \in Stages
  BY DEF NextStage, Stages

LEMMA NextTyped == TypeOK /\ [Next]_vars => TypeOK'
<1> SUFFICES ASSUME TypeOK, [Next]_vars PROVE TypeOK'
  OBVIOUS
<1> USE DomainAssumption
<1>1. ASSUME NEW t \in Thread, NEW s \in Stages, NEW i, Fail(t, s, i) PROVE TypeOK'
  BY <1>1 DEF TypeOK, Fail, Goto, Places, RetVal, lock
<1>2. ASSUME NEW t \in Thread, NEW s \in Stages, StageOk(t, s) PROVE TypeOK'
  <2>1. NextStage(iface[t], s) \in Places
    BY NextStageIsStage DEF Places
  <2> QED BY <1>2, <2>1 DEF TypeOK, StageOk, Goto, lock
<1>3. ASSUME NEW t \in Thread, NEW s \in Stages, StageSkipped(t, s) PROVE TypeOK'
  <2>1. NextStage(iface[t], s) \in Places
    BY NextStageIsStage DEF Places
  <2> QED BY <1>3, <2>1 DEF TypeOK, StageSkipped, Goto, lock, Places, Stages
<1>4. ASSUME NEW t \in Thread, SelectInterface(t) PROVE TypeOK'
  <2>1. PICK requested \in Interface \cup {"AUTO"}, env \in Interface \cup {"unset", "invalid"} :
          \/ Fail(t, "interface", iface[t])
          \/ \E i \in discover_interface(requested, env) :
               /\ Goto(t, "interface", "cpuinfo")
               /\ iface' = [iface EXCEPT ![t] = i]
               /\ UNCHANGED <<library, lock, op, ret>>
    BY <1>4 DEF SelectInterface
  <2>2. discover_interface(requested, env) \subseteq Interface
    BY <2>1 DEF discover_interface, Interface
  <2>3. CASE Fail(t, "interface", iface[t])
    BY <1>1, <2>3 DEF Stages
  <2>4. ASSUME NEW i \in Interface, Goto(t, "interface", "cpuinfo"),
               iface' = [iface EXCEPT ![t] = i], UNCHANGED <<library, lock, op, ret>>
        PROVE  TypeOK'
    BY <2>4 DEF TypeOK, Goto, Places, Stages, library, lock
  <2> QED BY <2>1, <2>2, <2>3, <2>4
<1>5. ASSUME NEW t \in Thread, lock_get(t) PROVE TypeOK'
  BY <1>5 DEF TypeOK, lock_get, Goto, Places, Stages, library, lock
<1>6. ASSUME NEW t \in Thread, Take(t) PROVE TypeOK'
  BY <1>6 DEF TypeOK, Take, Goto, Places, Stages, library
<1>7. ASSUME NEW t \in Thread, lock_release(t) PROVE TypeOK'
  BY ZenonT(30), <1>7 DEF TypeOK, lock_release, Goto, Places, Stages, library, Return, Interface, RetVal
<1>8. ASSUME NEW t \in Thread, lock_fini(t) PROVE TypeOK'
  BY <1>8 DEF TypeOK, lock_fini, Goto, Places, Stages, library, Return, Interface, RetVal
<1>9. ASSUME NEW t \in Thread, InitCheck(t) PROVE TypeOK'
  BY <1>9 DEF TypeOK, InitCheck, Goto, Places, Stages, lock, RetVal
<1>10. ASSUME NEW t \in Thread, api_init(t) PROVE TypeOK'
  BY <1>10 DEF TypeOK, api_init, Goto, Places, Stages, lock
<1>11. ASSUME NEW t \in Thread, SetMode(t) PROVE TypeOK'
  BY <1>11 DEF TypeOK, SetMode, Goto, Places, Stages, lock, Reached, mmio_set_mbm_mba_mode, Mode
<1>12. ASSUME NEW t \in Thread, Publish(t) PROVE TypeOK'
  BY <1>12 DEF TypeOK, Publish, Goto, Places, Stages, lock
<1>13. ASSUME NEW t \in Thread, ApiCheck(t) PROVE TypeOK'
  BY <1>13 DEF TypeOK, ApiCheck, Goto, Places, Stages, library, lock, RetVal
<1>14. ASSUME NEW t \in Thread, ApiBody(t) PROVE TypeOK'
  BY <1>14 DEF TypeOK, ApiBody, Goto, Places, Stages, library, lock, RetVal
<1>15. ASSUME NEW t \in Thread, FiniCheck(t) PROVE TypeOK'
  BY <1>15 DEF TypeOK, FiniCheck, Goto, Places, Stages, lock, RetVal, mmio_set_mbm_mba_mode, Mode, Reached
<1>16. ASSUME NEW t \in Thread, FiniBody(t) PROVE TypeOK'
  BY <1>16 DEF TypeOK, FiniBody, Goto, Places, Stages, lock, RetVal
<1>17. ASSUME NEW t \in Thread, CallInit(t) PROVE TypeOK'
  BY <1>17 DEF TypeOK, CallInit, Goto, Places, Stages, library
<1>18. ASSUME NEW t \in Thread, InitRefused(t) PROVE TypeOK'
  BY <1>18 DEF TypeOK, InitRefused, Goto, Places, Stages, library
<1>19. ASSUME NEW t \in Thread, CallApi(t) PROVE TypeOK'
  BY <1>19 DEF TypeOK, CallApi, Goto, Places, Stages, library, lock
<1>20. ASSUME NEW t \in Thread, CallFini(t) PROVE TypeOK'
  BY <1>20 DEF TypeOK, CallFini, Goto, Places, Stages, library, lock
<1>21. CASE UNCHANGED vars
  BY <1>21 DEF TypeOK, vars
<1>22. ASSUME NEW t \in Thread, NEW s \in Stages, StageFails(t, s) PROVE TypeOK'
  BY <1>1, <1>22 DEF StageFails
<1> QED
  BY <1>2, <1>3, <1>4, <1>5, <1>6, <1>7, <1>8, <1>9, <1>10, <1>11, <1>12, <1>13, <1>14, <1>15, <1>16, <1>17, <1>18, <1>19, <1>20, <1>21, <1>22 DEF Next, Step, Call

\* Type correctness of every reachable state.
THEOREM TypeCorrect == Spec => []TypeOK
  BY InitTyped, NextTyped, PTL DEF Spec

-----------------------------------------------------------------------------
(***************************************************************************)
(* Mutual exclusion.                                                       *)
(***************************************************************************)

\* What the stages of pqos_init() do to the control state: go on, or give up.
StageMoves(t) ==
  /\ at[t] \in Stages
  /\ \E s \in Stages : at' = [at EXCEPT ![t] = s]
  /\ UNCHANGED <<m_init_done, lock, op, ret>>

StageGivesUp(t) ==
  /\ at[t] \in Stages
  /\ at' = [at EXCEPT ![t] = "release"]
  /\ ret' = [ret EXCEPT ![t] = "ERROR"]
  /\ UNCHANGED <<m_init_done, lock, op>>

LEMMA StagesSummarised ==
  ASSUME NEW t \in Thread
  PROVE  /\ SelectInterface(t) => StageMoves(t) \/ StageGivesUp(t)
         /\ api_init(t) \/ SetMode(t) => StageMoves(t)
         /\ \A s \in Stages :
              /\ StageOk(t, s) \/ StageSkipped(t, s) => StageMoves(t)
              /\ StageFails(t, s) => StageGivesUp(t)
<1>1. ASSUME NEW s \in Stages, NEW i, Fail(t, s, i) PROVE StageGivesUp(t)
  BY <1>1 DEF Fail, Goto, StageGivesUp
<1>2. SelectInterface(t) => StageMoves(t) \/ StageGivesUp(t)
  <2>1. "interface" \in Stages /\ "cpuinfo" \in Stages
    BY DEF Stages
  <2> QED BY <1>1, <2>1 DEF SelectInterface, StageMoves, Goto, library
<1>3. api_init(t) \/ SetMode(t) => StageMoves(t)
  BY DEF api_init, SetMode, StageMoves, Goto, Stages
<1>4. ASSUME NEW s \in Stages PROVE StageOk(t, s) \/ StageSkipped(t, s) => StageMoves(t)
  <2>1. NextStage(iface[t], s) \in Stages /\ "alloc" \in Stages
    BY NextStageIsStage DEF Stages
  <2> QED BY <2>1 DEF StageOk, StageSkipped, StageMoves, Goto
<1>5. ASSUME NEW s \in Stages PROVE StageFails(t, s) => StageGivesUp(t)
  BY <1>1 DEF StageFails
<1> QED BY <1>2, <1>3, <1>4, <1>5

\* The inductive invariant without the types.
Control ==
  /\ PlaceOfOp
  /\ OneOpener
  /\ HolderUnique
  /\ DestroyedMeansClosed
  /\ ClosedWhere
  /\ LockFileKept

LEMMA InitControl == Init => Control
  BY DEF Init, Control, PlaceOfOp, OneOpener, HolderUnique, Holds,
         DestroyedMeansClosed, ClosedWhere, LockFileKept, Stages

LEMMA NextControl ==
  ASSUME Disciplined
  PROVE  TypeOK /\ Control /\ [Next]_vars => Control'
<1> SUFFICES ASSUME TypeOK, Control, [Next]_vars PROVE Control'
  OBVIOUS
<1> USE DEF Control, PlaceOfOp, OneOpener, HolderUnique, Holds,
            DestroyedMeansClosed, ClosedWhere, LockFileKept, TypeOK, Stages, Disciplined
<1>1. ASSUME NEW t \in Thread, StageMoves(t) PROVE Control'
  BY <1>1 DEF StageMoves, lock
<1>2. ASSUME NEW t \in Thread, StageGivesUp(t) PROVE Control'
  BY <1>2 DEF StageGivesUp, lock
<1>3. CASE UNCHANGED vars
  BY <1>3 DEF vars
<1>4. ASSUME NEW t \in Thread, lock_get(t) PROVE Control'
  BY <1>4 DEF lock_get, Goto, library, lock
<1>5. ASSUME NEW t \in Thread, Take(t) PROVE Control'
  BY <1>5 DEF Take, Goto, library
<1>6. ASSUME NEW t \in Thread, lock_release(t) PROVE Control'
  BY <1>6 DEF lock_release, Goto, library, Return, Discards
<1>7. ASSUME NEW t \in Thread, lock_fini(t) PROVE Control'
  BY <1>7 DEF lock_fini, Goto, library, Return
<1>8. ASSUME NEW t \in Thread, InitCheck(t) PROVE Control'
  BY <1>8 DEF InitCheck, Goto, lock
<1>9. ASSUME NEW t \in Thread, Publish(t) PROVE Control'
  BY <1>9 DEF Publish, Goto, lock
<1>10. ASSUME NEW t \in Thread, ApiCheck(t) PROVE Control'
  BY <1>10 DEF ApiCheck, Goto, library, lock
<1>11. ASSUME NEW t \in Thread, ApiBody(t) PROVE Control'
  BY <1>11 DEF ApiBody, Goto, library, lock
<1>12. ASSUME NEW t \in Thread, FiniCheck(t) PROVE Control'
  BY <1>12 DEF FiniCheck, Goto, lock
<1>13. ASSUME NEW t \in Thread, FiniBody(t) PROVE Control'
  BY <1>13 DEF FiniBody, Goto, lock
<1>14. ASSUME NEW t \in Thread, CallInit(t) PROVE Control'
  BY <1>14 DEF CallInit, Goto, library, MayInit, Idle
<1>15. ASSUME NEW t \in Thread, InitRefused(t) PROVE Control'
  BY <1>15 DEF InitRefused, Goto, library
<1>16. ASSUME NEW t \in Thread, CallApi(t) PROVE Control'
  BY <1>16 DEF CallApi, Goto, library, lock
<1>17. ASSUME NEW t \in Thread, CallFini(t) PROVE Control'
  BY <1>17 DEF CallFini, Goto, library, lock
<1> QED
  BY StagesSummarised, <1>1, <1>2, <1>3, <1>4, <1>5, <1>6, <1>7, <1>8, <1>9, <1>10, <1>11, <1>12, <1>13, <1>14, <1>15, <1>16, <1>17 DEF Next, Step, Call

LEMMA ControlInvariant ==
  ASSUME Disciplined
  PROVE  Spec => [](TypeOK /\ Control)
<1>1. Init => TypeOK /\ Control
  BY InitTyped, InitControl
<1>2. TypeOK /\ Control /\ [Next]_vars => (TypeOK /\ Control)'
  BY NextTyped, NextControl
<1> QED BY <1>1, <1>2, PTL DEF Spec

LEMMA ControlExcludes == Control => Exclusion
  BY DEF Control, PlaceOfOp, HolderUnique, Holds, DestroyedMeansClosed, Exclusion, Working, Stages

\* Any number of threads may call the API while another one initialises or
\* closes the library: no two of them work on its state at the same time,
\* although pqos_fini() destroys the mutex the others are waiting for.
THEOREM OneThreadWorks ==
  ASSUME Disciplined
  PROVE  Spec => []Exclusion
  BY ControlInvariant, ControlExcludes, PTL

\* The lock file stays for as long as the library is initialised.
THEOREM LockFileStays ==
  ASSUME Disciplined
  PROVE  Spec => []LockFileKept
<1>1. TypeOK /\ Control => LockFileKept
  BY DEF Control
<1> QED BY ControlInvariant, <1>1, PTL

-----------------------------------------------------------------------------
(***************************************************************************)
(* The library implements PqosService.                                     *)
(***************************************************************************)
LEMMA InsideIs ==
  /\ \A t \in Thread : Exclusion /\ Working(t) => Inside = <<t, op[t]>>
  /\ (\A t \in Thread : ~Working(t)) => Inside = Service!Nobody
<1>1. ASSUME NEW t \in Thread, Exclusion, Working(t) PROVE Inside = <<t, op[t]>>
  <2>1. Worker \in Thread /\ Working(Worker)
    BY <1>1 DEF Worker
  <2>2. Worker = t
    BY <1>1, <2>1 DEF Exclusion
  <2> QED BY <1>1, <2>2 DEF Inside
<1> QED BY <1>1 DEF Inside, Service!Nobody

LEMMA InsideIsNext ==
  /\ \A t \in Thread : Exclusion' /\ Working(t)' => Inside' = <<t, op'[t]>>
  /\ (\A t \in Thread : ~Working(t)') => Inside' = Service!Nobody
<1>1. ASSUME NEW t \in Thread, Exclusion', Working(t)' PROVE Inside' = <<t, op'[t]>>
  <2>1. Worker' \in Thread /\ Working(Worker)'
    BY <1>1 DEF Worker
  <2>2. Worker' = t
    BY <1>1, <2>1 DEF Exclusion, Working
  <2> QED BY <1>1, <2>2 DEF Inside
<1> QED BY <1>1 DEF Inside, Service!Nobody

\* A step of a thread that is not inside before or after goes unnoticed.
LEMMA QuietStep ==
  ASSUME Exclusion, Exclusion', UNCHANGED m_init_done, NEW t \in Thread,
         Working(t) <=> Working(t)', Working(t) => op'[t] = op[t],
         \A u \in Thread \ {t} : at'[u] = at[u] /\ op'[u] = op[u]
  PROVE  UNCHANGED Service!svars
<1>1. \A u \in Thread : (Working(u) <=> Working(u)') /\ (Working(u) => op'[u] = op[u])
  BY DEF Working
<1>2. CASE \E u \in Thread : Working(u)
  BY <1>1, <1>2, InsideIs, InsideIsNext DEF Service!svars
<1>3. CASE ~ \E u \in Thread : Working(u)
  BY <1>1, <1>3, InsideIs, InsideIsNext DEF Service!svars
<1> QED BY <1>2, <1>3

\* A thread goes in while nobody is inside, or comes out.
LEMMA Entering ==
  ASSUME TypeOK, Control, Control', NEW t \in Thread, Holds(t), mutex.usable, ~Working(t),
         Working(t)'
  PROVE  Inside = Service!Nobody /\ Inside' = <<t, op'[t]>>
<1>1. Exclusion'
  BY DEF Control, PlaceOfOp, HolderUnique, Holds, DestroyedMeansClosed, Exclusion, Working, Stages
<1>2. \A u \in Thread : ~Working(u)
  BY DEF Control, HolderUnique, Holds, Working
<1> QED BY <1>1, <1>2, InsideIs, InsideIsNext

LEMMA Leaving ==
  ASSUME Exclusion, NEW t \in Thread, Working(t), ~Working(t)',
         \A u \in Thread \ {t} : at'[u] = at[u]
  PROVE  Inside = <<t, op[t]>> /\ Inside' = Service!Nobody
<1>1. \A u \in Thread : ~Working(u)'
  BY DEF Working, Exclusion
<1> QED BY <1>1, InsideIs, InsideIsNext

LEMMA Simulation ==
  ASSUME TypeOK, Control, Control', [Next]_vars
  PROVE  [Service!SNext]_(Service!svars)
<1>1. Exclusion
  BY ControlExcludes
<1>2. Exclusion'
  BY DEF Control, PlaceOfOp, HolderUnique, Holds, DestroyedMeansClosed, Exclusion, Working, Stages
<1> USE <1>1, <1>2 DEF Stages, TypeOK
<1>3. ASSUME NEW t \in Thread, lock_get(t) PROVE UNCHANGED Service!svars
  BY <1>3, QuietStep DEF lock_get, Goto, Working, library, lock
<1>4. ASSUME NEW t \in Thread, Take(t) PROVE UNCHANGED Service!svars
  BY <1>4, QuietStep DEF Take, Goto, Working, library
<1>5. ASSUME NEW t \in Thread, lock_release(t) PROVE UNCHANGED Service!svars
  BY <1>5, QuietStep DEF lock_release, Goto, Working, library, Return
<1>6. ASSUME NEW t \in Thread, lock_fini(t) PROVE UNCHANGED Service!svars
  BY <1>6, QuietStep DEF lock_fini, Goto, Working, library, Return
<1>7. ASSUME NEW t \in Thread, CallInit(t) PROVE UNCHANGED Service!svars
  BY <1>7, QuietStep DEF CallInit, Goto, Working, library
<1>8. ASSUME NEW t \in Thread, InitRefused(t) PROVE UNCHANGED Service!svars
  BY <1>8, QuietStep DEF InitRefused, Goto, Working, library
<1>9. ASSUME NEW t \in Thread, CallApi(t) PROVE UNCHANGED Service!svars
  BY <1>9, QuietStep DEF CallApi, Goto, Working, library, lock
<1>10. ASSUME NEW t \in Thread, CallFini(t) PROVE UNCHANGED Service!svars
  BY <1>10, QuietStep DEF CallFini, Goto, Working, library, lock
<1>11. ASSUME NEW t \in Thread, StageMoves(t) PROVE UNCHANGED Service!svars
  BY <1>11, QuietStep DEF StageMoves, Working
<1>12. ASSUME NEW t \in Thread, StageGivesUp(t) PROVE Service!SNext
  <2>1. Inside = <<t, op[t]>> /\ Inside' = Service!Nobody /\ op[t] = "init"
    BY <1>12, Leaving DEF StageGivesUp, Working, Control, PlaceOfOp
  <2> QED BY <1>12, <2>1 DEF StageGivesUp, Service!SNext, Service!EndOpening
<1>13. ASSUME NEW t \in Thread, Publish(t) PROVE Service!SNext
  <2>1. Inside = <<t, op[t]>> /\ Inside' = Service!Nobody /\ op[t] = "init"
    BY <1>13, Leaving DEF Publish, Goto, Working, Control, PlaceOfOp
  <2> QED BY <1>13, <2>1 DEF Publish, Service!SNext, Service!EndOpening
<1>14. ASSUME NEW t \in Thread, ApiBody(t) PROVE Service!SNext
  <2>1. Inside = <<t, "api">> /\ Inside' = Service!Nobody
    BY <1>14, Leaving DEF ApiBody, Goto, Working
  <2> QED BY <1>14, <2>1 DEF ApiBody, library, Service!SNext, Service!EndCall
<1>15. ASSUME NEW t \in Thread, FiniBody(t) PROVE Service!SNext
  <2>1. Inside = <<t, "fini">> /\ Inside' = Service!Nobody
    BY <1>15, Leaving DEF FiniBody, Goto, Working
  <2> QED BY <1>15, <2>1 DEF FiniBody, Service!SNext, Service!EndClosing
<1>16. ASSUME NEW t \in Thread, InitCheck(t) PROVE [Service!SNext]_(Service!svars)
  <2>1. CASE ~m_init_done
    <3>1. Holds(t) /\ mutex.usable /\ ~Working(t) /\ Working(t)' /\ op'[t] = "init"
      BY <1>16, <2>1 DEF InitCheck, Goto, lock, Holds, Working, Control, DestroyedMeansClosed
    <3>2. Inside = Service!Nobody /\ Inside' = <<t, "init">>
      BY <3>1, Entering
    <3> QED BY <1>16, <2>1, <3>2 DEF InitCheck, lock, Service!SNext, Service!StartOpening
  <2>2. CASE ~(~m_init_done)
    BY <1>16, <2>2, QuietStep DEF InitCheck, Goto, lock, Working
  <2> QED BY <2>1, <2>2
<1>17. ASSUME NEW t \in Thread, ApiCheck(t) PROVE [Service!SNext]_(Service!svars)
  <2>1. CASE m_init_done
    <3>1. Holds(t) /\ mutex.usable /\ ~Working(t) /\ Working(t)' /\ op'[t] = "api"
      BY <1>17, <2>1 DEF ApiCheck, Goto, library, lock, Holds, Working, Control, DestroyedMeansClosed
    <3>2. Inside = Service!Nobody /\ Inside' = <<t, "api">>
      BY <3>1, Entering
    <3> QED BY <1>17, <2>1, <3>2 DEF ApiCheck, library, lock, Service!SNext, Service!Start
  <2>2. CASE ~(m_init_done)
    BY <1>17, <2>2, QuietStep DEF ApiCheck, Goto, library, lock, Working
  <2> QED BY <2>1, <2>2
<1>18. ASSUME NEW t \in Thread, FiniCheck(t) PROVE [Service!SNext]_(Service!svars)
  <2>1. CASE m_init_done
    <3>1. Holds(t) /\ mutex.usable /\ ~Working(t) /\ Working(t)' /\ op'[t] = "fini"
      BY <1>18, <2>1 DEF FiniCheck, Goto, lock, Holds, Working, Control, DestroyedMeansClosed
    <3>2. Inside = Service!Nobody /\ Inside' = <<t, "fini">>
      BY <3>1, Entering
    <3> QED BY <1>18, <2>1, <3>2 DEF FiniCheck, lock, Service!SNext, Service!Start
  <2>2. CASE ~(m_init_done)
    BY <1>18, <2>2, QuietStep DEF FiniCheck, Goto, lock, Working
  <2> QED BY <2>1, <2>2
<1>19. CASE UNCHANGED vars
  BY <1>19 DEF vars, Service!svars, Inside, Worker, Working
<1> QED
  BY StagesSummarised, <1>3, <1>4, <1>5, <1>6, <1>7, <1>8, <1>9, <1>10, <1>11, <1>12, <1>13, <1>14, <1>15, <1>16, <1>17, <1>18, <1>19 DEF Next, Step, Call

\* The library with its lock, its stages and its error paths implements the
\* abstract service: opened and closed by one thread at a time, used by one
\* thread at a time and only while it is open.
THEOREM LibraryIsService ==
  ASSUME Disciplined
  PROVE  Spec => ServiceKept
<1>1. Init => Service!SInit
  BY InsideIs DEF Init, Service!SInit, Working, Stages
<1>2. (TypeOK /\ Control) /\ (TypeOK /\ Control)' /\ [Next]_vars
         => [Service!SNext]_(Service!svars)
  BY Simulation
<1> QED BY ControlInvariant, <1>1, <1>2, PTL DEF Spec, ServiceKept, Service!SSpec

-----------------------------------------------------------------------------
(***************************************************************************)
(* The data pqos_init() leaves behind.  The interleavings of the threads   *)
(* are dealt with by Control; what is added here says what a pqos_init()   *)
(* that has got as far as some stage has obtained, and from where.         *)
(***************************************************************************)

\* The order of the stages; no interface has them in another one.
Rank(s) ==
  CASE s = "log"           -> 0
    [] s = "interface"     -> 1
    [] s = "cpuinfo"       -> 2
    [] s = "machine"       -> 3
    [] s = "os_cap"        -> 4
    [] s = "cap"           -> 5
    [] s = "api"           -> 6
    [] s = "erdt"          -> 7
    [] s = "cores_domains" -> 8
    [] s = "mode"          -> 9
    [] s = "alloc"         -> 10
    [] s = "mon"           -> 11
    [] s = "mrrm"          -> 12
    [] s = "iordt"         -> 13
    [] s = "channels_domains" -> 14
    [] OTHER               -> 15

\* The parts pqos_init() cannot do without on interface i.
Needed(i) ==
  {"log", "cpuinfo", "machine", "cap"} \cup
  IF i = "MMIO" THEN {"erdt", "cores_domains", "mrrm", "iordt"} ELSE {}

\* The mode the control registers must be in for interface i, given the parts
\* that were found.
ModeFits(i, parts) ==
  /\ i = "MMIO" => \A d \in 1 .. NumDomain : mode[d] = "region"
  /\ i = "MSR" /\ "erdt" \in parts => \A d \in 1 .. NumDomain : mode[d] = "total"

\* A pqos_init() at a stage has obtained what it needs of the stages before and
\* nothing of the ones to come; all of it is still there, in the right mode.
Gathers ==
  \A t \in Thread : at[t] \in Stages =>
    /\ local \subseteq up
    /\ \A x \in local : x \in Stages /\ Rank(x) < Rank(at[t])
    /\ \A x \in Needed(iface[t]) : Rank(x) < Rank(at[t]) => x \in local
    /\ Rank(at[t]) > Rank("api") => m_interface = iface[t]
    /\ Rank(at[t]) > Rank("mode") => ModeFits(iface[t], local)

NothingGathered == (\A t \in Thread : at[t] \notin Stages) => local = {}

\* cpuinfo_init() and machine_init() have run for an open library, for a
\* pqos_init() past those stages, and for nobody else.
CoreParts ==
  \A x \in {"cpuinfo", "machine"} :
    x \in up <=> \/ m_init_done
                 \/ \E t \in Thread : at[t] \in Stages /\ Rank(at[t]) > Rank(x)

\* An open library has what it needs; m_sysconf points to live data only.
OpenSound ==
  m_init_done =>
    /\ m_sysconf \subseteq up
    /\ "log" \in up /\ "machine" \in up
    /\ Needed(m_interface) \ {"log", "machine"} \subseteq m_sysconf

\* pqos_fini() closes an open library, on the interface it was opened for.
FiniKnows ==
  \A t \in Thread :
    op[t] = "fini" /\ at[t] \in {"get", "wait", "check", "body"} =>
      m_init_done /\ iface[t] = m_interface

Data == Gathers /\ NothingGathered /\ CoreParts /\ OpenSound /\ FiniKnows /\ ModeMatches

LEMMA RankIs ==
  /\ Rank("log") = 0 /\ Rank("interface") = 1 /\ Rank("cpuinfo") = 2
  /\ Rank("machine") = 3 /\ Rank("os_cap") = 4 /\ Rank("cap") = 5
  /\ Rank("api") = 6 /\ Rank("erdt") = 7 /\ Rank("cores_domains") = 8
  /\ Rank("mode") = 9 /\ Rank("alloc") = 10 /\ Rank("mon") = 11
  /\ Rank("mrrm") = 12 /\ Rank("iordt") = 13 /\ Rank("channels_domains") = 14
  /\ Rank("publish") = 15
  BY DEF Rank

LEMMA RankNat == \A s \in Stages : Rank(s) \in 0 .. 15
  BY RankIs DEF Stages

\* A stage is followed by a later one, and none that the interface needs, nor
\* the choice of the interface or the mode, lies between them.
LEMMA StageOrder ==
  ASSUME NEW i \in Interface, NEW s \in Stages \ {"publish"}
  PROVE  /\ Rank(s) < Rank(NextStage(i, s))
         /\ \A x \in Needed(i) :
              Rank(x) < Rank(NextStage(i, s)) => Rank(x) < Rank(s) \/ x = s
         /\ Rank("api") < Rank(NextStage(i, s)) => Rank("api") <= Rank(s)
         /\ Rank("mode") < Rank(NextStage(i, s)) =>
              Rank("mode") <= Rank(s) \/ i = "OS"
         /\ \A x \in {"cpuinfo", "machine"} :
              Rank(x) < Rank(NextStage(i, s)) => Rank(x) < Rank(s) \/ x = s
<1>1. CASE s \in {"log", "interface", "cpuinfo"}
  BY <1>1, RankIs DEF NextStage, Needed
<1>2. CASE s \in {"machine", "os_cap", "cap", "api"}
  BY <1>2, RankIs DEF NextStage, Needed, Interface
<1>3. CASE s \in {"erdt", "cores_domains", "mode"}
  BY <1>3, RankIs DEF NextStage, Needed, Interface
<1>4. CASE s \in {"alloc", "mon", "mrrm"}
  BY <1>4, RankIs DEF NextStage, Needed, Interface
<1>5. CASE s \in {"iordt", "channels_domains"}
  BY <1>5, RankIs DEF NextStage, Needed, Interface
<1> QED BY <1>1, <1>2, <1>3, <1>4, <1>5 DEF Stages

\* While a thread opens or closes the library no other thread is at a stage.
LEMMA OpenerAlone ==
  ASSUME Control, NEW t \in Thread, op[t] \in {"init", "fini"}
  PROVE  \A u \in Thread \ {t} : at[u] \notin Stages /\ op[u] \notin {"init", "fini"}
  BY DEF Control, PlaceOfOp, OneOpener

LEMMA InitData == Init => Data
<1> SUFFICES ASSUME Init PROVE Data
  OBVIOUS
<1>1. \A t \in Thread : at[t] \notin Stages /\ op[t] # "fini"
  BY DEF Init, Stages
<1> QED
  BY <1>1 DEF Init, Data, Gathers, NothingGathered, CoreParts, OpenSound,
              FiniKnows, ModeMatches

\* A step that leaves the library's data alone, and every pqos_init() where it
\* is, preserves Data.
LEMMA DataKept ==
  ASSUME TypeOK, Data, UNCHANGED library, FiniKnows',
         \A u \in Thread :
           /\ at[u] \in Stages => at'[u] = at[u]
           /\ at'[u] \in Stages => at'[u] = at[u] /\ iface'[u] = iface[u]
           /\ m_init_done /\ op[u] = "fini" => op'[u] = "fini"
  PROVE  Data'
<1> USE DEF Data, library
<1>1. Gathers'
  <2> SUFFICES ASSUME NEW t \in Thread, at'[t] \in Stages
               PROVE  /\ local' \subseteq up'
                      /\ \A x \in local' : x \in Stages /\ Rank(x) < Rank(at'[t])
                      /\ \A x \in Needed(iface'[t]) : Rank(x) < Rank(at'[t]) => x \in local'
                      /\ Rank(at'[t]) > Rank("api") => m_interface' = iface'[t]
                      /\ Rank(at'[t]) > Rank("mode") => ModeFits(iface[t], local)
    BY DEF Gathers, ModeFits
  <2> QED BY DEF Gathers
<1>2. NothingGathered' /\ OpenSound' /\ ModeMatches'
  BY DEF NothingGathered, OpenSound, ModeMatches
<1>3. CoreParts'
  BY DEF CoreParts
<1> QED BY <1>1, <1>2, <1>3

\* The calls and the lock: the library's data is not touched.
LEMMA LockKeepsData ==
  ASSUME Disciplined, TypeOK, Control, Data, NEW t \in Thread,
         \/ lock_get(t) \/ Take(t) \/ lock_release(t) \/ lock_fini(t)
         \/ CallInit(t) \/ InitRefused(t) \/ CallApi(t) \/ CallFini(t)
         \/ ApiCheck(t) \/ ApiBody(t)
  PROVE  Data'
<1> USE DEF TypeOK, Data, FiniKnows, library, Stages
<1>1. CASE lock_get(t)
  BY <1>1, DataKept DEF lock_get, Goto
<1>2. CASE Take(t)
  BY <1>2, DataKept DEF Take, Goto
<1>3. CASE lock_release(t)
  <2>1. op[t] = "fini" => op'[t] = "fini"
    BY <1>3 DEF lock_release, Discards
  <2> QED BY <1>3, <2>1, DataKept DEF lock_release, Goto, Return, Discards
<1>4. CASE lock_fini(t)
  <2>1. op[t] = "fini" => ~m_init_done
    BY <1>4 DEF lock_fini, Goto, Control, ClosedWhere
  <2> QED BY <1>4, <2>1, DataKept DEF lock_fini, Goto, Return
<1>5. CASE CallInit(t)
  <2>1. \A u \in Thread : op[u] = "none"
    BY <1>5 DEF CallInit, MayInit, Idle, Control, PlaceOfOp
  <2> QED BY <1>5, <2>1, DataKept DEF CallInit, Goto
<1>6. CASE InitRefused(t)
  BY <1>6, DataKept DEF InitRefused
<1>7. CASE CallApi(t)
  <2>1. op[t] = "none"
    BY <1>7 DEF CallApi, Goto, Control, PlaceOfOp
  <2> QED BY <1>7, <2>1, DataKept DEF CallApi, Goto
<1>8. CASE CallFini(t)
  <2>1. op[t] = "none" /\ m_init_done
    BY <1>8 DEF CallFini, Goto, Control, PlaceOfOp, Disciplined
  <2> QED BY <1>8, <2>1, DataKept DEF CallFini, Goto
<1>9. CASE ApiCheck(t)
  BY <1>9, DataKept DEF ApiCheck, Goto
<1>10. CASE ApiBody(t)
  BY <1>10, DataKept DEF ApiBody, Goto
<1> QED BY <1>1, <1>2, <1>3, <1>4, <1>5, <1>6, <1>7, <1>8, <1>9, <1>10

\* What is to be shown of the one pqos_init() that goes on ...
LEMMA OpenerAt ==
  ASSUME NEW t \in Thread, ~m_init_done', op'[t] = "init", at'[t] \in Stages,
         \A u \in Thread \ {t} : at'[u] \notin Stages /\ op'[u] # "fini",
         local' \subseteq up',
         \A x \in local' : x \in Stages /\ Rank(x) < Rank(at'[t]),
         \A x \in Needed(iface'[t]) : Rank(x) < Rank(at'[t]) => x \in local',
         Rank("api") < Rank(at'[t]) => m_interface' = iface'[t],
         Rank("mode") < Rank(at'[t]) => ModeFits(iface[t], local)',
         \A x \in {"cpuinfo", "machine"} : x \in up' <=> Rank(x) < Rank(at'[t])
  PROVE  Data'
<1>0. "api" \in Stages /\ "mode" \in Stages /\ "cpuinfo" \in Stages
      /\ "machine" \in Stages
  BY RankNat DEF Stages
<1>1. Gathers'
  BY <1>0, RankNat DEF Gathers
<1>2. CoreParts'
  BY <1>0, RankNat DEF CoreParts
<1>3. NothingGathered' /\ OpenSound' /\ FiniKnows' /\ ModeMatches'
  BY DEF NothingGathered, OpenSound, FiniKnows, ModeMatches
<1> QED BY <1>1, <1>2, <1>3 DEF Data

\* ... and of the one that gives up.
LEMMA OpenerGone ==
  ASSUME NEW t \in Thread, ~m_init_done', op'[t] # "fini", at'[t] \notin Stages,
         \A u \in Thread \ {t} : at'[u] \notin Stages /\ op'[u] # "fini",
         local' = {}, "cpuinfo" \notin up', "machine" \notin up'
  PROVE  Data'
  BY DEF Data, Gathers, CoreParts, NothingGathered, OpenSound, FiniKnows, ModeMatches

\* What the invariant says of a pqos_init() at a stage.
LEMMA AtStage ==
  ASSUME TypeOK, Control, Data, NEW t \in Thread, at[t] \in Stages
  PROVE  /\ op[t] = "init" /\ ~m_init_done
         /\ \A u \in Thread \ {t} : at[u] \notin Stages /\ op[u] \notin {"init", "fini"}
         /\ local \subseteq up
         /\ \A x \in local : x \in Stages /\ Rank(x) < Rank(at[t])
         /\ \A x \in Needed(iface[t]) : Rank(x) < Rank(at[t]) => x \in local
         /\ Rank("api") < Rank(at[t]) => m_interface = iface[t]
         /\ Rank("mode") < Rank(at[t]) => ModeFits(iface[t], local)
         /\ \A x \in {"cpuinfo", "machine"} : x \in up <=> Rank(x) < Rank(at[t])
         /\ iface[t] \in Interface
<1>1. op[t] = "init" /\ ~m_init_done
  BY DEF Control, PlaceOfOp, ClosedWhere, Stages
<1>2. \A u \in Thread \ {t} : at[u] \notin Stages /\ op[u] \notin {"init", "fini"}
  BY <1>1, OpenerAlone
<1>3. "api" \in Stages /\ "mode" \in Stages /\ "cpuinfo" \in Stages /\ "machine" \in Stages
  BY DEF Stages
<1>4. \A x \in {"cpuinfo", "machine"} : x \in up <=> Rank(x) < Rank(at[t])
  BY <1>1, <1>2, <1>3, RankNat DEF Data, CoreParts
<1> QED BY <1>1, <1>2, <1>3, <1>4, RankNat DEF Data, Gathers, TypeOK

LEMMA FailKeepsData ==
  ASSUME TypeOK, Control, Data, NEW t \in Thread, NEW s \in Stages, Fail(t, s, iface[t])
  PROVE  Data'
<1>1. at[t] = s /\ at'[t] = "release" /\ op' = op /\ ~m_init_done'
      /\ (\A u \in Thread \ {t} : at'[u] \notin Stages /\ op'[u] # "fini")
      /\ op'[t] # "fini"
  BY AtStage DEF Fail, Goto, TypeOK
<1>2. /\ "cpuinfo" \in up => s \notin {"log", "interface", "cpuinfo"}
      /\ "machine" \in up => s \notin {"log", "interface", "cpuinfo", "machine"}
  BY <1>1, AtStage, RankIs
<1>3. "cpuinfo" \notin up' /\ "machine" \notin up'
  BY <1>2 DEF Fail, Undone
<1>4. at'[t] \notin Stages /\ local' = {}
  BY <1>1 DEF Fail, Stages
<1> QED BY <1>1, <1>3, <1>4, OpenerGone

LEMMA StageOkKeepsData ==
  ASSUME TypeOK, Control, Data, NEW t \in Thread,
         NEW s \in Stages \ {"interface", "api", "mode", "publish"}, StageOk(t, s)
  PROVE  Data'
<1> DEFINE n == NextStage(iface[t], s)
<1>1. at[t] = s /\ at'[t] = n /\ op' = op /\ iface' = iface /\ ~m_init_done'
      /\ (\A u \in Thread \ {t} : at'[u] \notin Stages /\ op'[u] # "fini")
      /\ op'[t] = "init" /\ n \in Stages
  BY AtStage, NextStageIsStage DEF StageOk, Goto, TypeOK, lock
<1>2. /\ Rank(s) \in Nat /\ Rank(n) \in Nat /\ Rank(s) < Rank(n)
      /\ \A x \in Needed(iface[t]) : Rank(x) < Rank(n) => Rank(x) < Rank(s) \/ x = s
      /\ Rank("api") < Rank(n) => Rank("api") <= Rank(s)
      /\ Rank("mode") < Rank(n) => Rank("mode") <= Rank(s) \/ iface[t] = "OS"
      /\ \A x \in {"cpuinfo", "machine"} : Rank(x) < Rank(n) => Rank(x) < Rank(s) \/ x = s
  BY <1>1, StageOrder, RankNat, AtStage
<1>3. Rank("api") # Rank(s) /\ Rank("mode") # Rank(s) /\ Rank("api") \in Nat /\ Rank("mode") \in Nat
  BY RankIs DEF Stages
<1>4. /\ up' = up \cup ({s} \cap Parts) /\ local' = local \cup ({s} \cap Parts)
      /\ m_interface' = m_interface /\ mode' = mode
  BY DEF StageOk
<1>5. local' \subseteq up' /\ \A x \in local' : x \in Stages /\ Rank(x) < Rank(n)
  BY <1>1, <1>2, <1>4, AtStage, RankNat
<1>6. \A x \in Needed(iface[t]) : Rank(x) < Rank(n) => x \in local'
  <2>1. Needed(iface[t]) \subseteq Parts
    BY DEF Needed, Parts, Pointers
  <2> QED BY <1>1, <1>2, <1>4, <2>1, AtStage
<1>7. Rank("api") < Rank(n) => m_interface' = iface'[t]
  BY <1>1, <1>2, <1>3, <1>4, AtStage
<1>8. Rank("mode") < Rank(n) => ModeFits(iface[t], local)'
  <2>1. ASSUME Rank("mode") < Rank(n), iface[t] # "OS"
        PROVE  ModeFits(iface[t], local)'
    <3>1. ModeFits(iface[t], local) /\ s # "erdt"
      BY <1>1, <1>2, <1>3, <2>1, AtStage, RankIs
    <3>2. "erdt" \in local' => "erdt" \in local
      BY <1>4, <3>1
    <3> QED BY <1>1, <1>4, <3>1, <3>2 DEF ModeFits
  <2>2. CASE iface[t] = "OS"
    BY <1>1, <2>2 DEF ModeFits
  <2> QED BY <2>1, <2>2
<1>9. \A x \in {"cpuinfo", "machine"} : x \in up' <=> Rank(x) < Rank(n)
  <2>1. {"cpuinfo", "machine"} \subseteq Parts \cap Stages
    BY DEF Parts, Pointers, Stages
  <2> QED BY <1>1, <1>2, <1>4, <2>1, AtStage, RankNat
<1> HIDE DEF n
<1> QED BY <1>1, <1>5, <1>6, <1>7, <1>8, <1>9, OpenerAt

LEMMA StageSkippedKeepsData ==
  ASSUME TypeOK, Control, Data, NEW t \in Thread,
         NEW s \in Stages \ {"interface", "api", "mode", "publish"}, StageSkipped(t, s)
  PROVE  Data'
<1> DEFINE n == IF s = "erdt" THEN "alloc" ELSE NextStage(iface[t], s)
<1>1. at[t] = s /\ at'[t] = n /\ op' = op /\ iface' = iface /\ ~m_init_done'
      /\ (\A u \in Thread \ {t} : at'[u] \notin Stages /\ op'[u] # "fini")
      /\ op'[t] = "init" /\ n \in Stages
  <2>1. "alloc" \in Stages
    BY DEF Stages
  <2> QED BY <2>1, AtStage, NextStageIsStage DEF StageSkipped, Goto, TypeOK, lock
<1>2. PICK own \in SUBSET ({s} \cap SelfCleaning) : up' = up \ own
  BY DEF StageSkipped
<1>3. local' = local /\ m_interface' = m_interface /\ mode' = mode
  BY DEF StageSkipped
<1>4. s \in {"erdt", "iordt", "alloc", "mon"} /\ s \notin Needed(iface[t])
      /\ (s = "erdt" => iface[t] # "MMIO")
  BY DEF StageSkipped, Optional, Needed
<1>5. s \notin local
  BY <1>1, AtStage, RankNat
<1>6. /\ Rank(s) < Rank(n)
      /\ \A x \in Needed(iface[t]) : Rank(x) < Rank(n) => Rank(x) < Rank(s)
      /\ Rank("api") < Rank(s)
      /\ Rank("mode") < Rank(s) \/ s = "erdt"
      /\ \A x \in {"cpuinfo", "machine"} : Rank(x) < Rank(s) /\ Rank(x) < Rank(n)
      /\ Rank(s) \in Nat /\ Rank(n) \in Nat
  <2>1. CASE s = "erdt"
    BY <1>4, <2>1, RankIs DEF Needed
  <2>2. CASE s # "erdt"
    <3>1. \A x \in Needed(iface[t]) : Rank(x) < Rank(n) => Rank(x) < Rank(s) \/ x = s
      BY <2>2, StageOrder, AtStage, <1>1
    <3>2. Rank(s) < Rank(n) /\ Rank(s) \in Nat /\ Rank(n) \in Nat
      BY <2>2, StageOrder, AtStage, RankNat, <1>1
    <3> QED BY <1>4, <2>2, <3>1, <3>2, RankIs
  <2> QED BY <2>1, <2>2
<1>7. local' \subseteq up' /\ \A x \in local' : x \in Stages /\ Rank(x) < Rank(n)
  BY <1>1, <1>2, <1>3, <1>5, <1>6, AtStage, RankNat
<1>8. \A x \in Needed(iface[t]) : Rank(x) < Rank(n) => x \in local'
  BY <1>1, <1>3, <1>6, AtStage
<1>9. m_interface' = iface'[t]
  BY <1>1, <1>3, <1>6, AtStage
<1>10. ModeFits(iface[t], local)'
  BY <1>1, <1>3, <1>4, <1>5, <1>6, AtStage DEF ModeFits
<1>11. \A x \in {"cpuinfo", "machine"} : x \in up' <=> Rank(x) < Rank(n)
  BY <1>1, <1>2, <1>4, <1>6, AtStage
<1> HIDE DEF n
<1> QED BY <1>1, <1>7, <1>8, <1>9, <1>10, <1>11, OpenerAt

LEMMA SelectKeepsData ==
  ASSUME TypeOK, Control, Data, NEW t \in Thread, SelectInterface(t)
  PROVE  Data'
<1>1. CASE Fail(t, "interface", iface[t])
  BY <1>1, FailKeepsData DEF Stages
<1>2. ASSUME NEW i, Goto(t, "interface", "cpuinfo"), iface' = [iface EXCEPT ![t] = i],
             UNCHANGED <<library, lock, op, ret>>
      PROVE  Data'
  <2>1. at[t] = "interface" /\ at'[t] = "cpuinfo" /\ iface'[t] = i
        /\ at[t] \in Stages /\ at'[t] \in Stages
    BY <1>2 DEF Goto, TypeOK, Stages
  <2>2. /\ ~m_init_done' /\ op'[t] = "init"
        /\ \A u \in Thread \ {t} : at'[u] \notin Stages /\ op'[u] # "fini"
    BY <1>2, <2>1, AtStage DEF Goto, library, TypeOK
  <2>3. "log" \in Needed(iface[t]) /\ "log" \in local
    BY <2>1, AtStage, RankIs DEF Needed
  <2>4. /\ \A x \in Needed(i) : Rank(x) < Rank(at'[t]) => x \in local'
        /\ Rank(at'[t]) = 2 /\ Rank(at[t]) = 1
    BY <1>2, <2>1, <2>3, RankIs DEF Needed, library
  <2>5. local' \subseteq up' /\ \A x \in local' : x \in Stages /\ Rank(x) < Rank(at'[t])
    BY <1>2, <2>1, <2>4, AtStage, RankNat DEF library
  <2>6. \A x \in {"cpuinfo", "machine"} : x \in up' <=> Rank(x) < Rank(at'[t])
    BY <1>2, <2>1, <2>4, AtStage, RankIs DEF library
  <2>7. ~(Rank("api") < Rank(at'[t])) /\ ~(Rank("mode") < Rank(at'[t]))
    BY <2>4, RankIs
  <2> QED BY <2>1, <2>2, <2>4, <2>5, <2>6, <2>7, OpenerAt
<1> QED BY <1>1, <1>2 DEF SelectInterface

LEMMA ApiInitKeepsData ==
  ASSUME TypeOK, Control, Data, NEW t \in Thread, api_init(t)
  PROVE  Data'
<1>1. at[t] = "api" /\ at'[t] = "erdt" /\ at[t] \in Stages /\ at'[t] \in Stages
  BY DEF api_init, Goto, TypeOK, Stages
<1>2. /\ ~m_init_done' /\ op'[t] = "init"
      /\ \A u \in Thread \ {t} : at'[u] \notin Stages /\ op'[u] # "fini"
  BY <1>1, AtStage DEF api_init, Goto, TypeOK
<1>3. Rank(at'[t]) = 7 /\ Rank(at[t]) = 6
  BY <1>1, RankIs
<1>4. /\ up' = up /\ local' = local /\ iface' = iface /\ m_interface' = iface[t]
  BY DEF api_init
<1>5. local' \subseteq up' /\ \A x \in local' : x \in Stages /\ Rank(x) < Rank(at'[t])
  BY <1>1, <1>3, <1>4, AtStage, RankNat
<1>6. \A x \in Needed(iface'[t]) : Rank(x) < Rank(at'[t]) => x \in local'
  <2>1. \A x \in Needed(iface[t]) : Rank(x) < 7 => Rank(x) < 6
    BY RankIs DEF Needed
  <2> QED BY <1>1, <1>3, <1>4, <2>1, AtStage
<1>7. \A x \in {"cpuinfo", "machine"} : x \in up' <=> Rank(x) < Rank(at'[t])
  BY <1>1, <1>3, <1>4, AtStage, RankIs
<1>8. ~(Rank("mode") < Rank(at'[t]))
  BY <1>3, RankIs
<1> QED BY <1>1, <1>2, <1>4, <1>5, <1>6, <1>7, <1>8, OpenerAt

LEMMA SetModeKeepsData ==
  ASSUME "mode" \notin Faults, TypeOK, Control, Data, NEW t \in Thread, SetMode(t)
  PROVE  Data'
<1>1. /\ at[t] = "mode" /\ at'[t] = "alloc" /\ at[t] \in Stages /\ at'[t] \in Stages
      /\ mode' = mmio_set_mbm_mba_mode(IF iface[t] = "MMIO" THEN "region" ELSE "total",
                                       NumDomain)
  BY DEF SetMode, Reached, Goto, TypeOK, Stages
<1>2. /\ ~m_init_done' /\ op'[t] = "init"
      /\ \A u \in Thread \ {t} : at'[u] \notin Stages /\ op'[u] # "fini"
  BY <1>1, AtStage DEF SetMode, Goto, TypeOK
<1>3. Rank(at'[t]) = 10 /\ Rank(at[t]) = 9
  BY <1>1, RankIs
<1>4. up' = up /\ local' = local /\ iface' = iface /\ m_interface' = m_interface
  BY DEF SetMode
<1>5. local' \subseteq up' /\ \A x \in local' : x \in Stages /\ Rank(x) < Rank(at'[t])
  BY <1>1, <1>3, <1>4, AtStage, RankNat
<1>6. \A x \in Needed(iface'[t]) : Rank(x) < Rank(at'[t]) => x \in local'
  <2>1. \A x \in Needed(iface[t]) : Rank(x) < 10 => Rank(x) < 9
    BY RankIs DEF Needed
  <2> QED BY <1>1, <1>3, <1>4, <2>1, AtStage
<1>7. \A x \in {"cpuinfo", "machine"} : x \in up' <=> Rank(x) < Rank(at'[t])
  BY <1>1, <1>3, <1>4, AtStage, RankIs
<1>8. ModeFits(iface[t], local)'
  BY <1>1, <1>4, DomainAssumption DEF ModeFits, mmio_set_mbm_mba_mode
<1>9. m_interface' = iface'[t]
  BY <1>1, <1>3, <1>4, AtStage, RankIs
<1> QED BY <1>1, <1>2, <1>5, <1>6, <1>7, <1>8, <1>9, OpenerAt

\* pqos_init() begins with nothing of its own, and no pointer in m_sysconf.
LEMMA InitCheckKeepsData ==
  ASSUME TypeOK, Control, Data, NEW t \in Thread, InitCheck(t)
  PROVE  Data'
<1>1. ~m_init_done /\ op[t] = "init" /\ at[t] = "check"
  BY DEF InitCheck, Goto, Control, ClosedWhere
<1>2. /\ at'[t] = "log" /\ at'[t] \in Stages
      /\ \A u \in Thread : at[u] \notin Stages
      /\ \A u \in Thread \ {t} : at'[u] \notin Stages /\ op'[u] # "fini"
  BY <1>1, OpenerAlone DEF InitCheck, Goto, TypeOK, Stages
<1>3. local' = {} /\ up' = up /\ ~m_init_done' /\ op'[t] = "init"
  BY <1>1, <1>2 DEF InitCheck, Data, NothingGathered
<1>4. \A x \in {"cpuinfo", "machine"} : x \notin up /\ ~(Rank(x) < Rank(at'[t]))
  BY <1>1, <1>2, RankIs DEF Data, CoreParts
<1>5. \A x \in Needed(iface'[t]) : ~(Rank(x) < Rank(at'[t]))
  BY <1>2, RankIs DEF Needed
<1>6. ~(Rank("api") < Rank(at'[t])) /\ ~(Rank("mode") < Rank(at'[t]))
  BY <1>2, RankIs
<1> QED BY <1>2, <1>3, <1>4, <1>5, <1>6, OpenerAt

\* The library opens with what pqos_init() gathered.
LEMMA PublishKeepsData ==
  ASSUME TypeOK, Control, Data, NEW t \in Thread, Publish(t)
  PROVE  Data'
<1>1. at[t] = "publish" /\ at'[t] = "release" /\ at[t] \in Stages
      /\ at'[t] \notin Stages /\ Rank(at[t]) = 15
  BY RankIs DEF Publish, Goto, TypeOK, Stages
<1>2. /\ \A u \in Thread : at'[u] \notin Stages /\ op'[u] # "fini"
      /\ op'[t] = "init"
  BY <1>1, AtStage DEF Publish, Goto, TypeOK
<1>3. /\ m_init_done' /\ m_sysconf' = local \cap Pointers /\ local' = {}
      /\ up' = up /\ m_interface' = m_interface /\ mode' = mode
  BY DEF Publish
<1>4. /\ Needed(iface[t]) \subseteq local /\ m_interface = iface[t]
      /\ ModeFits(iface[t], local) /\ local \subseteq up
  <2>1. \A x \in Needed(iface[t]) : Rank(x) < 15
    BY RankIs DEF Needed
  <2> QED BY <1>1, <2>1, AtStage, RankIs
<1>5. OpenSound'
  <2>1. Needed(m_interface) \ {"log", "machine"} \subseteq Pointers
    BY DEF Needed, Pointers
  <2>2. "log" \in Needed(iface[t]) /\ "machine" \in Needed(iface[t])
    BY DEF Needed
  <2> QED BY <1>3, <1>4, <2>1, <2>2 DEF OpenSound
<1>6. CoreParts'
  <2>1. "cpuinfo" \in up /\ "machine" \in up
    BY <1>4 DEF Needed
  <2> QED BY <1>3, <2>1 DEF CoreParts
<1>7. ModeMatches'
  BY <1>3, <1>4 DEF ModeMatches, ModeFits
<1> QED BY <1>2, <1>3, <1>5, <1>6, <1>7
           DEF Data, Gathers, NothingGathered, FiniKnows

LEMMA FiniKeepsData ==
  ASSUME TypeOK, Control, Data, NEW t \in Thread, FiniCheck(t) \/ FiniBody(t)
  PROVE  Data'
<1>1. /\ op[t] = "fini" /\ op' = op /\ iface' = iface
      /\ at[t] \notin Stages /\ at'[t] \notin Stages
      /\ \A u \in Thread \ {t} : at[u] \notin Stages /\ op[u] # "fini" /\ at'[u] = at[u]
  <2>1. op[t] = "fini"
    BY DEF FiniCheck, FiniBody
  <2> QED BY <2>1, OpenerAlone DEF FiniCheck, FiniBody, Goto, TypeOK, Stages
<1>2. \A u \in Thread : at[u] \notin Stages /\ at'[u] \notin Stages
  BY <1>1
<1>3. m_init_done /\ iface[t] = m_interface
  BY <1>1 DEF FiniCheck, FiniBody, Goto, Data, FiniKnows
<1>4. CASE FiniCheck(t)
  <2>1. UNCHANGED <<m_init_done, m_sysconf, m_interface, up, local>>
    BY <1>4 DEF FiniCheck
  <2>2. FiniKnows' /\ ModeMatches'
    BY <1>1, <1>3, <2>1 DEF FiniKnows, ModeMatches, Data
  <2> QED BY <1>2, <1>3, <2>1, <2>2
             DEF Data, Gathers, NothingGathered, CoreParts, OpenSound
<1>5. CASE FiniBody(t)
  <2>1. ~m_init_done' /\ local' = local /\ up' = up \ Finalised(iface[t])
        /\ at'[t] = "release"
    BY <1>5 DEF FiniBody, Goto, TypeOK
  <2>2. "cpuinfo" \notin up' /\ "machine" \notin up'
    BY <2>1 DEF Finalised
  <2>3. FiniKnows'
    BY <1>1, <2>1 DEF FiniKnows
  <2> QED BY <1>2, <2>1, <2>2, <2>3
             DEF Data, Gathers, NothingGathered, CoreParts, OpenSound, ModeMatches
<1> QED BY <1>4, <1>5

LEMMA NextData ==
  ASSUME Disciplined, "mode" \notin Faults
  PROVE  TypeOK /\ Control /\ Data /\ [Next]_vars => Data'
<1> SUFFICES ASSUME TypeOK, Control, Data, [Next]_vars PROVE Data'
  OBVIOUS
<1>1. CASE UNCHANGED vars
  <2>1. UNCHANGED library /\ at' = at /\ op' = op /\ iface' = iface
    BY <1>1 DEF vars, library
  <2>2. FiniKnows'
    BY <2>1 DEF FiniKnows, Data, library
  <2> QED BY <2>1, <2>2, DataKept
<1>2. ASSUME NEW t \in Thread, Call(t) PROVE Data'
  BY <1>2, LockKeepsData DEF Call
<1>3. ASSUME NEW t \in Thread, Step(t) PROVE Data'
  <2>1. ASSUME NEW s \in Stages \ {"interface", "api", "mode", "publish"},
               StageOk(t, s) \/ StageFails(t, s) \/ StageSkipped(t, s)
        PROVE  Data'
    BY <2>1, StageOkKeepsData, FailKeepsData, StageSkippedKeepsData DEF StageFails
  <2> QED
    BY <1>3, <2>1, LockKeepsData, InitCheckKeepsData, SelectKeepsData, ApiInitKeepsData,
       SetModeKeepsData, PublishKeepsData, FiniKeepsData DEF Step
<1> QED BY <1>1, <1>2, <1>3 DEF Next

LEMMA DataIsSound == TypeOK /\ Control /\ Data => DataSound
<1> SUFFICES ASSUME TypeOK, Control, Data PROVE DataSound
  OBVIOUS
<1>1. NothingDangles
  <2> SUFFICES ASSUME m_init_done
               PROVE  /\ m_sysconf \subseteq up
                      /\ {"log", "cpuinfo", "machine", "cap"}
                           \subseteq up \cap (m_sysconf \cup {"log", "machine"})
                      /\ m_interface = "MMIO" =>
                           {"erdt", "mrrm", "cores_domains", "iordt"} \subseteq m_sysconf
    BY DEF NothingDangles, Control, ClosedWhere
  <2> QED BY DEF Data, OpenSound, Needed
<1>2. NothingTwice
  <2> SUFFICES ASSUME NEW t \in Thread
               PROVE  /\ at[t] \in {"cpuinfo", "machine"} => at[t] \notin up
                      /\ op[t] = "fini" /\ at[t] = "body" =>
                           /\ {"log", "cpuinfo", "machine", "cap"} \subseteq up
                           /\ iface[t] = "MMIO" => {"cores_domains", "mrrm"} \subseteq up
    BY DEF NothingTwice
  <2>1. at[t] \in {"cpuinfo", "machine"} => at[t] \notin up
    BY AtStage, RankIs DEF Stages
  <2>2. ASSUME op[t] = "fini", at[t] = "body"
        PROVE  /\ {"log", "cpuinfo", "machine", "cap"} \subseteq up
               /\ iface[t] = "MMIO" => {"cores_domains", "mrrm"} \subseteq up
    BY <2>2 DEF Data, FiniKnows, OpenSound, Needed
  <2> QED BY <2>1, <2>2
<1>3. FiniFindsErdt
  BY DEF FiniFindsErdt, ErdtLive, Data, FiniKnows, OpenSound, Needed
<1> QED BY <1>1, <1>2, <1>3 DEF DataSound, Data

\* Whichever stages of earlier pqos_init() calls failed, and however the calls
\* of the threads interleave: an API call finds no pointer to freed data and
\* every part it needs, nothing is initialised or freed twice, the domains are
\* in the mode of the interface and pqos_fini() finds the ERDT data.  A failure
\* to map a domain's register is excluded: pqos_init() then reports success
\* with stages left out, and the statement is false.
THEOREM LibraryDataSound ==
  ASSUME Disciplined, "mode" \notin Faults
  PROVE  Spec => []DataSound
<1>1. Init => Data
  BY InitData
<1>2. (TypeOK /\ Control) /\ Data /\ [Next]_vars => Data'
  BY NextData
<1>3. (TypeOK /\ Control) /\ Data => DataSound
  BY DataIsSound
<1> QED BY ControlInvariant, <1>1, <1>2, <1>3, PTL DEF Spec

=============================================================================
