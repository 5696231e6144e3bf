------------------------- MODULE TurnHandoffProofs -------------------------
(***************************************************************************)
(* The safety properties of TurnHandoff, for any set of workers.  All of   *)
(* them follow from the inductive invariant IInv: a thread past its check  *)
(* of turn has the turn, and a turn that is out is out to the node the     *)
(* manager is executing; the mutexes matter only for NoLostWakeup.         *)
(***************************************************************************)
EXTENDS TurnHandoff, TLAPS

(* The invariant, opened: what every step of the proof below works with. *)
USE ThreadsAssumption DEF TypeOK, WorkerTurnInv, ManagerTurnInv, MainTurnInv, ChildInv,
  MutexInv, SleepInv, NoLostWakeup, OnlyMainJoins, IInv, TurnLabels, HandoffLabels

USE DEF Threads, WorkerLabels, MainLabels, ManagerLabels, CreatorLabels,
  tree, locks, Goto, Acquire, Release

(* The state before the first MyCreateThread satisfies the invariant. *)
LEMMA InitInv == Init => IInv
  BY DEF Init

(* Building the tree: MyCreateThread and the two halves of it that follow. *)
LEMMA CreatorInv ==
  ASSUME IInv, NEW c \in Workers \cup {Main}, CreatorNext(c)
  PROVE  IInv'
<1>1. ASSUME NEW w \in Workers, MyCreateThread(c, w) PROVE IInv'
  BY <1>1 DEF MyCreateThread
<1>2. CASE RegisterNode(c)  BY <1>2 DEF RegisterNode
<1>3. CASE AttachNode(c)  BY <1>3 DEF AttachNode
<1>4. CASE MyWaitForObject(c)  BY <1>4 DEF MyWaitForObject
<1>5. CASE StartManager(c)  BY <1>5 DEF StartManager
<1>6. CASE JoinManager(c)  BY <1>6 DEF JoinManager
<1>7. QED  BY <1>1, <1>2, <1>3, <1>4, <1>5, <1>6 DEF CreatorNext

(* A worker: initialisation, waiting for the turn, pausing, ending. *)
LEMMA WorkerInv ==
  ASSUME IInv, NEW w \in Workers, WorkerNext(w)
  PROVE  IInv'
<1>1. CASE FindOwnNode(w)  BY <1>1 DEF FindOwnNode
<1>2. CASE SetIsInit(w)  BY <1>2 DEF SetIsInit
<1>3. CASE LockInit(w)  BY <1>3 DEF LockInit
<1>4. CASE CheckTurn(w)  BY <1>4 DEF CheckTurn
<1>5. CASE CheckNotTurn(w)  BY <1>5 DEF CheckNotTurn
<1>6. CASE CondWait(w)  BY <1>6 DEF CondWait
<1>7. CASE SpuriousWakeup(w)  BY <1>7 DEF SpuriousWakeup
<1>8. CASE Relock(w)  BY <1>8 DEF Relock
<1>9. CASE UnlockAndRun(w)  BY <1>9 DEF UnlockAndRun
<1>10. CASE MyPauseThread(w)  BY <1>10 DEF MyPauseThread
<1>11. CASE PauseLock(w)  BY <1>11 DEF PauseLock
<1>12. CASE PauseGiveTurn(w)  BY <1>12 DEF PauseGiveTurn
<1>13. CASE ExitThread(w)  BY <1>13 DEF ExitThread
<1>14. QED
  BY <1>1, <1>2, <1>3, <1>4, <1>5, <1>6, <1>7, <1>8, <1>9, <1>10, <1>11, <1>12, <1>13
  DEF WorkerNext

(* The manager: one hand-off, and its end. *)
LEMMA ManagerInv ==
  ASSUME IInv, ManagerNext
  PROVE  IInv'
<1>1. CASE ManagerStart  BY <1>1 DEF ManagerStart
<1>2. ASSUME NEW w \in Workers, Excute(w) PROVE IInv'
  BY <1>2 DEF Excute
<1>3. CASE AwaitInit  BY <1>3 DEF AwaitInit
<1>4. CASE ManagerLock  BY <1>4 DEF ManagerLock
<1>5. CASE GiveTurn  BY <1>5 DEF GiveTurn
<1>6. CASE ManagerUnlock  BY <1>6 DEF ManagerUnlock
<1>7. CASE Signal  BY <1>7 DEF Signal
<1>8. CASE TurnIsBack  BY <1>8 DEF TurnIsBack
<1>9. CASE TurnIsOut  BY <1>9 DEF TurnIsOut
<1>10. CASE ProbeAlive  BY <1>10 DEF ProbeAlive
<1>11. CASE ProbeExited  BY <1>11 DEF ProbeExited, isExit
<1>12. CASE ManagerReturn  BY <1>12 DEF ManagerReturn
<1>13. QED
  BY <1>1, <1>2, <1>3, <1>4, <1>5, <1>6, <1>7, <1>8, <1>9, <1>10, <1>11, <1>12
  DEF ManagerNext

(* Every step of the hand-off preserves the invariant. *)
LEMMA StepInv == IInv /\ [Next]_vars => IInv'
<1>. SUFFICES ASSUME IInv, [Next]_vars PROVE IInv'
  OBVIOUS
<1>1. ASSUME UNCHANGED vars PROVE IInv'
  BY <1>1 DEF vars
<1>2. CASE Next
  <2>1. ASSUME NEW c \in Workers \cup {Main}, CreatorNext(c) PROVE IInv'
    BY <2>1, CreatorInv
  <2>2. ASSUME NEW w \in Workers, WorkerNext(w) PROVE IInv'
    BY <2>2, WorkerInv
  <2>3. CASE ManagerNext
    BY <2>3, ManagerInv
  <2>4. CASE Finished
    BY <2>4, <1>1 DEF Finished
  <2>5. QED
    BY <1>2, <2>1, <2>2, <2>3, <2>4 DEF Next
<1>3. QED
  BY <1>1, <1>2


(* Two threads in control are the same thread. *)
LEMMA OneInControl ==
  ASSUME IInv, NEW s \in InControl, NEW t \in InControl
  PROVE  s = t
<1>1. CASE s \in Workers /\ t \in Workers
  BY <1>1 DEF InControl
<1>2. CASE s = Main \/ t = Main
  BY <1>2 DEF InControl
<1>3. CASE s = Manager \/ t = Manager
  BY <1>3 DEF InControl
<1>4. QED
  BY <1>1, <1>2, <1>3 DEF InControl

-----------------------------------------------------------------------------
(***************************************************************************)
(* The hand-off implements the safety half of Baton.                       *)
(***************************************************************************)
RInv == IInv /\ SpawnInv /\ AliveInv

LEMMA RInitInv == Init => RInv
  BY InitInv DEF Init, RInv, SpawnInv, AliveInv, Building

LEMMA SpawnStep ==
  ASSUME IInv, SpawnInv, [Next]_vars
  PROVE  SpawnInv'
<1>. USE DEF SpawnInv, Building
<1>1. ASSUME NEW c \in Workers \cup {Main}, CreatorNext(c)
      PROVE  SpawnInv'
  <2>1. ASSUME NEW w \in Workers, MyCreateThread(c, w) PROVE SpawnInv'
    BY <2>1 DEF MyCreateThread
  <2>2. CASE RegisterNode(c)  BY <2>2 DEF RegisterNode
  <2>3. CASE AttachNode(c)  BY <2>3 DEF AttachNode
  <2>4. CASE MyWaitForObject(c)  BY <2>4 DEF MyWaitForObject
  <2>5. CASE StartManager(c)  BY <2>5 DEF StartManager
  <2>6. CASE JoinManager(c)  BY <2>6 DEF JoinManager
  <2>7. QED  BY <1>1, <2>1, <2>2, <2>3, <2>4, <2>5, <2>6 DEF CreatorNext
<1>2. ASSUME NEW w \in Workers, WorkerNext(w)
      PROVE  SpawnInv'
  BY <1>2 DEF WorkerNext, FindOwnNode, SetIsInit, LockInit, CheckTurn, CheckNotTurn,
     CondWait, SpuriousWakeup, Relock, UnlockAndRun, MyPauseThread, PauseLock,
     PauseGiveTurn, ExitThread
<1>3. CASE ManagerNext
  BY <1>3 DEF ManagerNext, ManagerStart, Excute, AwaitInit, ManagerLock, GiveTurn,
     ManagerUnlock, Signal, TurnIsBack, TurnIsOut, ProbeAlive, ProbeExited, ManagerReturn
<1>4. CASE UNCHANGED vars
  BY <1>4 DEF vars
<1>5. QED
  BY <1>1, <1>2, <1>3, <1>4 DEF Next, Finished

LEMMA AliveStep ==
  ASSUME IInv, SpawnInv, AliveInv, [Next]_vars
  PROVE  AliveInv'
<1>. USE DEF AliveInv
<1>1. ASSUME NEW c \in Workers \cup {Main}, CreatorNext(c)
      PROVE  AliveInv'
  BY <1>1 DEF CreatorNext, MyCreateThread, RegisterNode, AttachNode, MyWaitForObject,
     StartManager, JoinManager
<1>2. ASSUME NEW w \in Workers, WorkerNext(w)
      PROVE  AliveInv'
  BY <1>2 DEF WorkerNext, FindOwnNode, SetIsInit, LockInit, CheckTurn, CheckNotTurn,
     CondWait, SpuriousWakeup, Relock, UnlockAndRun, MyPauseThread, PauseLock,
     PauseGiveTurn, ExitThread
<1>3. CASE ManagerNext
  BY <1>3 DEF ManagerNext, ManagerStart, Excute, AwaitInit, ManagerLock, GiveTurn,
     ManagerUnlock, Signal, TurnIsBack, TurnIsOut, ProbeAlive, ProbeExited, ManagerReturn,
     isExit, SpawnInv
<1>4. CASE UNCHANGED vars
  BY <1>4 DEF vars
<1>5. QED
  BY <1>1, <1>2, <1>3, <1>4 DEF Next, Finished

LEMMA RStep == RInv /\ [Next]_vars => RInv'
  BY StepInv, SpawnStep, AliveStep DEF RInv

(* What the refinement mapping makes of the variables. *)
Holder == IF pc[Main] = "done" \/ turn = NoTurn THEN Main ELSE turn
Living == {w \in Workers : pc[w] \notin {"unborn", "exited"}}
Ended == {w \in Workers : pc[w] = "exited"}
Retired == pc[Manager] = "exited"

USE DEF Holder, Living, Ended, Retired

LEMMA MapInit == Init => Implemented!Init
  BY DEF Init, Implemented!Init

(* Steps of the hand-off the abstraction does not see. *)
LEMMA Stutter ==
  ASSUME IInv, IInv', turn' = turn,
         (pc[Main] = "done") = (pc'[Main] = "done"),
         Living' = Living, Ended' = Ended, Retired' = Retired
  PROVE  UNCHANGED Implemented!batonVars
  BY DEF Implemented!batonVars

LEMMA CreatorMaps ==
  ASSUME RInv, RInv', NEW c \in Workers \cup {Main}, CreatorNext(c)
  PROVE  [Implemented!Next]_(Implemented!batonVars)
<1>. USE DEF RInv
<1>1. ASSUME NEW w \in Workers, MyCreateThread(c, w) PROVE Implemented!Spawn(w)
  BY <1>1 DEF MyCreateThread, Implemented!Spawn
<1>2. CASE RegisterNode(c)
  BY <1>2, Stutter DEF RegisterNode
<1>3. CASE AttachNode(c)
  BY <1>3, Stutter DEF AttachNode
<1>4. CASE MyWaitForObject(c)
  BY <1>4, Stutter DEF MyWaitForObject
<1>5. ASSUME StartManager(c) PROVE Implemented!Surrender
  BY <1>5 DEF StartManager, Implemented!Surrender
<1>6. ASSUME JoinManager(c) PROVE Implemented!Resume
  BY <1>6 DEF JoinManager, Implemented!Resume
<1>7. QED
  BY <1>1, <1>2, <1>3, <1>4, <1>5, <1>6
  DEF CreatorNext, Implemented!Next, Implemented!Return

LEMMA WorkerMaps ==
  ASSUME RInv, RInv', NEW w \in Workers, WorkerNext(w)
  PROVE  [Implemented!Next]_(Implemented!batonVars)
<1>. USE DEF RInv
<1>1. ASSUME FindOwnNode(w) \/ SetIsInit(w) \/ LockInit(w) \/ CheckTurn(w)
               \/ CheckNotTurn(w) \/ CondWait(w) \/ SpuriousWakeup(w) \/ Relock(w)
               \/ UnlockAndRun(w) \/ MyPauseThread(w) \/ PauseLock(w)
      PROVE  UNCHANGED Implemented!batonVars
  BY <1>1, Stutter
  DEF FindOwnNode, SetIsInit, LockInit, CheckTurn, CheckNotTurn, CondWait,
      SpuriousWakeup, Relock, UnlockAndRun, MyPauseThread, PauseLock
<1>2. ASSUME PauseGiveTurn(w) PROVE Implemented!Surrender
  BY <1>2 DEF PauseGiveTurn, Implemented!Surrender
<1>3. ASSUME ExitThread(w) PROVE Implemented!End
  BY <1>3 DEF ExitThread, Implemented!End
<1>4. QED
  BY <1>1, <1>2, <1>3 DEF WorkerNext, Implemented!Next, Implemented!Return

LEMMA ManagerMaps ==
  ASSUME KillReportsExit, RInv, RInv', ManagerNext
  PROVE  [Implemented!Next]_(Implemented!batonVars)
<1>. USE DEF RInv
<1>1. ASSUME ManagerStart \/ (\E w \in Workers : Excute(w)) \/ AwaitInit \/ ManagerLock
               \/ ManagerUnlock \/ Signal \/ TurnIsBack \/ TurnIsOut \/ ProbeAlive
      PROVE  UNCHANGED Implemented!batonVars
  BY <1>1, Stutter
  DEF ManagerStart, Excute, AwaitInit, ManagerLock, ManagerUnlock, Signal, TurnIsBack,
      TurnIsOut, ProbeAlive
<1>2. ASSUME GiveTurn PROVE Implemented!Grant(cur) /\ cur \in Workers
  BY <1>2 DEF GiveTurn, AliveInv, Implemented!Grant
<1>3. ASSUME ProbeExited PROVE Implemented!Reclaim \/ UNCHANGED Implemented!batonVars
  BY <1>3 DEF ProbeExited, isExit, Implemented!Reclaim, Implemented!batonVars
<1>4. ASSUME ManagerReturn PROVE Implemented!Retire
  BY <1>4 DEF ManagerReturn, SpawnInv, Building, Implemented!Retire
<1>5. QED
  BY <1>1, <1>2, <1>3, <1>4 DEF ManagerNext, Implemented!Next, Implemented!Return

(* Every step of the hand-off is a step of the baton or leaves it alone. *)
LEMMA StepMaps ==
  ASSUME KillReportsExit, RInv, RInv', [Next]_vars
  PROVE  [Implemented!Next]_(Implemented!batonVars)
<1>1. CASE UNCHANGED vars
  BY <1>1, Stutter DEF vars, RInv
<1>2. CASE Next
  BY <1>1, <1>2, CreatorMaps, WorkerMaps, ManagerMaps DEF Next, Finished
<1>3. QED
  BY <1>1, <1>2

-----------------------------------------------------------------------------
(* From here on the definitions are closed again: the theorems follow from *)
(* the lemmas by temporal reasoning.                                       *)
HIDE DEF TypeOK, WorkerTurnInv, ManagerTurnInv, MainTurnInv, ChildInv, MutexInv, SleepInv,
  NoLostWakeup, OnlyMainJoins, IInv, TurnLabels, HandoffLabels, Threads, WorkerLabels,
  MainLabels, ManagerLabels, CreatorLabels, tree, locks, Goto, Acquire, Release,
  Holder, Living, Ended, Retired

(* The invariant holds in every reachable state. *)
LEMMA Invariance == Spec => []IInv
  BY InitInv, StepInv, PTL DEF Spec

(***************************************************************************)
(* The variables of the hand-off always have their types, and every thread *)
(* is at a label of its own program.                                       *)
(***************************************************************************)
THEOREM Typing == Spec => []TypeOK
<1>1. IInv => TypeOK
  BY DEF IInv
<1>2. QED
  BY <1>1, Invariance, PTL

(***************************************************************************)
(* For any number of workers, the thread tree, the statement stack and the *)
(* program's variables are touched by at most one thread at a time,        *)
(* although only turn and the sched_yield loops guard them.                *)
(***************************************************************************)
THEOREM Exclusion == Spec => []MutualExclusion
<1>1. IInv => MutualExclusion
  BY OneInControl DEF MutualExclusion
<1>2. QED
  BY <1>1, Invariance, PTL

(***************************************************************************)
(* A worker that was given the turn never sleeps through the signal:       *)
(* MyPauseThread and excute() both hold the node's mutex where it matters. *)
(***************************************************************************)
THEOREM WakeupsArrive == Spec => []NoLostWakeup
<1>1. IInv => NoLostWakeup
  BY DEF IInv
<1>2. QED
  BY <1>1, Invariance, PTL

(***************************************************************************)
(* No worker ever joins the manager: the static hasWaited tells the main   *)
(* thread's call of MyWaitForObject from every later one.                  *)
(***************************************************************************)
THEOREM MainAloneJoins == Spec => []OnlyMainJoins
<1>1. IInv => OnlyMainJoins
  BY DEF IInv
<1>2. QED
  BY <1>1, Invariance, PTL

(***************************************************************************)
(* Where pthread_kill reports the exit of a thread, the hand-off by turn,  *)
(* mutexes and polling lends the baton to living workers only, and only    *)
(* from the manager; main resumes only after the manager has retired.      *)
(***************************************************************************)
THEOREM Refinement ==
  ASSUME KillReportsExit
  PROVE  Spec => Implemented!Promise
<1>1. RInv /\ RInv' /\ [Next]_vars => [Implemented!Next]_(Implemented!batonVars)
  BY StepMaps
<1>2. QED
  BY <1>1, MapInit, RInitInv, RStep, PTL DEF Spec, Implemented!Promise
=============================================================================
