--------------------------- MODULE RoundsProofs ---------------------------
(***************************************************************************)
(* The safety properties of Rounds for any number of statements: the       *)
(* invariant of a program in which no manager has got the id of an earlier *)
(* one, and, with or without such reuse, that managers work one at a time. *)
(***************************************************************************)
EXTENDS Rounds, TLAPS

USE RoundsAssumption DEF TypeOK, Over, MgrLabels, MainLabels, globals, MainGoto, MgrGoto

-----------------------------------------------------------------------------
(* Types: every action keeps every variable in its range. *)
LEMMA TypeInit == Init => TypeOK
<1>. SUFFICES ASSUME Init PROVE TypeOK
  OBVIOUS
<1>1. rounds \in 0 .. MaxRounds /\ mgr \in [Ids -> MgrLabels]
  BY DEF Init
<1>2. QED
  BY <1>1 DEF Init

LEMMA MainType ==
  ASSUME TypeOK, MainNext
  PROVE  TypeOK'
<1>1. ASSUME NEW m \in Ids, FirstThread(m) PROVE TypeOK'
  <2>1. rounds' \in 0 .. MaxRounds
    BY <1>1 DEF FirstThread
  <2>2. mgr' \in [Ids -> MgrLabels]
    BY <1>1 DEF FirstThread
  <2>3. QED
    BY <1>1, <2>1, <2>2 DEF FirstThread
<1>2. CASE PlantRoot  BY <1>2 DEF PlantRoot
<1>3. CASE LeftoverRoot  BY <1>3 DEF LeftoverRoot
<1>4. CASE LostNode  BY <1>4 DEF LostNode
<1>5. CASE StartManager  BY <1>5 DEF StartManager
<1>6. CASE Join  BY <1>6 DEF Join
<1>7. CASE JoinEdeadlk  BY <1>7 DEF JoinEdeadlk
<1>8. CASE JoinZero  BY <1>8 DEF JoinZero
<1>9. CASE JoinReturns  BY <1>9 DEF JoinReturns
<1>10. CASE ClearManager  BY <1>10 DEF ClearManager
<1>11. QED
  BY <1>1, <1>2, <1>3, <1>4, <1>5, <1>6, <1>7, <1>8, <1>9, <1>10 DEF MainNext

LEMMA MgrType ==
  ASSUME TypeOK, NEW m \in Ids, MgrNext(m)
  PROVE  TypeOK'
<1>1. CASE AwaitTurn(m)  BY <1>1 DEF AwaitTurn
<1>2. CASE NoRoot(m)  BY <1>2 DEF NoRoot
<1>3. CASE HasRoot(m)  BY <1>3 DEF HasRoot
<1>4. CASE ExcuteTree(m)  BY <1>4 DEF ExcuteTree
<1>5. CASE EraseRoot(m)  BY <1>5 DEF EraseRoot
<1>6. CASE RootJoinBlocks(m)  BY <1>6 DEF RootJoinBlocks
<1>7. CASE RootJoinEdeadlk(m)  BY <1>7 DEF RootJoinEdeadlk
<1>8. CASE UnsetRoot(m)  BY <1>8 DEF UnsetRoot
<1>9. QED
  BY <1>1, <1>2, <1>3, <1>4, <1>5, <1>6, <1>7, <1>8 DEF MgrNext

LEMMA TypeStep == TypeOK /\ [Next]_vars => TypeOK'
  BY MainType, MgrType DEF Next, Finished, vars

-----------------------------------------------------------------------------
(* The invariant of a program without reuse.  A step that reuses no id     *)
(* keeps it: the main thread first, then a manager.                        *)
USE DEF TurnIsOld, OthersOver, Phase, RootFollowsManager, FreshInv

(* Before the first statement no manager exists and no global is set. *)
LEMMA FreshInit == Init => FreshInv
<1>. SUFFICES ASSUME Init PROVE FreshInv
  OBVIOUS
<1>1. TurnIsOld /\ OthersOver /\ Phase
  BY DEF Init
<1>2. RootFollowsManager
  BY DEF Init
<1>3. QED
  BY <1>1, <1>2

(* The main thread: building, starting the manager, joining it. *)
LEMMA MainStep ==
  ASSUME TypeOK, FreshInv, MainNext, ~reused'
  PROVE  FreshInv'
<1>1. ASSUME NEW m \in Ids, FirstThread(m) PROVE FreshInv'
  <2>. USE <1>1 DEF FirstThread
  <2>1. /\ mgr'[m] = "boot" /\ mgr[m] = "unused"
        /\ \A n \in Ids \ {m} : mgr'[n] = mgr[n] /\ Over(n)
    OBVIOUS
  <2>2. TurnIsOld' /\ OthersOver' /\ Phase'
    BY <2>1
  <2>3. RootFollowsManager'
    BY <2>1
  <2>4. QED
    BY <2>2, <2>3
<1>2. CASE PlantRoot  BY <1>2 DEF PlantRoot
<1>3. CASE LeftoverRoot  BY <1>3 DEF LeftoverRoot
<1>4. CASE LostNode  BY <1>4 DEF LostNode
<1>5. CASE StartManager  BY <1>5 DEF StartManager
<1>6. CASE Join  BY <1>6 DEF Join, JoinsMain
<1>7. CASE JoinEdeadlk  BY <1>7 DEF JoinEdeadlk, JoinsMain
<1>8. CASE JoinZero  BY <1>8 DEF JoinZero
<1>9. CASE JoinReturns  BY <1>9 DEF JoinReturns
<1>10. CASE ClearManager  BY <1>10 DEF ClearManager
<1>11. QED
  BY <1>1, <1>2, <1>3, <1>4, <1>5, <1>6, <1>7, <1>8, <1>9, <1>10 DEF MainNext

(* A manager: from its wait for the turn to the deletion of the tree. *)
LEMMA MgrStep ==
  ASSUME TypeOK, FreshInv, NEW m \in Ids, MgrNext(m)
  PROVE  FreshInv'
<1>1. CASE AwaitTurn(m)  BY <1>1 DEF AwaitTurn
<1>2. CASE NoRoot(m)  BY <1>2 DEF NoRoot
<1>3. CASE HasRoot(m)  BY <1>3 DEF HasRoot
<1>4. CASE ExcuteTree(m)  BY <1>4 DEF ExcuteTree
<1>5. CASE EraseRoot(m)  BY <1>5 DEF EraseRoot
<1>6. CASE RootJoinBlocks(m)  BY <1>6 DEF RootJoinBlocks
<1>7. CASE RootJoinEdeadlk(m)  BY <1>7 DEF RootJoinEdeadlk
<1>8. CASE UnsetRoot(m)  BY <1>8 DEF UnsetRoot
<1>9. QED
  BY <1>1, <1>2, <1>3, <1>4, <1>5, <1>6, <1>7, <1>8 DEF MgrNext

(* Every step preserves the invariant; one that reuses an id, trivially. *)
LEMMA RoundsStep == RoundsInv /\ [Next]_vars => RoundsInv'
<1>. SUFFICES ASSUME RoundsInv, [Next]_vars PROVE RoundsInv'
  OBVIOUS
<1>1. TypeOK'
  BY TypeStep DEF RoundsInv
<1>2. ~reused' => ~reused
  BY DEF Next, MainNext, MgrNext, Finished, vars, FirstThread, PlantRoot, LeftoverRoot, LostNode,
     StartManager, Join, JoinEdeadlk, JoinZero, JoinReturns, ClearManager, AwaitTurn, NoRoot,
     HasRoot, ExcuteTree, EraseRoot, RootJoinBlocks, RootJoinEdeadlk, UnsetRoot
<1>3. ASSUME ~reused' PROVE FreshInv'
  BY <1>2, <1>3, MainStep, MgrStep DEF RoundsInv, Next, Finished, vars
<1>4. QED
  BY <1>1, <1>3 DEF RoundsInv

(* What the invariant says of the three properties. *)
LEMMA RoundsInvImplies ==
  RoundsInv => TypeOK /\ TreeExclusionUnlessReused /\ ReturnsExecuted /\ AbortsOnlyByJoinRace
  BY DEF RoundsInv, TreeExclusionUnlessReused, TreeExclusion, Working, ReturnsExecuted,
     AbortsOnlyByJoinRace

HIDE DEF TurnIsOld, OthersOver, Phase, RootFollowsManager, FreshInv

-----------------------------------------------------------------------------
(* One manager at a time, whether ids are reused or not. *)
USE DEF OneManagerInv, Active

LEMMA OneInit == Init => OneManagerInv
<1>. SUFFICES ASSUME Init PROVE OneManagerInv
  OBVIOUS
<1>1. TypeOK
  BY TypeInit
<1>2. QED
  BY <1>1 DEF Init

LEMMA OneMain ==
  ASSUME OneManagerInv, MainNext
  PROVE  OneManagerInv'
<1>. TypeOK'
  BY MainType
<1>1. ASSUME NEW m \in Ids, FirstThread(m) PROVE OneManagerInv'
  <2>1. \A n \in Ids : ~Active(n)
    BY <1>1 DEF FirstThread
  <2>2. mgr'[m] = "boot" /\ \A n \in Ids \ {m} : mgr'[n] = mgr[n]
    BY <1>1 DEF FirstThread
  <2>3. QED
    BY <1>1, <2>1, <2>2 DEF FirstThread
<1>2. CASE PlantRoot  BY <1>2 DEF PlantRoot
<1>3. CASE LeftoverRoot  BY <1>3 DEF LeftoverRoot
<1>4. CASE LostNode  BY <1>4 DEF LostNode
<1>5. CASE StartManager  BY <1>5 DEF StartManager
<1>6. CASE Join  BY <1>6 DEF Join, JoinsMain
<1>7. CASE JoinEdeadlk  BY <1>7 DEF JoinEdeadlk, JoinsMain
<1>8. CASE JoinZero  BY <1>8 DEF JoinZero
<1>9. CASE JoinReturns  BY <1>9 DEF JoinReturns
<1>10. CASE ClearManager  BY <1>10 DEF ClearManager
<1>11. QED
  BY <1>1, <1>2, <1>3, <1>4, <1>5, <1>6, <1>7, <1>8, <1>9, <1>10 DEF MainNext

LEMMA OneMgr ==
  ASSUME OneManagerInv, NEW m \in Ids, MgrNext(m)
  PROVE  OneManagerInv'
<1>. TypeOK'
  BY MgrType
<1>1. CASE AwaitTurn(m)  BY <1>1 DEF AwaitTurn
<1>2. CASE NoRoot(m)  BY <1>2 DEF NoRoot
<1>3. CASE HasRoot(m)  BY <1>3 DEF HasRoot
<1>4. CASE ExcuteTree(m)  BY <1>4 DEF ExcuteTree
<1>5. CASE EraseRoot(m)  BY <1>5 DEF EraseRoot
<1>6. CASE RootJoinBlocks(m)  BY <1>6 DEF RootJoinBlocks
<1>7. CASE RootJoinEdeadlk(m)  BY <1>7 DEF RootJoinEdeadlk
<1>8. CASE UnsetRoot(m)  BY <1>8 DEF UnsetRoot
<1>9. QED
  BY <1>1, <1>2, <1>3, <1>4, <1>5, <1>6, <1>7, <1>8 DEF MgrNext

LEMMA OneStep == OneManagerInv /\ [Next]_vars => OneManagerInv'
  BY OneMain, OneMgr DEF Next, Finished, vars

LEMMA OneManagerInvImplies == OneManagerInv => OneManager
  BY DEF OneManager, Working

-----------------------------------------------------------------------------
(* From here on the definitions are closed again. *)
HIDE DEF TypeOK, Over, MgrLabels, MainLabels, globals, MainGoto, MgrGoto, OneManagerInv, Active

(* The two invariants hold in every reachable state. *)
LEMMA RoundsInvariance == Spec => []RoundsInv
<1>1. Init => RoundsInv
  BY TypeInit, FreshInit DEF RoundsInv
<1>2. QED
  BY <1>1, RoundsStep, PTL DEF Spec

LEMMA OneManagerInvariance == Spec => []OneManagerInv
  BY OneInit, OneStep, PTL DEF Spec

(***************************************************************************)
(* Type correctness: every global holds a value of its type, whatever ids  *)
(* pthread_create returns and however the two joins race.                  *)
(***************************************************************************)
THEOREM TypesAreCorrect == Spec => []TypeOK
  BY RoundsInvImplies, RoundsInvariance, PTL

(***************************************************************************)
(* Until an id is reused, no manager touches the thread tree before the    *)
(* main thread has built it and waits, however many statements run.        *)
(***************************************************************************)
THEOREM TreeIsExclusive == Spec => []TreeExclusionUnlessReused
  BY RoundsInvImplies, RoundsInvariance, PTL

(***************************************************************************)
(* Until an id is reused, MyWaitForObject returns only after the statement *)
(* has been executed, even when pthread_join fails.                        *)
(***************************************************************************)
THEOREM ReturnsAfterExecution == Spec => []ReturnsExecuted
  BY RoundsInvImplies, RoundsInvariance, PTL

(***************************************************************************)
(* Until an id is reused, the runtime terminates the program only after a  *)
(* manager has won the race to join the main thread.                       *)
(***************************************************************************)
THEOREM AbortNeedsJoinRace == Spec => []AbortsOnlyByJoinRace
  BY RoundsInvImplies, RoundsInvariance, PTL

(***************************************************************************)
(* No two managers ever work on the thread tree at once: not even when the *)
(* next one starts early on the stale turn of the last.                    *)
(***************************************************************************)
THEOREM ManagersAreSerial == Spec => []OneManager
  BY OneManagerInvImplies, OneManagerInvariance, PTL
=============================================================================
