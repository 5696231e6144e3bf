------------------------------- MODULE Rounds -------------------------------
(***************************************************************************)
(* The life of the manager across the parallel statements of one run of    *)
(* the program: function.cpp creates a manager thread per statement        *)
(* (Init), starts it with turn = manager and joins it (MyWaitForObject);   *)
(* the manager deletes the thread tree, whose root stands for the main     *)
(* thread, so ~Node makes the manager join the main thread in turn.        *)
(* TurnHandoff is what happens inside one statement; here the tree is      *)
(* executed in one step.                                                   *)
(***************************************************************************)
EXTENDS Naturals

CONSTANTS
  Ids,        \* the pthread_t values the managers can have
  Zero,       \* the pthread_t 0
  MaxRounds,  \* bound: managers created in a run
  JoinReportsDeadlock  \* does pthread_join return EDEADLK to the second of two
                       \* threads that join each other?  POSIX leaves it open;
                       \* the C library of the recorded builds does

ASSUME RoundsAssumption ==
  /\ Zero \notin Ids
  /\ MaxRounds \in Nat
  /\ JoinReportsDeadlock \in BOOLEAN

VARIABLES
  turn,        \* the global turn, as far as main and the managers set it
  manager,     \* the global manager
  threadRoot,  \* is threadRoot set?
  mapped,      \* does threadIDToNode have the main thread's node?
  ran,         \* has the current statement been executed?
  rounds,      \* managers created so far
  reused,      \* has a manager got the id of an earlier one? (history)
  mgr,         \* where the manager thread of each id is
  mainPc       \* where the main thread is

vars == <<turn, manager, threadRoot, mapped, ran, rounds, reused, mgr, mainPc>>
globals == <<turn, manager, threadRoot, mapped>>

MgrLabels == {"unused", "retired", "boot", "checkroot", "run", "delete",
              "erased", "joinmain", "unroot", "ended"}
MainLabels == {"program", "rooting", "building", "joining", "joined",
               "clearing", "aborted"}

Init ==
  /\ turn = Zero /\ manager = Zero
  /\ threadRoot = FALSE /\ mapped = FALSE /\ ran = FALSE
  /\ rounds = 0 /\ reused = FALSE
  /\ mgr = [m \in Ids |-> "unused"]
  /\ mainPc = "program"

MainGoto(from, to) == mainPc \in from /\ mainPc' = to

Over(m) == mgr[m] \in {"unused", "retired"}

MgrGoto(m, from, to) == mgr[m] = from /\ mgr' = [mgr EXCEPT ![m] = to]

(***************************************************************************)
(* MyCreateThread as the main thread calls it.  With no root it is the     *)
(* first of a statement: Init starts a manager, then plants the root.      *)
(* pthread_create may give the manager the id of one that was joined:      *)
(* POSIX allows it, and glibc, which caches stacks, does it.               *)
(***************************************************************************)
FirstThread(m) ==
  /\ ~threadRoot
  /\ rounds < MaxRounds
  /\ Over(m)
  /\ MainGoto({"program", "building"}, "rooting")
  /\ mgr' = [mgr EXCEPT ![m] = "boot"]
  /\ reused' = (reused \/ mgr[m] = "retired")
  /\ manager' = m
  /\ rounds' = rounds + 1
  /\ ran' = FALSE
  /\ UNCHANGED <<turn, threadRoot, mapped>>

(* The Node constructor asserts that the thread has no node yet. *)
PlantRoot ==
  /\ ~mapped
  /\ MainGoto({"rooting"}, "building")
  /\ mapped' = TRUE
  /\ threadRoot' = TRUE
  /\ UNCHANGED <<turn, manager, ran, rounds, reused, mgr>>

(* A root that was left over from an earlier statement is taken for the    *)
(* root of this one; without the main thread's node map.at throws.         *)
LeftoverRoot ==
  /\ threadRoot
  /\ mapped
  /\ MainGoto({"program"}, "building")
  /\ UNCHANGED <<globals, ran, rounds, reused, mgr>>

LostNode ==
  /\ threadRoot
  /\ ~mapped
  /\ MainGoto({"program", "building"}, "aborted")
  /\ UNCHANGED <<globals, ran, rounds, reused, mgr>>

(***************************************************************************)
(* MyWaitForObject: turn = manager, and then pthread_join(manager).        *)
(***************************************************************************)
(* Mutant: turn = pthread_self(), the id of the main thread. *)
StartManager_Self ==
  /\ MainGoto({"building"}, "joining")
  /\ turn' = "main"
  /\ UNCHANGED <<manager, threadRoot, mapped, ran, rounds, reused, mgr>>

StartManager ==
  /\ MainGoto({"building"}, "joining")
  /\ turn' = manager
  /\ UNCHANGED <<manager, threadRoot, mapped, ran, rounds, reused, mgr>>

JoinsMain(m) == m \in Ids /\ mgr[m] = "joinmain"

Join ==
  /\ manager # Zero
  /\ ~(JoinReportsDeadlock /\ JoinsMain(manager))
  /\ MainGoto({"joining"}, "joined")
  /\ UNCHANGED <<globals, ran, rounds, reused, mgr>>

JoinEdeadlk ==
  /\ JoinReportsDeadlock /\ JoinsMain(manager)
  /\ MainGoto({"joining"}, "clearing")
  /\ UNCHANGED <<globals, ran, rounds, reused, mgr>>

(* pthread_join(0) reads the descriptor of no thread. *)
JoinZero ==
  /\ manager = Zero
  /\ MainGoto({"joining"}, "aborted")
  /\ UNCHANGED <<globals, ran, rounds, reused, mgr>>

JoinReturns ==
  /\ MainGoto({"joined"}, "clearing")
  /\ MgrGoto(manager, "ended", "retired")
  /\ UNCHANGED <<globals, ran, rounds, reused>>

ClearManager ==
  /\ MainGoto({"clearing"}, "program")
  /\ manager' = Zero
  /\ UNCHANGED <<turn, threadRoot, mapped, ran, rounds, reused, mgr>>

(***************************************************************************)
(* ManagerThread.  It compares the two globals, not its own id.            *)
(***************************************************************************)
(* Mutant: the manager does not wait for the turn. *)
AwaitTurn_Missing(m) ==
  /\ MgrGoto(m, "boot", "checkroot")
  /\ UNCHANGED <<globals, ran, rounds, reused, mainPc>>

AwaitTurn(m) ==
  /\ turn = manager
  /\ MgrGoto(m, "boot", "checkroot")
  /\ UNCHANGED <<globals, ran, rounds, reused, mainPc>>

(* Mutant: the test of threadRoot is left out. *)
NoRoot_Untested(m) ==
  /\ MgrGoto(m, "checkroot", "ended")
  /\ UNCHANGED <<globals, ran, rounds, reused, mainPc>>

NoRoot(m) ==
  /\ ~threadRoot
  /\ MgrGoto(m, "checkroot", "ended")
  /\ UNCHANGED <<globals, ran, rounds, reused, mainPc>>

HasRoot(m) ==
  /\ threadRoot
  /\ MgrGoto(m, "checkroot", "run")
  /\ UNCHANGED <<globals, ran, rounds, reused, mainPc>>

(* Mutant: the loop is not left when the root has become EMPTY. *)
ExcuteTree_NoBreak(m) ==
  /\ MgrGoto(m, "run", "run")
  /\ ran' = TRUE
  /\ UNCHANGED <<globals, rounds, reused, mainPc>>

ExcuteTree(m) ==
  /\ MgrGoto(m, "run", "delete")
  /\ ran' = TRUE
  /\ UNCHANGED <<globals, rounds, reused, mainPc>>

(* delete threadRoot: ~Node erases the entry and then joins its thread,    *)
(* the main thread.                                                        *)
(* Mutant: threadRoot is set to NULL before the tree is deleted. *)
EraseRoot_RootFirst(m) ==
  /\ MgrGoto(m, "delete", "erased")
  /\ mapped' = FALSE
  /\ threadRoot' = FALSE
  /\ UNCHANGED <<turn, manager, ran, rounds, reused, mainPc>>

EraseRoot(m) ==
  /\ MgrGoto(m, "delete", "erased")
  /\ mapped' = FALSE
  /\ UNCHANGED <<turn, manager, threadRoot, ran, rounds, reused, mainPc>>

RootJoinBlocks(m) ==
  /\ ~(JoinReportsDeadlock /\ mainPc = "joined" /\ manager = m)
  /\ MgrGoto(m, "erased", "joinmain")
  /\ UNCHANGED <<globals, ran, rounds, reused, mainPc>>

RootJoinEdeadlk(m) ==
  /\ JoinReportsDeadlock /\ mainPc = "joined" /\ manager = m
  /\ MgrGoto(m, "erased", "unroot")
  /\ UNCHANGED <<globals, ran, rounds, reused, mainPc>>

(* Mutant: threadRoot is left dangling. *)
UnsetRoot_Missing(m) ==
  /\ MgrGoto(m, "unroot", "ended")
  /\ UNCHANGED <<globals, ran, rounds, reused, mainPc>>

UnsetRoot(m) ==
  /\ MgrGoto(m, "unroot", "ended")
  /\ threadRoot' = FALSE
  /\ UNCHANGED <<turn, manager, mapped, ran, rounds, reused, mainPc>>

-----------------------------------------------------------------------------
MainNext ==
  \/ \E m \in Ids : FirstThread(m)
  \/ PlantRoot \/ LeftoverRoot \/ LostNode
  \/ StartManager
  \/ Join \/ JoinEdeadlk \/ JoinZero \/ JoinReturns
  \/ ClearManager

MgrNext(m) ==
  \/ AwaitTurn(m) \/ NoRoot(m) \/ HasRoot(m) \/ ExcuteTree(m)
  \/ EraseRoot(m) \/ RootJoinBlocks(m) \/ RootJoinEdeadlk(m) \/ UnsetRoot(m)

(* The program is over, or the runtime has terminated it. *)
Finished ==
  /\ \/ mainPc = "aborted"
     \/ mainPc = "program" /\ rounds = MaxRounds
  /\ UNCHANGED vars

Next == MainNext \/ (\E m \in Ids : MgrNext(m)) \/ Finished

Spec == Init /\ [][Next]_vars

(* The main thread goes on with its program, and a manager the kernel can  *)
(* run is run; the program may end at any point between two statements.    *)
Fairness ==
  /\ WF_vars(MainNext /\ mainPc # "program")
  /\ \A m \in Ids : WF_vars(MgrNext(m))

FairSpec == Spec /\ Fairness

-----------------------------------------------------------------------------
TypeOK ==
  /\ turn \in Ids \cup {Zero}
  /\ manager \in Ids \cup {Zero}
  /\ threadRoot \in BOOLEAN /\ mapped \in BOOLEAN /\ ran \in BOOLEAN
  /\ rounds \in 0 .. MaxRounds /\ reused \in BOOLEAN
  /\ mgr \in [Ids -> MgrLabels]
  /\ mainPc \in MainLabels

(* The managers that read or write the tree and threadRoot. *)
Working == {m \in Ids : mgr[m] \in {"checkroot", "run", "delete", "erased", "unroot"}}

(***************************************************************************)
(* A manager works on the tree only while the main thread waits for it:    *)
(* never while the main thread still builds the tree, never across two     *)
(* statements.  It holds as long as no manager has the id of an earlier    *)
(* one, and no longer.                                                     *)
(***************************************************************************)
TreeExclusion == Working # {} => mainPc \in {"joining", "joined"}
TreeExclusionUnlessReused == reused \/ TreeExclusion

(***************************************************************************)
(* No two managers ever work on the tree at the same time, whatever ids    *)
(* they have.                                                              *)
(***************************************************************************)
OneManager == \A m, n \in Working : m = n

(***************************************************************************)
(* When MyWaitForObject lets the main thread go on, the statement has been *)
(* executed.                                                               *)
(***************************************************************************)
ReturnsExecuted == mainPc = "clearing" => ran \/ reused

(***************************************************************************)
(* The one way a run of the program is terminated by the runtime is that a *)
(* manager joined the main thread before the main thread joined it.        *)
(***************************************************************************)
AbortsOnlyByJoinRace ==
  mainPc = "aborted" => reused \/ \E m \in Ids : mgr[m] = "joinmain"

(***************************************************************************)
(* The inductive strengthening for a program in which no id has been       *)
(* reused: turn never names a manager still to be created, every manager   *)
(* but the current one is over or stuck in the join of main, and the phase *)
(* of the main thread bounds what the current manager can be doing.        *)
(***************************************************************************)
TurnIsOld == turn # Zero => mgr[turn] # "unused"

OthersOver ==
  \A m \in Ids : m = manager \/ Over(m) \/ (mgr[m] = "joinmain" /\ mainPc \in {"program", "aborted"})

Phase ==
  /\ mainPc \in {"rooting", "building"} =>
       manager \in Ids /\ turn # manager /\ mgr[manager] = "boot"
  /\ mainPc = "rooting" => ~threadRoot /\ ~mapped
  /\ mainPc = "building" => threadRoot /\ mapped
  /\ mainPc \in {"joining", "joined"} => manager \in Ids /\ ~Over(manager)
  /\ mainPc = "clearing" =>
       ran /\ manager \in Ids /\ mgr[manager] \in {"retired", "joinmain"}
  /\ mainPc \in {"program", "aborted"} => manager = Zero
  /\ mainPc = "aborted" => \E m \in Ids : mgr[m] = "joinmain"

RootFollowsManager ==
  /\ \A m \in Ids :
       /\ mgr[m] \in {"checkroot", "run", "delete"} => threadRoot /\ mapped
       /\ mgr[m] \in {"erased", "joinmain", "unroot"} => threadRoot /\ ~mapped /\ ran
       /\ mgr[m] = "ended" => ~threadRoot /\ ~mapped /\ ran
       /\ mgr[m] = "delete" => ran
       /\ mgr[m] = "boot" => mainPc \in {"rooting", "building", "joining", "joined"}
       /\ mgr[m] = "boot" /\ mainPc # "rooting" => threadRoot /\ mapped
  /\ (\A m \in Ids : Over(m)) => ~threadRoot /\ ~mapped

FreshInv == TurnIsOld /\ OthersOver /\ Phase /\ RootFollowsManager

RoundsInv == TypeOK /\ (reused \/ FreshInv)

(***************************************************************************)
(* The inductive strengthening of OneManager, reuse or not: a manager that *)
(* has started and not ended is the one manager names, and whenever the    *)
(* main thread can create the next one there is none.                      *)
(***************************************************************************)
Active(m) == mgr[m] \notin {"unused", "retired", "ended", "joinmain"}

OneManagerInv ==
  /\ TypeOK
  /\ \A m \in Ids : Active(m) => m = manager
  /\ mainPc = "building" /\ ~threadRoot => \A m \in Ids : ~Active(m)
  /\ mainPc \in {"clearing", "program"} => \A m \in Ids : ~Active(m)
  /\ mainPc = "rooting" =>
       ~threadRoot /\ \A m \in Ids : Active(m) => mgr[m] \in {"boot", "checkroot"}

(***************************************************************************)
(* MyWaitForObject waits for the manager thread to end (the comment at the *)
(* join says so).                                                          *)
(***************************************************************************)
ManagerHasEnded ==
  mainPc = "clearing" => \A m \in Ids : mgr[m] \in {"unused", "retired"}

(***************************************************************************)
(* MyWaitForObject returns; after an id was reused it may instead end in   *)
(* the join of thread 0, but it never waits for ever.                      *)
(***************************************************************************)
WaitReturns ==
  mainPc = "joining" ~> (mainPc = "program" \/ (reused /\ mainPc = "aborted"))
=============================================================================
