---------------------------- MODULE TurnHandoff ----------------------------
(***************************************************************************)
(* The hand-off of the turn in function.cpp, one action per access to a    *)
(* shared object: the main thread and the workers build the thread tree    *)
(* (MyCreateThread), pause (MyPauseThread, MyPauseThreadInit,              *)
(* MyWaitForObject), and the manager gives the turn to one node after      *)
(* another (LeafNode::excute and the same lines of KeepNode and AlwNode).  *)
(* Which node the manager picks belongs to the thread tree; here it picks  *)
(* any attached node.  One parallel statement, from the creation of the    *)
(* manager to the return of MyWaitForObject; what happens across two of    *)
(* them is module Rounds.                                                  *)
(***************************************************************************)
EXTENDS FiniteSets

CONSTANTS
  Main,      \* the main thread, whose node is threadRoot
  Manager,   \* the thread that runs ManagerThread
  Workers,   \* the threads MyCreateThread can create
  NoTurn,    \* the initial value 0 of turn
  Nobody,    \* no mutex owner, no node
  KillReportsExit  \* does pthread_kill(t, 0) fail for a thread that returned
                   \* and is not joined?  TRUE up to glibc 2.33, the C library
                   \* of the recorded builds included; FALSE from 2.34 on

ASSUME ThreadsAssumption ==
  /\ Main # Manager /\ Main \notin Workers /\ Manager \notin Workers
  /\ NoTurn \notin Workers \cup {Main, Manager}
  /\ Nobody \notin Workers \cup {Main, Manager}
  /\ KillReportsExit \in BOOLEAN

VARIABLES
  turn,        \* the global turn
  hasWaited,   \* the static local of MyWaitForObject
  registered,  \* workers whose Node is in threadIDToNode
  attached,    \* workers whose Node is in its father's childs
  isInit,      \* Node::isInit
  mutex,       \* owner of the mutex of each node
  sleeping,    \* workers blocked in pthread_cond_wait on their node's cond
  child,       \* the thread a creator is putting into the tree
  cur,         \* the node the manager is executing
  pc           \* where each thread is

vars == <<turn, hasWaited, registered, attached, isInit, mutex, sleeping,
          child, cur, pc>>

tree == <<registered, attached, isInit, child>>
locks == <<mutex, sleeping>>

Threads == Workers \cup {Main, Manager}

(* In the code the program runs while it has the turn. *)
CreatorLabels == {"user", "register", "attach"}
WorkerLabels ==
  CreatorLabels \cup {"unborn", "lookup", "setinit", "lock", "check",
                      "tosleep", "wait", "unlock", "plock", "pset", "yield",
                      "join", "done", "exited"}
MainLabels == CreatorLabels \cup {"yield", "join", "done"}
ManagerLabels == {"boot", "sched", "awaitinit", "mlock", "give", "munlock",
                  "signal", "spin", "probe", "exited"}

(***************************************************************************)
(* Steps shared by several actions.                                        *)
(***************************************************************************)
Goto(t, from, to) ==
  /\ pc[t] = from
  /\ pc' = [pc EXCEPT ![t] = to]

Acquire(t, n) ==
  /\ mutex[n] = Nobody
  /\ mutex' = [mutex EXCEPT ![n] = t]

Release(n) == mutex' = [mutex EXCEPT ![n] = Nobody]

(* What pthread_kill(thread, 0) lets the manager know of a thread that has *)
(* returned.                                                               *)
isExit(w) == KillReportsExit /\ pc[w] = "exited"

Init ==
  /\ turn = NoTurn
  /\ hasWaited = FALSE
  /\ registered = {}
  /\ attached = {}
  /\ isInit = [w \in Workers |-> FALSE]
  /\ mutex = [w \in Workers |-> Nobody]
  /\ sleeping = {}
  /\ child = [c \in Workers \cup {Main} |-> Nobody]
  /\ cur = Nobody
  /\ pc = [t \in Threads |-> IF t = Main THEN "user"
                             ELSE IF t = Manager THEN "boot" ELSE "unborn"]

(***************************************************************************)
(* MyCreateThread, called by the thread that has the turn.  The new thread *)
(* runs from pthread_create on, before its node exists: first the Node     *)
(* constructor enters the node into threadIDToNode, then the creator       *)
(* appends it to the father's childs.                                      *)
(***************************************************************************)
MyCreateThread(c, w) ==
  /\ pc[c] = "user" /\ pc[w] = "unborn"
  /\ pc' = [pc EXCEPT ![c] = "register", ![w] = "lookup"]
  /\ child' = [child EXCEPT ![c] = w]
  /\ UNCHANGED <<turn, hasWaited, locks, registered, attached, isInit, cur>>

RegisterNode(c) ==
  /\ Goto(c, "register", "attach")
  /\ registered' = registered \cup {child[c]}
  /\ isInit' = [isInit EXCEPT ![child[c]] = FALSE]
  /\ UNCHANGED <<turn, hasWaited, locks, attached, child, cur>>

(* Mutant: the local variable is cleared before it is used. *)
AttachNode_ClearedFirst(c) ==
  /\ Goto(c, "attach", "user")
  /\ child' = [child EXCEPT ![c] = Nobody]
  /\ attached' = attached \cup {child'[c]}
  /\ UNCHANGED <<turn, hasWaited, registered, isInit, locks, cur>>

AttachNode(c) ==
  /\ Goto(c, "attach", "user")
  /\ attached' = attached \cup {child[c]}
  /\ child' = [child EXCEPT ![c] = Nobody]
  /\ UNCHANGED <<turn, hasWaited, locks, registered, isInit, cur>>

(***************************************************************************)
(* MyPauseThreadInit, the first call of every worker: poll the map for the *)
(* own node, declare it initialised, and wait for the turn.                *)
(***************************************************************************)
FindOwnNode(w) ==
  /\ w \in registered
  /\ Goto(w, "lookup", "setinit")
  /\ UNCHANGED <<turn, hasWaited, tree, locks, cur>>

SetIsInit(w) ==
  /\ Goto(w, "setinit", "lock")
  /\ isInit' = [isInit EXCEPT ![w] = TRUE]
  /\ UNCHANGED <<turn, hasWaited, locks, registered, attached, child, cur>>

LockInit(w) ==
  /\ Goto(w, "lock", "check")
  /\ Acquire(w, w)
  /\ UNCHANGED <<turn, hasWaited, tree, sleeping, cur>>

(***************************************************************************)
(* The loop while(turn != tempID) pthread_cond_wait(cond, mutex), shared   *)
(* by MyPauseThread and MyPauseThreadInit.  Reading turn and going to      *)
(* sleep are two steps; the wait releases the mutex and blocks in one, and *)
(* may also return without a signal.                                       *)
(***************************************************************************)
CheckTurn(w) ==
  /\ turn = w
  /\ Goto(w, "check", "unlock")
  /\ UNCHANGED <<turn, hasWaited, tree, locks, cur>>

CheckNotTurn(w) ==
  /\ turn # w
  /\ Goto(w, "check", "tosleep")
  /\ UNCHANGED <<turn, hasWaited, tree, locks, cur>>

CondWait(w) ==
  /\ Goto(w, "tosleep", "wait")
  /\ Release(w)
  /\ sleeping' = sleeping \cup {w}
  /\ UNCHANGED <<turn, hasWaited, tree, cur>>

SpuriousWakeup(w) ==
  /\ w \in sleeping
  /\ sleeping' = sleeping \ {w}
  /\ UNCHANGED <<turn, hasWaited, tree, mutex, cur, pc>>

(* Mutant: if(turn != tempID) in place of the while. *)
Relock_IfForWhile(w) ==
  /\ w \notin sleeping
  /\ Goto(w, "wait", "unlock")
  /\ Acquire(w, w)
  /\ UNCHANGED <<turn, hasWaited, tree, sleeping, cur>>

Relock(w) ==
  /\ w \notin sleeping
  /\ Goto(w, "wait", "check")
  /\ Acquire(w, w)
  /\ UNCHANGED <<turn, hasWaited, tree, sleeping, cur>>

UnlockAndRun(w) ==
  /\ Goto(w, "unlock", "user")
  /\ Release(w)
  /\ UNCHANGED <<turn, hasWaited, tree, sleeping, cur>>

(***************************************************************************)
(* MyPauseThread: give the turn to the manager under the own mutex, so     *)
(* that the manager cannot give it back before this thread waits for it.   *)
(***************************************************************************)
MyPauseThread(w) ==
  /\ Goto(w, "user", "plock")
  /\ UNCHANGED <<turn, hasWaited, tree, locks, cur>>

PauseLock(w) ==
  /\ Goto(w, "plock", "pset")
  /\ Acquire(w, w)
  /\ UNCHANGED <<turn, hasWaited, tree, sleeping, cur>>

PauseGiveTurn(w) ==
  /\ Goto(w, "pset", "check")
  /\ turn' = Manager
  /\ UNCHANGED <<hasWaited, tree, locks, cur>>

(* The thread function returns; it leaves turn as it is. *)
ExitThread(w) ==
  /\ Goto(w, "user", "exited")
  /\ UNCHANGED <<turn, hasWaited, tree, locks, cur>>

(***************************************************************************)
(* MyWaitForObject: the first caller starts the manager and joins it, any  *)
(* later caller pauses.                                                    *)
(***************************************************************************)
(* Mutant: hasWaited is never set. *)
MyWaitForObject_Unmarked(c) ==
  /\ IF hasWaited THEN Goto(c, "user", "plock") ELSE Goto(c, "user", "yield")
  /\ UNCHANGED <<turn, hasWaited, tree, locks, cur>>

MyWaitForObject(c) ==
  /\ IF hasWaited THEN Goto(c, "user", "plock") ELSE Goto(c, "user", "yield")
  /\ hasWaited' = TRUE
  /\ UNCHANGED <<turn, tree, locks, cur>>

StartManager(c) ==
  /\ Goto(c, "yield", "join")
  /\ turn' = Manager
  /\ UNCHANGED <<hasWaited, tree, locks, cur>>

JoinManager(c) ==
  /\ pc[Manager] = "exited"
  /\ Goto(c, "join", "done")
  /\ hasWaited' = FALSE
  /\ UNCHANGED <<turn, tree, locks, cur>>

(***************************************************************************)
(* The manager: ManagerThread waits for the turn, then executes nodes of   *)
(* the tree.  excute() of a leaf, keep or alw node returns at once when    *)
(* the thread has ended, waits until the thread has initialised itself,    *)
(* gives it the turn under the node's mutex, signals after the unlock, and *)
(* polls until the turn comes back or the thread has ended.                *)
(***************************************************************************)
ManagerStart ==
  /\ turn = Manager
  /\ Goto(Manager, "boot", "sched")
  /\ UNCHANGED <<turn, hasWaited, tree, locks, cur>>

(* Mutant: excute() does not ask isExit() first. *)
Excute_NoExitTest(w) ==
  /\ w \in attached
  /\ Goto(Manager, "sched", "awaitinit")
  /\ cur' = w
  /\ UNCHANGED <<turn, hasWaited, tree, locks>>

Excute(w) ==
  /\ w \in attached
  /\ ~isExit(w)
  /\ Goto(Manager, "sched", "awaitinit")
  /\ cur' = w
  /\ UNCHANGED <<turn, hasWaited, tree, locks>>

AwaitInit ==
  /\ Goto(Manager, "awaitinit", "mlock")
  /\ isInit[cur]
  /\ UNCHANGED <<turn, hasWaited, tree, locks, cur>>

(* Mutant: the manager sets turn without the node's mutex. *)
ManagerLock_Missing ==
  /\ Goto(Manager, "mlock", "give")
  /\ UNCHANGED <<turn, hasWaited, tree, locks, cur>>

ManagerLock ==
  /\ Goto(Manager, "mlock", "give")
  /\ Acquire(Manager, cur)
  /\ UNCHANGED <<turn, hasWaited, tree, sleeping, cur>>

GiveTurn ==
  /\ Goto(Manager, "give", "munlock")
  /\ turn' = cur
  /\ UNCHANGED <<hasWaited, tree, locks, cur>>

ManagerUnlock ==
  /\ Goto(Manager, "munlock", "signal")
  /\ Release(cur)
  /\ UNCHANGED <<turn, hasWaited, tree, sleeping, cur>>

(* Mutant: the signal is left out. *)
Signal_Missing ==
  /\ Goto(Manager, "signal", "spin")
  /\ UNCHANGED <<turn, hasWaited, tree, locks, cur>>

Signal ==
  /\ Goto(Manager, "signal", "spin")
  /\ sleeping' = sleeping \ {cur}
  /\ UNCHANGED <<turn, hasWaited, tree, mutex, cur>>

TurnIsBack ==
  /\ turn = Manager
  /\ Goto(Manager, "spin", "sched")
  /\ cur' = Nobody
  /\ UNCHANGED <<turn, hasWaited, tree, locks>>

TurnIsOut ==
  /\ turn # Manager
  /\ Goto(Manager, "spin", "probe")
  /\ UNCHANGED <<turn, hasWaited, tree, locks, cur>>

ProbeAlive ==
  /\ Goto(Manager, "probe", "spin")
  /\ ~isExit(cur)
  /\ UNCHANGED <<turn, hasWaited, tree, locks, cur>>

ProbeExited ==
  /\ Goto(Manager, "probe", "sched")
  /\ isExit(cur)
  /\ turn' = Manager
  /\ cur' = Nobody
  /\ UNCHANGED <<hasWaited, tree, locks>>

(* The statement is over; the manager returns and leaves turn as it is. *)
ManagerReturn ==
  /\ \A w \in attached : pc[w] = "exited"
  /\ Goto(Manager, "sched", "exited")
  /\ UNCHANGED <<turn, hasWaited, tree, locks, cur>>

-----------------------------------------------------------------------------
CreatorNext(c) ==
  \/ \E w \in Workers : MyCreateThread(c, w)
  \/ RegisterNode(c) \/ AttachNode(c)
  \/ MyWaitForObject(c) \/ StartManager(c) \/ JoinManager(c)

WorkerNext(w) ==
  \/ FindOwnNode(w) \/ SetIsInit(w) \/ LockInit(w)
  \/ CheckTurn(w) \/ CheckNotTurn(w)
  \/ CondWait(w) \/ SpuriousWakeup(w) \/ Relock(w) \/ UnlockAndRun(w)
  \/ MyPauseThread(w) \/ PauseLock(w) \/ PauseGiveTurn(w)
  \/ ExitThread(w)

ManagerNext ==
  \/ ManagerStart
  \/ \E w \in Workers : Excute(w)
  \/ AwaitInit \/ ManagerLock \/ GiveTurn \/ ManagerUnlock \/ Signal
  \/ TurnIsBack \/ TurnIsOut \/ ProbeAlive \/ ProbeExited
  \/ ManagerReturn

(* After the statement the main thread runs on alone. *)
Finished == pc[Main] = "done" /\ UNCHANGED vars

Next ==
  \/ \E c \in Workers \cup {Main} : CreatorNext(c)
  \/ \E w \in Workers : WorkerNext(w)
  \/ ManagerNext
  \/ Finished

Spec == Init /\ [][Next]_vars

(***************************************************************************)
(* Fairness.  Every thread the kernel can run is eventually run (weak      *)
(* fairness of each thread's own steps).  A mutex that is free again and   *)
(* again is eventually acquired by the manager (strong fairness, needed    *)
(* only because a waiter may wake up spuriously for ever).  The program is *)
(* cooperative: a thread that runs eventually pauses or returns, as the    *)
(* library requires of it.  Spurious wakeups and the creation of threads   *)
(* are never forced.                                                       *)
(***************************************************************************)
CreatorStep(c) == RegisterNode(c) \/ AttachNode(c) \/ StartManager(c) \/ JoinManager(c)

WaiterStep(w) ==
  \/ FindOwnNode(w) \/ SetIsInit(w) \/ LockInit(w) \/ CheckTurn(w)
  \/ CheckNotTurn(w) \/ CondWait(w) \/ Relock(w) \/ UnlockAndRun(w) \/ PauseLock(w) \/ PauseGiveTurn(w)

LeaveUser(w) == MyPauseThread(w) \/ ExitThread(w) \/ MyWaitForObject(w)

Fairness ==
  /\ \A c \in Workers \cup {Main} : WF_vars(CreatorStep(c))
  /\ \A w \in Workers : WF_vars(WaiterStep(w)) /\ WF_vars(LeaveUser(w))
  /\ WF_vars(MyWaitForObject(Main))
  /\ WF_vars(ManagerNext)
  /\ SF_vars(ManagerLock)

FairSpec == Spec /\ Fairness

-----------------------------------------------------------------------------
TypeOK ==
  /\ turn \in Workers \cup {Manager, NoTurn}
  /\ hasWaited \in BOOLEAN
  /\ registered \subseteq Workers
  /\ attached \subseteq Workers
  /\ isInit \in [Workers -> BOOLEAN]
  /\ mutex \in [Workers -> Workers \cup {Manager, Nobody}]
  /\ sleeping \subseteq Workers
  /\ child \in [Workers \cup {Main} -> Workers \cup {Nobody}]
  /\ cur \in Workers \cup {Nobody}
  /\ pc \in [Threads -> WorkerLabels \cup MainLabels \cup ManagerLabels]
  /\ \A w \in Workers : pc[w] \in WorkerLabels
  /\ pc[Main] \in MainLabels
  /\ pc[Manager] \in ManagerLabels

(* The threads that may read or write the thread tree, the statement stack *)
(* and the program's variables: all of these are shared without a lock.    *)
InControl ==
  {w \in Workers : pc[w] \in {"unlock", "user", "register", "attach", "plock", "pset"}}
    \cup {c \in {Main} : pc[c] \in {"user", "register", "attach", "yield", "done"}}
    \cup {m \in {Manager} : pc[m] \in {"sched", "awaitinit", "mlock", "give"}}

(***************************************************************************)
(* At most one thread touches the unlocked shared state: the manager       *)
(* between two hand-offs, or the one worker it gave the turn to, or the    *)
(* main thread before MyWaitForObject starts the manager and after the     *)
(* manager has ended.  Everything else in function.cpp relies on it.       *)
(***************************************************************************)
MutualExclusion == \A s, t \in InControl : s = t

(***************************************************************************)
(* No wakeup is lost: a worker that has the turn sleeps on its condition   *)
(* variable only while the manager is still on its way to signal it.       *)
(***************************************************************************)
NoLostWakeup ==
  \A w \in Workers : turn = w /\ w \in sleeping =>
    cur = w /\ pc[Manager] \in {"munlock", "signal"}

(***************************************************************************)
(* Only the main thread ever gets past hasWaited to pthread_join; a worker *)
(* that did would wait for a manager that waits for it.                    *)
(***************************************************************************)
OnlyMainJoins == \A w \in Workers : pc[w] \notin {"yield", "join", "done"}

(***************************************************************************)
(* The inductive strengthening.  A thread that is past the check of turn   *)
(* has the turn, a turn that is out is out to cur, and the mutex of a node *)
(* is held exactly at the labels between its lock and its unlock.          *)
(***************************************************************************)
TurnLabels == {"unlock", "user", "register", "attach", "plock", "pset"}
HandoffLabels == {"awaitinit", "mlock", "give", "munlock", "signal", "spin", "probe"}

WorkerTurnInv == \A w \in Workers : pc[w] \in TurnLabels => turn = w

ManagerTurnInv ==
  /\ pc[Manager] \in {"sched", "awaitinit", "mlock", "give", "exited"} => turn = Manager
  /\ turn \in Workers => turn = cur /\ pc[Manager] \in {"munlock", "signal", "spin", "probe"}
  /\ pc[Manager] \in HandoffLabels => cur \in Workers

MainTurnInv ==
  /\ pc[Main] \in {"user", "register", "attach", "yield"} =>
       turn = NoTurn /\ pc[Manager] = "boot"
  /\ pc[Main] \in {"user", "register", "attach"} => ~hasWaited
  /\ pc[Main] \in {"yield", "join"} => hasWaited
  /\ pc[Main] = "join" => turn # NoTurn
  /\ pc[Main] = "done" => pc[Manager] = "exited"

ChildInv ==
  \A c \in Workers \cup {Main} : pc[c] \in {"register", "attach"} => child[c] \in Workers

MutexInv ==
  \A w \in Workers :
    /\ mutex[w] \in {w, Manager, Nobody}
    /\ mutex[w] = w <=> pc[w] \in {"check", "tosleep", "unlock", "pset"}
    /\ mutex[w] = Manager <=> cur = w /\ pc[Manager] \in {"give", "munlock"}

SleepInv ==
  \A w \in Workers :
    /\ w \in sleeping => pc[w] = "wait"
    /\ pc[w] = "tosleep" => turn # w

IInv ==
  /\ TypeOK
  /\ WorkerTurnInv /\ ManagerTurnInv /\ MainTurnInv
  /\ ChildInv /\ MutexInv /\ SleepInv
  /\ NoLostWakeup /\ OnlyMainJoins

(***************************************************************************)
(* What the refinement of Baton needs besides: a thread that was created   *)
(* is in the tree, or its creator is still putting it there; and where     *)
(* pthread_kill reports an exit, the node being executed is alive until    *)
(* it has the turn.                                                        *)
(***************************************************************************)
Building(c) == pc[c] \in {"register", "attach"}

SpawnInv ==
  /\ \A w \in attached : pc[w] # "unborn"
  /\ \A c \in Workers \cup {Main} : Building(c) => pc[child[c]] # "unborn"
  /\ \A w \in Workers : pc[w] # "unborn" =>
       w \in attached \/ \E c \in Workers \cup {Main} : Building(c) /\ child[c] = w

AliveInv ==
  KillReportsExit /\ pc[Manager] \in {"awaitinit", "mlock", "give"} =>
    pc[cur] \notin {"unborn", "exited"}

(***************************************************************************)
(* Once the manager has picked a node, it gets the turn back: the worker   *)
(* initialises itself, receives the turn, runs, and pauses or ends.        *)
(***************************************************************************)
HandoffCompletes == pc[Manager] = "awaitinit" ~> pc[Manager] = "sched"

(***************************************************************************)
(* The hand-off implements the baton: one holder, lent only to living      *)
(* workers, returned only to the manager, always returned.                 *)
(***************************************************************************)
Implemented == INSTANCE Baton WITH
  holder  <- IF pc[Main] = "done" \/ turn = NoTurn THEN Main ELSE turn,
  living  <- {w \in Workers : pc[w] \notin {"unborn", "exited"}},
  ended   <- {w \in Workers : pc[w] = "exited"},
  retired <- pc[Manager] = "exited"

ImplementsBaton == Implemented!Spec
=============================================================================
