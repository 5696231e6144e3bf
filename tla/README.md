# Verification of libMSVL

libMSVL is the run-time library of a compiler for MSVL, a temporal-logic
programming language. The compiler turns every branch of a parallel statement
(`and`, parallel `||`, projection `prj`, `keep`, `alw`) into a thread function;
the library runs those threads one at a time, in lock step through the *states*
of the statement. This directory has TLA+ models of the library, the TLC runs
that check them, and TLAPS proofs about them.

All source references are to `src/`. `function.cpp` is the complete runtime and
the subject of most of the project; `dyn_array.c` is the only other part that
builds (CMake builds it and its tests); `dyn_hash_map.c` is a beginning of a hash
map on top of it.

## 1. Inventory

### Turn hand-off (`function.cpp`)
State: the global `turn`; per node a mutex, a condition variable and `isInit`;
the static `hasWaited` of `MyWaitForObject`.
Operations: `MyCreateThread`, `MyPauseThreadInit` (a thread's first wait),
`MyPauseThread`, `MyWaitForObject`; the manager's `LeafNode`, `KeepNode` and
`AlwNode::excute`, which give the turn to one thread and spin until it is back
or the thread has returned (`isExit`, i.e. `pthread_kill(t, 0)`).
Interaction: every thread, the main thread and the manager share `turn` without
a common lock; only the store of the thread's turn is made under its mutex.
Hard: lost wakeups, spurious wakeups, a signal sent after the unlock, a poll
that races with the answer, a return that never gives the turn back.
Correct when: one thread at a time runs the program; every hand-off completes;
only the main thread joins the manager.

### Manager lifetime (`function.cpp`)
State: `manager`, `threadRoot`, the main thread's entry in `threadIDToNode`,
and `turn` again.
Operations: `Init` and the first `MyCreateThread` of a statement, the start and
end of `ManagerThread`, `~Node` of the root, the join in `MyWaitForObject`.
Interaction: the manager deletes the root, whose destructor joins the *main*
thread, while the main thread joins the manager.
Hard: two threads joining each other; ids reused by the C library; globals that
survive one statement into the next.
Correct when: a manager works on the tree only while the main thread waits;
`MyWaitForObject` returns, and only after the statement has been executed.

### Thread tree and scheduler (`function.cpp`)
State: the `Node` objects (type, new type, length, children, `hasEmpty`,
`extQ`, `hasExtQ`), `threadIDToNode`, `keepChilds`, `changedNode`, `prjNode`.
Operations: `excute` and `isCorrectAndExit` of the six node classes,
`getNewNode`, `updateNode`, `excuteKeepChilds`, the loop of `ManagerThread`,
and what the threads do to the tree in their turn: `MyCreateThread`, `$$Push`,
`setNodeLength` with `setAndLen`, `setPalLen`, `setPrjLen`.
Interaction: the manager's recursion over the tree is interrupted by the
threads, each of which may change the tree above and below its node.
Hard: pointers kept across calls that replace nodes; ends that are noticed in
the walk over the tree, in the SORT loop, or by the keep children; children
deleted while others count them.
Correct when: no pointer dangles; every slice of every thread runs in the state
that the statement says; a statement ends exactly when its branches have; no
thread is forgotten.

### Statement collection and order (`function.cpp`)
State: `$$prsnt`. Operations: `$$Push`, `Comp`. The call of `sort` with `Comp`
is commented out, so collected statements run last in, first out.

### Dynamic array (`dyn_array.c`)
State: capacity, size, the block, the destructor. Operations: create, import,
destroy, clear, push, pop, insert, insert_sorted, erase, extract, sort, access.
Sequential. Hard: `size_t` wrap-around, growth near the maximum, a failing
allocation, the ranges of the two moves of an insertion, who owns an object
after `extract`.
Correct when: it is the sequence that `dyn_array.h` promises, every object has
one owner, and no access leaves the block.

### Hash map (`dyn_hash_map.c`, `pair.h`)
State: the record, the table of buckets, one dynamic array per bucket.
Operations: create and destroy; insertion and search are only declared, and so
are pairs. Sequential. Hard: one allocation of many failing, the search for a
prime capacity.
Correct when: a call hands over a whole map or leaves nothing behind; the
capacity is the least prime that is enough; every call returns.

### C port of the scheduler (`msvl.c`, `node.c`), tests, build files
Not modelled; section 7 says why.

## 2. Modules

| module | models | proved |
|---|---|---|
| `Baton` | abstract: what the hand-off promises | |
| `TurnHandoff` | the hand-off, one action per shared access | `TurnHandoffProofs` |
| `Rounds` | the managers of successive statements | `RoundsProofs` |
| `ThreadTree` | the tree of nodes and `ManagerThread` | `ThreadTreeProofs`, `ThreadTreeShape` and `ThreadTreeWaits`, on `ThreadTreeLemmas` |
| `StatementTiming` | when each slice is due, and that it runs then | |
| `DynSequence` | abstract: what `dyn_array.h` promises | |
| `DynArray` | `dyn_array.c` | `DynArrayProofs`, also that it is the sequence |
| `HashMap` | `dyn_hash_map.c` | `HashMapProofs` |
| `MC*` | instances for TLC | |

How they compose: `TurnHandoff` takes *which* node is executed as an arbitrary
choice and shows that one hand-off is atomic (`Baton`); `ThreadTree` takes the
hand-off as one step and models which node is executed. `Rounds` takes the
execution of a tree as one step and models what happens around it; that nothing
but the tree itself passes from one statement to the next, which this takes for
granted, is `NothingCarriedOver` of `ThreadTree`.

### `TurnHandoff` and `Baton`
`pc` names the next shared access of each thread. `user` is the program of a
thread that has the turn; from there it may create a thread (`register`,
`attach`: the two stores of `MyCreateThread`), pause (`plock`, `pset`, `wait`),
wait for its children, or return. `lookup` to `wait` are the steps of
`MyPauseThreadInit`. `boot` is the manager's loop on `turn != manager`; `sched`
the moment it picks a node; `awaitinit` to `probe` the lines of
`LeafNode::excute` in order. `pthread_cond_wait` releases the mutex and sleeps
in one step, wakes by `Signal` or spuriously, and takes the mutex again.
`KillReportsExit` says whether `pthread_kill(t, 0)` fails for a thread that has
returned and is not joined: POSIX used to say so and glibc did up to 2.33; the
artefacts in `src/build` were made with such a library, and without it no
worker's return is ever noticed (finding `handoff_new_glibc`).

`Baton` has one variable that matters, `holder`, and four events: spawn,
surrender, lend, end/retire. The refinement mapping is at the end of
`TurnHandoff`.

### `Rounds`
Ids of managers are values of `Ids`; `pthread_create` may return the id of a
joined manager, which the history variable `reused` records, and
`JoinReportsDeadlock` says whether the second of two
threads that join each other gets `EDEADLK`. The `mgr` labels follow
`ManagerThread` from its first test to `threadRoot = NULL`, with `~Node` of the
root split into the erasure of the map entry and the join of the main thread.

### `ThreadTree`
An object is `<<thread, number>>`: `getNewNode` makes the next number and the
old object stays, as in the code, which never frees it. The recursion of
`excute` is an explicit `stack` of frames, innermost first, because a slice in
the middle of it changes the tree. A frame's `op` names the point in the code:
`excute`, `childs`/`child` (the loop of `AndNode` and `PalNode`), `prj`, `prjp`,
`prjq`, `prjran` (the four points of `PrjNode::excute`), `update`
(`updateNode`), `keeps`, and `round`, `reset`, `sort`, `sorted`, `take`,
`changed`, `unchanged`, `taken` (`ManagerThread`). Each node class has its constructor (`AndNode` to
`AlwNode`), its `isCorrectAndExit` (`AndChecked` to `AlwChecked`) and its
`excute` (`ExcuteLeaf`, `ExcuteKeep`, `ExcuteAlw`, and for the groups
`ExcuteEnded` and `ExcuteGroup` with the frames); the recursive function
`Checked` is the virtual call, and gives the result and the new object for the
whole subtree (`CorrectAndExit` is the dispatch, `Reach` what a recursion over
children comes by, `Present` the objects that `threadIDToNode` knows); `setNodeLength` and its helpers are operators from heap to heap.

What the compiler generates is the constant `Programs`: for each thread the list
of its slices, a slice being what it does in one turn: the children it creates
and the type it gives its node, the length it sets, whether it collects a
statement. The last slice ends with the thread's return. There are finitely many
threads, and each is created once, by the statement itself (`top`) or by a slice
of a thread that is created before it (`CreatedOnce`, `Deepens`): `pthread_create`
never returns the same thread twice. Values, priorities and
variables of the statements are left out. `hasExtQ`, which the constructor of
`PrjNode` does not set, starts as either value. `*pFalse` is false: no code sets
it. `stateNum` counts the states begun, up to `MaxStates`. `process` says whether
the process is alive, was killed by the signal of a destructor, or has exited
because `IsOutput` said so (`ExitAtOutput`, possible at the head of any state).

`StatementTiming` computes from the program alone the state in which each slice
is due (`Due`, `Start`) and compares. Three things cost a state (`Delaying`: the
end of a group below a created group, a p that ends in the SORT loop at once, an
alw that the walk does not find; section 5); `LateOnlyForCause` allows one state
for each of them, and so none where there are none. When q ends a created prj is
not part of `Due`, and programs with one are left to `Terminates`,
`WaitsForChildren` and the invariants.

### `DynSequence` and `DynArray`
Objects are inserted at most once, so that the sequence also tells their owner.
`size_t` is arithmetic modulo `Word`; `MinCapacity` and `MaxCapacity` stand for
16 and `DYN_MAX_CAPACITY`. Allocation may fail at any call. Slots are counted in
objects; the block has `capacity * data_type_size` bytes modulo `Word`, and
`Fits` compares the two: an insertion into a block that is too small sets
`broken`, after which nothing is followed, and a `realloc` to 0 bytes may free
the block and return NULL (`InsertFrees`). The loop that doubles is `Doubled`,
the multiples of the first capacity by a power of two, where a power of two is a
number without an odd factor. The client passes a live array: given NULL,
`push_back`, `pop_back` and `extract_back` read its size before anything tests it
(section 5), and the other operations refuse it and change nothing. The sequence is offered any index of `size_t` and
the empty import, whatever the client of the array does.

### `HashMap`
`pc` is the point between two allocations or frees of a call. Each allocation
may fail; `heap` becomes "freed_twice" at line 57 after line 55, and may become
"overrun" where the record is written past the pointer-sized block that line 16
allocates, or survive it. The files do not compile as they are, and the
model reads them with the evident repairs: `data_type_size` (line 12 and the
header) and `MAX_INT` as `size_t data_type_size` and `INT_MAX`; the missing
second parameter of `dyn_hash_map_insert` (`dyn_hash_map.h:39`), the missing `;`
after `struct pair` (`pair.h:15`) and `pair_r` for `pair_t` (`pair.h:25`)
concern declarations that no modelled code uses.

## 3. Runs

| run | checks | bounds |
|---|---|---|
| `handoff` | `TypeOK`, `MutualExclusion`, `NoLostWakeup`, `OnlyMainJoins`, `HandoffCompletes`, `ImplementsBaton`. Three workers and every interleaving of their accesses to turn, mutexes and condition variables: at most one thread is in control, no wakeup is lost, no worker joins the manager, and under fair scheduling every hand-off comes back, so that the abstract baton is implemented with its liveness. | 3 workers |
| `handoff_new_glibc` | **violated:** `HandoffCompletes`. With a C library whose pthread_kill succeeds for a returned, unjoined thread, the manager polls for ever for a worker that has returned. | 2 workers, `KillReportsExit` = FALSE |
| `rounds` | `TypeOK`, `TreeExclusionUnlessReused`, `OneManager`, `ReturnsExecuted`, `AbortsOnlyByJoinRace`, `WaitReturns`. Three parallel statements, manager ids fresh or reused: no two managers work on the tree at once, and until an id is reused a manager works only while main waits, MyWaitForObject returns and only after execution, and only the race of the two joins can terminate the program. | 3 rounds, 3 ids |
| `rounds_stale_turn` | **violated:** `TreeExclusion`. When pthread_create gives the next manager the id of the last one, the stale turn lets it start while main still builds the tree. | as `rounds` |
| `rounds_join_race` | **violated:** `ManagerHasEnded`. The manager and the main thread join each other; when the manager is first, MyWaitForObject returns with the manager alive. | as `rounds` |
| `dynarray` | `TypeOK`, `InBounds`, `Ownership`, `ImplementsButExtract`. Four objects inserted, erased, sorted and destructed in an array that grows from two slots to four: every operation but the extraction does what dyn_array.h promises of a sequence, also on an array from which objects have been extracted; no object is lost or destructed while it is still visible, and no access leaves the block unless its bytes do not fit into size_t. | 4 objects of 1, 3 or 5 bytes, block of 2 to 4 slots, `Word` = 12 |
| `dynarray_extract` | **violated:** `ImplementsSequence`. An extracted object stays in the array, so the array is not the sequence the header promises. | as `dynarray` |
| `tree` | `TypeOK`, `NoDangling`, `OnlyKeepsAreKilled`, `TreeShape`, `NoOrphan`, `NothingCarriedOver`, `WaitsForChildren`, `Terminates`, `LateOnlyForCause`, `QWithEachP`. Statements of up to four threads, with groups below groups, created in the walk or in the SORT loop, and with keep and alw: every thread runs each slice in the state that the statement says, or one state later for each known cause of a delay, no pointer of the manager dangles, nobody is resumed early or forgotten, and the statement ends. | 4 threads, the programs `MCPrograms` |
| `tree_overrun` | **violated:** `NoDangling`. A group created in the SORT loop all of whose branches end at once: changedNode is a node that updateNode has replaced already, and the search for it runs past the end of the children. | `OverrunPrograms` |
| `tree_late` | **violated:** `OnTime`. The end of a nested prj in the SORT loop is noticed only in the next state, where the end of a nested and or pal is noticed at once. | `LatePrograms` |
| `tree_keep` | **violated:** `Survives`. A keep thread that is still there when the statement ends is sent a signal that nobody handles, and the process dies. | `KeepPrograms` |
| `hashmap` | `TypeOK`, `AllOrNothing`, `CapacityIsPrime`, `RefusesOnlyBeyondLastPrime`, `DoubleFreeNeedsFailedBucket`, `CallsReturn`. Creation and destruction of hash maps with any allocation failing: all or nothing is handed over, the capacity is the prime asked for, only a failed bucket leads to the double free, and the loops stop. | `FirstCapacity` = 3, `MaxCapacity` = 8, requests 0 to 9 |

Why the bounds are enough. `TurnHandoff`: a hand-off involves one worker, its
creator and a bystander; three workers give creation by main, creation by a
worker and an unrelated sleeper at once. `Rounds`: what a round leaves behind
reaches only the next one; three rounds have a first, a middle and a last one.
`ThreadTree`: four threads give two groups, one below the other, with two
branches each, or three nested ones; bodies are of one or more states and end in
the walk or in the SORT loop, which are the two places where the code notices
it; `MaxStates` = 12 is reached by no program: nothing is enabled at the head of
a state beyond the bound, and TLC would report the deadlock.
A keep or alw has one child or two, beside another keep or alw, below one,
inside an and, or with a group as its child.
`DynArray`: from two slots to four is one doubling, and the maximum is reached;
four objects fill it; the indexes are both ends, both sides of the first
object and the capacity; with a `size_t` of twelve values objects have 1 byte
(everything fits), 3 (the blocks have 6 and 12 bytes, which is 0: growing frees
the block) or 5 (10 and 20 bytes, which is 8, fewer than before).
`HashMap`: the primes are 3, 5 and 7 below a maximum of 8, which is none, so
that requests lie below, at, between and above primes and above the maximum.

Programs that the passing `tree` run leaves out, each for a reason below:
an and or pal created in the SORT loop all of whose branches end in that walk
(finding `tree_overrun`), and a prj whose first p does (section 5); a prj as the q of a prj; keep or alw
below a pal or prj, which a comment at `function.cpp:1149` excludes; and programs
that have no meaning as a statement, in which no branch ever ends.

### Fairness
- `TurnHandoff`: weak fairness of every thread's own steps (the kernel runs a
  runnable thread, spins yield) and of the wakeup of a signalled thread; strong
  fairness of `ManagerLock`, the manager's `pthread_mutex_lock`: a worker that
  wakes up spuriously for ever takes the mutex again and again, so that it is not
  always free, and POSIX leaves the order of waiters to the scheduler, which is
  assumed not to pass the manager over for ever. A program may stay in `user` only
  finitely long: the compiler's slices are straight-line code up to the next pause.
- `Rounds`: weak fairness of the managers and of the main thread inside a
  statement; between statements the program may end.
- `ThreadTree`: weak fairness of `Next`, since one hand-off always completes
  (`HandoffCompletes`) and the manager never blocks otherwise.
- `HashMap`: weak fairness of the steps of a call that has begun.

## 4. Proofs

`TurnHandoffProofs` (for any set of workers):
- `Typing`, `Exclusion` (`MutualExclusion`), `WakeupsArrive` (`NoLostWakeup`),
  `MainAloneJoins` (`OnlyMainJoins`);
- `Refinement`: if `KillReportsExit`, every behaviour of `Spec` is, under the
  mapping, one of the safety part of `Baton`.

`MutualExclusion` alone is not inductive. The invariant `IInv` adds: a worker
that is past the check of `turn` has the turn (`WorkerTurnInv`); a turn that is
out is out to `cur`, and the manager is then between its store and its poll
(`ManagerTurnInv`); until the main thread starts the manager the turn is nobody's
(`MainTurnInv`); a node's mutex is held exactly between lock and unlock
(`MutexInv`); who sleeps is in the wait (`SleepInv`). The last two carry
`NoLostWakeup`: the check and the sleep are one critical section, and so is the
store of the turn. The refinement needs `SpawnInv` (a created thread is attached
or about to be) and `AliveInv` (the node being executed has not returned).

`RoundsProofs` (for any number of rounds and ids): `TypesAreCorrect`;
`TreeIsExclusive`, `ReturnsAfterExecution` and `AbortNeedsJoinRace`, which hold
until an id is reused; `ManagersAreSerial`, which needs no such condition. The
first group rests on `RoundsInv`: until an id is reused, `turn` names no manager
that is still to come (`TurnIsOld`), all managers but the current one are over
or stuck in the join (`OthersOver`), and the main thread's position says what
the current manager and the root are (`Phase`, `RootFollowsManager`). A reused
id makes `TurnIsOld` false, and the properties with it: that is the finding
`rounds_stale_turn`. `ManagersAreSerial` has an invariant of its own,
`OneManagerInv`: a manager that has started and not ended is the one `manager`
names, and wherever the main thread may create the next there is none.

`HashMapProofs` (for any first capacity that is a prime, as 17 in the code is,
any larger maximum, and any requests): `TypeCorrect`; `NothingLeaks`
(`AllOrNothing`); `DoubleFreeOnlyForBucket` (`DoubleFreeNeedsFailedBucket`);
`CapacityIsLeastPrime` (`CapacityIsPrime`); `RefusalJustified`
(`RefusesOnlyBeyondLastPrime`).
The properties look at the moment between two calls or at one test; `HashMapInv`
says of every point of a call which blocks are allocated (`HeapInv`: while
buckets are made they are those below `next`, unless one has failed, and while
they are given back those from `next` on) and what is known of the capacity
(`SearchInv`: every prime passed over is below the request, and a capacity within
the maximum is a prime). The second rests on `IsPrimeDecides`: trying the
divisors up to the root decides primality, because of two factors one is at most
the root (`SmallFactor`); and on `NextPrime`: no prime lies between a number and
what `find_next_prime` makes of it.

`DynArrayProofs` (for any objects, capacities, sizes of objects and any `Word`):
`TypeCorrect`; `NothingLost` (`Ownership`); `StaysInBounds` (`InBounds`).
`DynArrayInv` adds to type and ownership that a live array has room for
something, that a destroyed one is empty, and that a capacity is a `size_t`;
without the first, doubling would stay at nothing. `Arrangement` and the lemmas
on `Memmove` and `Memcpy` say which object is in which slot after an insertion or
a removal. `StaysInBounds` has two hypotheses, which TLC evaluates for the
instance (`MCInBounds`): `MaximumIsDoubled`, as the default maximum is
(2^56 = 16 * 2^52), and `NoIndexWraps`, no call with the last index of `size_t`;
section 5 says what happens without each. Its argument is that two capacities
reached by doubling are equal or a factor of two apart (`PowersApart`), so that
rounding up a request within the maximum stays within it (`RoundingStays`); what
holds of all powers of two is shown by looking at the least counterexample, since
induction is out of the prover's reach.

The refinement is `ArrayImplementsSequence` (`ImplementsButExtract`), also for
clients that do not use the last index: under the mapping, which reads the
slots in use as a sequence, each operation but `Extract` is the one of
`DynSequence` or a stutter, one lemma per operation. `InsertAtElements` and
`RemoveAtElements` say what insertion and removal do to a sequence,
`ContentsSorted` that a sorted array is a sorted sequence. `Extract` is no step
of the sequence: that is the finding `dynarray_extract`.

`ThreadTreeProofs` (for any threads and any `Programs` that `ProgramsAssumption`
allows): `StatementsLeaveNothing` (`NothingCarriedOver`). The property speaks of
the end only; `LoopInv` says how it comes about. The last frame of `stack` is the
manager's loop and every frame above it a call made from there (`LoopIsLast`); at
`round` and `take` nothing is above (`AloneIsAlone`), so that no slice can run
between the tests of the loop and what follows from them; and `prsnt`,
`keepChilds` and `prjNode` are empty at the places where the loop has just used
them up (`NoneLeft`).

`ThreadTreeShape` (for the same): `TreeKeepsItsShape` (`TreeShape`),
`TypesAreKept` (`TypeOK`), `WalksStaySafe` (what `AndNode`, `PalNode` and
`PrjNode::excute` iterate over stays there while they iterate), and the invariant
they follow from, `ShapeIsKept`. `TreeShape` is about the tree below the root and
is not inductive: a renewal also touches objects that are no longer in the tree,
and the children of keep nodes are outside it until they join. `ShapeInv` is
- `TreeOK`, about the whole heap: present objects and their children point at
  each other (`Joined`), no object that was replaced still counts a present one
  among its children as their father (`Held`), fathers are less deep than children
  (`Deep`, and `Climbs` for the children that a keep or alw gives to its father),
  names still to be given are not in use (`AllNamed`), the root is never renewed
  (`RootStays`), and an object that waits in `keepChilds` is nobody's child
  (`Apart`);
- `StackOK`: each frame of a walk is about a present object and a place within its
  children, and what is above it runs deeper in the tree; this is why the children
  of a group can be renewed and deleted under it, but not the group itself;
- `WaitGood`: no object is twice in what the loop of `excuteKeepChilds` has before it;
- `TodoOK`: what the threads have yet to create does not overlap.
The depth of a thread is any that `Deepens` allows. `ThreadTreeLemmas` proves of
each operation on the heap (creation, renewal, deletion, adoption, joining,
setting of lengths, `isCorrectAndExit`) that it keeps `TreeOK`;
`ThreadTreeShape` has a lemma for each action or group of actions. `Reach`,
`Without`, `Checked` are recursive functions; that their equations hold, and that
`Reach` stays below where it starts, is shown with least counterexamples
(`Least`). TLC checks `ShapeInv` and `LoopInv` to be invariants on the programs
with keep, alw and prj of `MCThreadTree` before they are proved; the depth is
then a choice among all functions, so that this is no standing run.

`ThreadTreeWaits` (for any threads and any orderly program): `NobodyIsForgotten`
(`NoOrphan`), `OrderlyWaitsForChildren` (`WaitsForChildren`), `OrderlySurvives`
(`Survives`) and, for all programs, `OnlyKeepsCanBeKilled` (`OnlyKeepsAreKilled`).
These depend on what the threads do, and `Orderly` says what they must: every
slice creates a group and is not the last, or creates nothing and sets a length in
the last slice only; and a group has a length (`HasLength`), which means that NONE
is set in branches of an `and` only (the comment at `function.cpp:1150` expects
none in a pal or prj) and not in all of them. The last condition was found by TLC: an
`and` inside another, all of whose branches set NONE, counts as ended with its
father, and its threads, which have not returned, are deleted. `OnlyKeepsCanBeKilled` has
the hypothesis that statements without keep and alw are orderly
(`KeeplessAreOrderly`), which TLC evaluates for the programs of every run
(`MCOrderly`); those with keep or alw are not: there `Survives` fails, which
is finding `tree_keep`.
The invariant is `OrderlyInv`: `ShapeInv`, `LoopInv` and `WaitInv`, which is
- `TreeGood`, about the objects in `threadIDToNode`: a thread that has set its length
  has returned, and the branches of a group that has ended have (`AllGood`); who has
  not returned is a child of its father, so that the walk comes by (`HomeGood`); the
  branches that a thread has created and waits for are the children of its
  node (`AwaitGood`);
- `CallsOK`: a leaf whose slice has just created a group, and which is not renewed
  yet, is the one the caller on top of the stack is about to renew (`Pending`,
  `Renews`). Between the slice and the renewal the object has the new type but not
  the class, and the rest of the invariant would not hold of it as a group;
- `PrjOK`: `prjNode` is a prj or gone, so that what `setPrjLen` relies on is true;
- `CodeOK`: what a thread has left to run is the end of its code; nothing waits in
  `keepChilds`; and `Survives`.
`AllGood` makes a renewal safe: what it deletes has ended, hence returned. That
nobody is an orphan follows from `HomeGood` by going up to the root
(`Inherited`), with a least depth in place of an induction. TLC
checked these parts on more than three thousand orderly programs, with NONE and
nested groups in all combinations, before they were proved.

Model-checked only: of `ThreadTree`, `NoDangling` (below); what `StatementTiming`
says of the state in which a slice runs, which is computed by a recursive
definition over the program; liveness, which is out of the prover's reach
(`HandoffCompletes`, `WaitReturns`, `CallsReturn`, `Terminates`), and with it the
fairness part of `Baton`; and what recursive functions compute beyond the bounds
that a least counterexample gives (the result of `Checked`, `Due`).
`NoDangling` fails for the programs of `tree_overrun`, and section 5 has others
for which it does; it needs a condition on when groups are created.

## 5. Findings

With a run (see PROJECT.json for the quoted comments):
- `handoff_new_glibc`: on glibc 2.34 or later `pthread_kill(t, 0)` succeeds for
  a thread that has returned; the manager waits for ever.
- `rounds_stale_turn`: `turn` keeps the last manager's id; a new manager with
  the same id starts at once, beside the main thread or before the tree exists.
- `rounds_join_race`: if the manager joins main first, main's join fails and is
  ignored; the next statement throws from `map::at`.
- `dynarray_extract`: an extracted object stays in the array.
- `tree_overrun`: `changedNode` is used after the node has been replaced; the
  search at line 769 leaves the vector.
- `tree_late`: the end of a nested prj in the SORT loop is noticed a state late.
- `tree_keep`: a keep thread that outlives its statement kills the process.

Seen in the models or in the code, without a run of their own:
- Three nested groups: `updateNode(changedNode)` may find the end of the next
  outer group and store it in `changedNode`, which line 899 then resets;
  the outer thread goes on one state late. `OnTime` fails for the programs
  `Deep` of `MCThreadTree`; `LateOnlyForCause` says that it is one state only.
- The q of a prj that is itself a prj and ends in the SORT loop is never renewed
  (line 528 asks `isCorrectAndExit`, which is true by then); `Terminates` fails.
- A p that ends in the SORT loop in the state of its own start finds `hasExtQ`
  set (line 1200): the next p starts a state later than it would if the same p
  had ended in the walk. `OnTime` fails for the programs `Flat4`.
- An alw that arises in the SORT loop, or as the child of a keep, gives its first
  child to the father (line 679) when the walk over the father's children is
  over: the child runs one state later than that of an alw found in the walk.
  `OnTime` fails for `Collect` before `Create("alw", ...)`, and for an alw as the
  child of a keep.
- Objects that `getNewNode` replaces are never deleted, although the comment at
  line 721 says that they are (lines 753 and 754 are commented out); and the
  branches of a group that ends in the SORT loop stay in `threadIDToNode` with
  threads nobody joins.
- `malloc(sizeof(dyn_hash_map))` (`dyn_hash_map.c:16`) allocates the size of a
  pointer for the record; lines 55 and 57 free the record twice when a bucket
  cannot be created; requests from 1022 to 1024 are refused, as no prime is left
  up to `MAX_HASH_CAPACITY`.
- `DYN_MAX_CAPACITY` is "in bytes" (`dyn_array.c:5`) and is compared with numbers
  of objects: with objects of 256 bytes or more `capacity * data_type_size` can
  wrap, and the block is smaller than the capacity says. `InBounds` holds for all
  arrays but those.
- The mutual join of manager and main thread ends only because the C library
  reports `EDEADLK` to the second of them; POSIX does not ask it to, and with a
  library that does not both wait for ever.
- `push_back`, `pop_back` and `extract_back` of a NULL array read `dyn_arr->size`
  (`dyn_array.c:150`, `170` and `194`) before `dyn_shift_insert` and
  `dyn_shift_remove` test for NULL, as they do for the other operations.
- `erase(SIZE_MAX)` and `extract(SIZE_MAX)` of an array that is not empty: `position + count` wraps to 0 and the range test passes
  (`dyn_array.c:335`); with `Indexes` containing `Word - 1`, `InBounds` fails.
- `DYN_MAX_CAPACITY` need not be 16 times a power of two, while doubling from 16
  reaches only such numbers: with a maximum that is none, rounding a request up in
  `create` may exceed it, and the array that has been freed is initialised.
- A prj created in the SORT loop all of whose branches end in the same walk: `setPrjLen`
  leaves the prj in `prjNode`, `updateNode` replaces it by a leaf, and the manager
  then calls `excute` of the replaced object (`prjNode->excute()` in `ManagerThread`).
  And where its first p ends in that walk and the second collects a statement, the
  manager executes the prj before it takes that statement: the second p is
  executed twice, and if it has ended by then it is deleted, so that the collected
  statement has no node. `NoDangling` fails in both cases; in the programs of the
  runs (`LatePrj`) the first p does not end in the walk that creates the prj.
- The sort of the collected statements is commented out (line 871); the comment
  at line 827 still lists sorting as the second of the manager's three steps.

## 6. Plan

Done: all modules of section 2, and the proofs of section 4.

Left: a condition on the programs under which `NoDangling` holds (that groups are
created in the walk only is a candidate), with the invariant it needs about
`changedNode`, `prjNode` and the father of what is renewed; and the same kind of
theorem for programs with keep or alw, whose threads are given to another father.

## 7. Not modelled

- The C port (`msvl.c`, `node.c` and their headers, two fifths of the source
  lines): it is in no build and does not compile: names are undeclared, commas
  are missing, and callers and definitions disagree about the parameters. Code
  without a meaning has no faithful model. Read with its evident repairs it is a
  translation of `function.cpp`, with departures that are slips: the constructors
  pass `is_init` where `node_create` expects the type (`node.c:159`, `node.c:31`),
  so that every node would be an AND; `MyPauseThreadInit` gives the turn to the
  manager before it waits (`msvl.c:380`).
- `Comp` (`function.cpp:704`): its only call is commented out. As a comparison
  for `std::sort` it would be no strict weak order: `x := x + 1` precedes itself.
- What a data race on `threadIDToNode` may do (`function.cpp:1017`): a lookup is
  atomic in `TurnHandoff`.
- A vector that is reallocated under the iterator of `PalNode::excute`: no
  program of the runs has an alw below a pal.
- `*pFalse`: set to false by `GetMsvVar` and never again; the models assume that
  `GetMsvVar` has been called.
- Values, priorities and variables of statements, output, the debug printers,
  the test programs and `build/`.
