---------------------------- MODULE DynSequence ----------------------------
(***************************************************************************)
(* What dyn_array.h promises of a dynamic array: a sequence of objects.    *)
(* Objects are told apart by identity (an object is inserted once), so     *)
(* that the sequence also says who is responsible for each of them: the    *)
(* array, its destructor, or the caller that extracted it.                 *)
(***************************************************************************)
EXTENDS Naturals, SequencesExt

CONSTANTS
  Objects,  \* the objects a client may insert
  Key,      \* what the client's compare function compares
  Indexes,  \* the indexes a client passes
  Imports   \* the C arrays a client imports, the empty one for a plain create

VARIABLES
  live,        \* does the client hold an array?
  destructor,  \* was it created with a destructor?
  seq,         \* its contents
  where,       \* who is responsible for each object
  result       \* the last operation and what it returned

seqVars == <<live, destructor, seq, where, result>>

Init ==
  /\ live = FALSE /\ destructor = FALSE
  /\ seq = <<>>
  /\ where = [o \in Objects |-> "client"]
  /\ result = <<"none", "ok">>

Moved(objs, to) == [o \in Objects |-> IF o \in objs THEN to ELSE where[o]]

(* A new array, empty or filled from a C array of objects. *)
Create(objs) ==
  /\ ~live
  /\ \A o \in ToSet(objs) : where[o] = "client"
  /\ live' = TRUE
  /\ destructor' \in BOOLEAN
  /\ seq' = objs
  /\ where' = Moved(ToSet(objs), "array")
  /\ result' = <<"create", "ok">>

CreateFails ==
  /\ ~live
  /\ result' = <<"create", "failed">>
  /\ UNCHANGED <<live, destructor, seq, where>>

(* Insertion before index i of C; it may fail for lack of memory. *)
InsertBefore(i, o) ==
  /\ live /\ where[o] = "client"
  /\ i \in 0 .. Len(seq)
  /\ seq' = InsertAt(seq, i + 1, o)
  /\ where' = [where EXCEPT ![o] = "array"]
  /\ result' = <<"insert", "ok">>
  /\ UNCHANGED <<live, destructor>>

InsertFails ==
  /\ live
  /\ result' = <<"insert", "failed">>
  /\ UNCHANGED <<live, destructor, seq, where>>

InSortedOrder(s) == IsSorted(s, LAMBDA a, b : Key[a] <= Key[b])

(* Insertion into a sorted array leaves it sorted.                         *)
InsertSorted(o) ==
  /\ live /\ where[o] = "client"
  /\ \E i \in 0 .. Len(seq) : seq' = InsertAt(seq, i + 1, o)
  /\ InSortedOrder(seq) => InSortedOrder(seq')
  /\ where' = [where EXCEPT ![o] = "array"]
  /\ result' = <<"insert_sorted", "ok">>
  /\ UNCHANGED <<live, destructor>>

Removed == IF destructor THEN "destructed" ELSE "dropped"

(* Erasure destructs, extraction hands the object to the caller; each      *)
(* fails only where there is no object with the index.                     *)
Erase(i) ==
  /\ live /\ i \in 0 .. Len(seq) - 1
  /\ seq' = RemoveAt(seq, i + 1)
  /\ where' = [where EXCEPT ![seq[i + 1]] = Removed]
  /\ result' = <<"erase", "ok">>
  /\ UNCHANGED <<live, destructor>>

Extract(i) ==
  /\ live /\ i \in 0 .. Len(seq) - 1
  /\ seq' = RemoveAt(seq, i + 1)
  /\ where' = [where EXCEPT ![seq[i + 1]] = "extracted"]
  /\ result' = <<"extract", seq[i + 1]>>
  /\ UNCHANGED <<live, destructor>>

EraseNone(i) ==
  /\ live /\ i \notin 0 .. Len(seq) - 1
  /\ result' = <<"erase", "failed">>
  /\ UNCHANGED <<live, destructor, seq, where>>

ExtractNone(i) ==
  /\ live /\ i \notin 0 .. Len(seq) - 1
  /\ result' = <<"extract", "failed">>
  /\ UNCHANGED <<live, destructor, seq, where>>

Clear ==
  /\ live
  /\ seq' = <<>>
  /\ where' = Moved(ToSet(seq), Removed)
  /\ UNCHANGED <<live, destructor, result>>

Destroy ==
  /\ live /\ live' = FALSE
  /\ seq' = <<>>
  /\ where' = Moved(ToSet(seq), Removed)
  /\ UNCHANGED <<destructor, result>>

(* A view of the object with index i. *)
View(i) ==
  /\ live
  /\ result' = <<"view", IF i \in 0 .. Len(seq) - 1 THEN seq[i + 1] ELSE "null">>
  /\ UNCHANGED <<live, destructor, seq, where>>

(* The number of objects; a function applied to each of them in order. *)
Size ==
  /\ live
  /\ result' = <<"size", Len(seq)>>
  /\ UNCHANGED <<live, destructor, seq, where>>

ForEach ==
  /\ live
  /\ result' = <<"for_each", seq>>
  /\ UNCHANGED <<live, destructor, seq, where>>

Sort ==
  /\ live /\ seq # <<>>
  /\ ToSet(seq') = ToSet(seq) /\ Len(seq') = Len(seq)
  /\ InSortedOrder(seq')
  /\ result' = <<"sort", "ok">>
  /\ UNCHANGED <<live, destructor, where>>

SortNothing ==
  /\ live /\ seq = <<>>
  /\ result' = <<"sort", "failed">>
  /\ UNCHANGED <<live, destructor, seq, where>>

Next ==
  \/ \E objs \in Imports : Create(objs)
  \/ CreateFails
  \/ \E i \in Indexes, o \in Objects : InsertBefore(i, o)
  \/ \E o \in Objects : InsertSorted(o)
  \/ InsertFails
  \/ \E i \in Indexes : Erase(i) \/ Extract(i) \/ EraseNone(i) \/ ExtractNone(i) \/ View(i)
  \/ Clear \/ Destroy \/ Size \/ ForEach \/ Sort \/ SortNothing

Spec == Init /\ [][Next]_seqVars
=============================================================================
