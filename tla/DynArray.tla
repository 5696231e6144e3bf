------------------------------ MODULE DynArray ------------------------------
(***************************************************************************)
(* The dynamic array of dyn_array.c: a block of memory whose capacity      *)
(* doubles, with objects inserted and removed by memmove.  size_t          *)
(* arithmetic wraps at Word, as in position + count, size - 1 and          *)
(* capacity * data_type_size, the bytes the block is given.  One array;    *)
(* its client may pass any index in Indexes, and no NULL: push_back,       *)
(* pop_back and extract_back read the size of the array before they test   *)
(* for NULL, the other operations refuse it and change nothing.            *)
(***************************************************************************)
EXTENDS Naturals, Sequences

CONSTANTS
  Objects,      \* the objects a client may insert, each of them once
  Key,          \* what the client's compare function compares
  Indexes,      \* the indexes a client passes
  Imports,      \* the C arrays a client imports
  Requests,     \* the capacities a client asks for
  TypeSizes,    \* the sizes of an object, in bytes, a client asks for
  MinCapacity,  \* 16
  MaxCapacity,  \* DYN_MAX_CAPACITY, which a build may set
  Word,         \* size_t arithmetic is modulo Word, 2^64
  Garbage       \* memory nobody has written

ASSUME DynArrayAssumption ==
  /\ Key \in [Objects -> Nat]
  /\ Word \in Nat \ {0}
  /\ Indexes \subseteq 0 .. Word - 1
  /\ Imports \subseteq Seq(Objects)
  /\ \A objs \in Imports : \A i, j \in 1 .. Len(objs) : i # j => objs[i] # objs[j]
  /\ Requests \subseteq 0 .. Word - 1
  /\ TypeSizes \subseteq 1 .. Word - 1
  /\ MinCapacity \in Nat \ {0}
  /\ MaxCapacity \in Nat /\ 2 * MaxCapacity < Word
  /\ Garbage \notin Objects

VARIABLES
  live,        \* does the client hold an array?
  destructor,  \* was it created with a destructor?
  capacity, size, data_type_size,
  mem,         \* the block of memory
  where,       \* who is responsible for each object (history)
  result,      \* the last operation and what it returned (history)
  broken       \* has memory outside the block been accessed, or the
               \* block freed under the array?

vars == <<live, destructor, capacity, size, data_type_size, mem, where, result, broken>>
array == <<live, destructor, capacity, size, data_type_size, mem>>

Slots == 0 .. size - 1
Wrap(n) == n % Word

(* Do n objects fit into the block allocated for c of them? *)
Fits(n, c, bytes) == n * bytes <= Wrap(c * bytes)

(* memmove on slots, and memcpy of a C array of objects into slots. *)
Memmove(m, dst, src, n) ==
  [i \in DOMAIN m |-> IF i \in dst .. dst + n - 1 THEN m[i - dst + src] ELSE m[i]]

Memcpy(m, dst, objs) ==
  [i \in DOMAIN m |-> IF i \in dst .. dst + Len(objs) - 1 THEN objs[i - dst + 1] ELSE m[i]]

(* Mutant: the larger capacity is recorded, the block stays as it is. *)
Realloc_NotGrown(new) == mem

Realloc(new) == [i \in 0 .. new - 1 |-> IF i < capacity THEN mem[i] ELSE Garbage]

(* The powers of two are the numbers without an odd factor. *)
PowerOfTwo(n) == n > 0 /\ \A f \in 2 .. n : n % f = 0 => f % 2 = 0

(* The capacities reached by doubling c until there is room for n. *)
Doubled(c, n) ==
  {d \in n .. Word - 1 :
     (d = c \/ d < 2 * n) /\ \E q \in 1 .. Word : PowerOfTwo(q) /\ d = c * q}

Init ==
  /\ live = FALSE /\ destructor = FALSE
  /\ capacity = 0 /\ size = 0 /\ data_type_size = 0
  /\ mem = <<>>
  /\ where = [o \in Objects |-> "client"]
  /\ result = <<"none", "ok">>
  /\ broken = FALSE

Returns(op, value) == result' = <<op, value>>

Moved(objs, to) == [o \in Objects |-> IF o \in objs THEN to ELSE where[o]]
Items(objs) == {objs[i] : i \in 1 .. Len(objs)}
Removed == IF destructor THEN "destructed" ELSE "dropped"

(***************************************************************************)
(* dyn_array_create and dyn_array_import.  The capacity is enough for the  *)
(* imported objects, so that the insertion in import cannot fail, but the  *)
(* block may not be.  When rounding up exceeds the maximum, the array is   *)
(* freed and then used.  The client's C array fits into its memory.        *)
(***************************************************************************)
Create(request, objs) ==
  /\ ~live /\ ~broken
  /\ request <= MaxCapacity
  /\ \A o \in Items(objs) : where[o] = "client"
  /\ \E new \in Doubled(MinCapacity, request), bytes \in TypeSizes :
       /\ Len(objs) * bytes < Word
       /\ capacity' = new
       /\ data_type_size' = bytes
       /\ mem' = Memcpy([i \in 0 .. new - 1 |-> Garbage], 0, objs)
       /\ broken' = (new > MaxCapacity \/ ~Fits(Len(objs), new, bytes))
  /\ live' = TRUE
  /\ size' = Len(objs)
  /\ destructor' \in BOOLEAN
  /\ where' = Moved(Items(objs), "array")
  /\ Returns("create", "ok")

CreateFails ==
  /\ ~live /\ ~broken
  /\ Returns("create", "failed")
  /\ UNCHANGED <<array, where, broken>>

(***************************************************************************)
(* dyn_request_size_increase: the capacities it can leave behind when it   *)
(* succeeds; realloc may fail instead.                                     *)
(***************************************************************************)
dyn_request_size_increase(increment) ==
  IF size + increment <= capacity THEN {capacity}
  ELSE IF size + increment <= MaxCapacity THEN Doubled(2 * capacity, size + increment)
  ELSE {}

(* Mutant: the objects from the position on are not moved. *)
dyn_shift_insert_NoMove(op, position, o) ==
  /\ live /\ ~broken
  /\ where[o] = "client"
  /\ position <= size
  /\ \E new \in dyn_request_size_increase(1) :
       /\ capacity' = new
       /\ mem' = Memcpy(Realloc(new), position, <<o>>)
       /\ broken' = ~Fits(size + 1, new, data_type_size)
  /\ size' = size + 1
  /\ where' = [where EXCEPT ![o] = "array"]
  /\ Returns(op, "ok")
  /\ UNCHANGED <<live, destructor, data_type_size>>

(* dyn_shift_insert of one object. *)
dyn_shift_insert(op, position, o) ==
  /\ live /\ ~broken
  /\ where[o] = "client"
  /\ position <= size
  /\ \E new \in dyn_request_size_increase(1) :
       /\ capacity' = new
       /\ mem' = Memcpy(Memmove(Realloc(new), position + 1, position, size - position),
                        position, <<o>>)
       /\ broken' = ~Fits(size + 1, new, data_type_size)
  /\ size' = size + 1
  /\ where' = [where EXCEPT ![o] = "array"]
  /\ Returns(op, "ok")
  /\ UNCHANGED <<live, destructor, data_type_size>>

(* It fails for an index beyond the end, at the maximum, or when realloc   *)
(* returns NULL.                                                           *)
InsertFails(position) ==
  /\ live /\ ~broken
  /\ position > size \/ size = capacity
  /\ Returns("insert", "failed")
  /\ UNCHANGED <<array, where, broken>>

(* realloc to no bytes, which it frees and returns NULL for: the array is  *)
(* left with a block that is not its own.                                  *)
InsertFrees(position) ==
  /\ live /\ ~broken
  /\ position <= size /\ size = capacity
  /\ \E new \in dyn_request_size_increase(1) : Wrap(new * data_type_size) = 0
  /\ broken' = TRUE
  /\ Returns("insert", "failed")
  /\ UNCHANGED <<array, where>>

PushFront(o) == dyn_shift_insert("insert", 0, o)
PushBack(o) == dyn_shift_insert("insert", size, o)
Insert(i, o) == dyn_shift_insert("insert", i, o)

(* Mutant: the comparison is turned round. *)
InsertSorted_Descending(o) ==
  \E i \in 0 .. size :
    /\ \A j \in 0 .. i - 1 : Key[mem[j]] > Key[o]
    /\ i < size => Key[mem[i]] <= Key[o]
    /\ dyn_shift_insert("insert_sorted", i, o)

(* dyn_array_insert_sorted: before the first object that is not smaller. *)
InsertSorted(o) ==
  \E i \in 0 .. size :
    /\ \A j \in 0 .. i - 1 : Key[mem[j]] < Key[o]
    /\ i < size => Key[mem[i]] >= Key[o]
    /\ dyn_shift_insert("insert_sorted", i, o)

(***************************************************************************)
(* dyn_shift_remove.  Its tests are that the array is not empty and that   *)
(* position + count <= size, in size_t (mutant: the first is missing).     *)
(***************************************************************************)
InRange_NoSizeTest(position, count) == Wrap(position + count) <= size

InRange(position, count) == size # 0 /\ Wrap(position + count) <= size

(* The erased objects are destructed and the rest moves down; the client   *)
(* sees what Returned says.                                                *)
dyn_shift_remove(position, count, Returned) ==
  /\ live /\ ~broken
  /\ InRange(position, count)
  /\ IF position + count <= size
     THEN /\ where' = Moved({mem[i] : i \in position .. position + count - 1}, Removed)
          /\ mem' = Memmove(mem, position, position + count, size - (position + count))
          /\ size' = size - count
          /\ UNCHANGED broken
     ELSE broken' = TRUE /\ UNCHANGED <<where, mem, size>>
  /\ Returned
  /\ UNCHANGED <<live, destructor, capacity, data_type_size>>

Erased == Returns("erase", "ok")

PopFront == dyn_shift_remove(0, 1, Erased)
PopBack == dyn_shift_remove(Wrap(Word + size - 1), 1, Erased)
Erase(i) == dyn_shift_remove(i, 1, Erased)
Clear == size > 0 /\ dyn_shift_remove(0, size, UNCHANGED result)

EraseFails(position) ==
  /\ live /\ ~broken
  /\ ~InRange(position, 1)
  /\ Returns("erase", "failed")
  /\ UNCHANGED <<array, where, broken>>

Destroy ==
  /\ live /\ ~broken
  /\ where' = Moved({mem[i] : i \in Slots}, Removed)
  /\ live' = FALSE
  /\ capacity' = 0 /\ size' = 0 /\ data_type_size' = 0 /\ mem' = <<>>
  /\ UNCHANGED <<destructor, result, broken>>

(* MODE_EXTRACT: the object is copied out and the array left as it is. *)
Extract(position) ==
  /\ live /\ ~broken
  /\ InRange(position, 1)
  /\ IF position < size
     THEN /\ where' = [where EXCEPT ![mem[position]] = "extracted"]
          /\ Returns("extract", mem[position])
          /\ UNCHANGED broken
     ELSE broken' = TRUE /\ UNCHANGED <<where, result>>
  /\ UNCHANGED array

ExtractFails(position) ==
  /\ live /\ ~broken
  /\ ~InRange(position, 1)
  /\ Returns("extract", "failed")
  /\ UNCHANGED <<array, where, broken>>

(* dyn_array_front, dyn_array_back and dyn_array_at. *)
View(i) ==
  /\ live /\ ~broken
  /\ Returns("view", IF i < size THEN mem[i] ELSE "null")
  /\ UNCHANGED <<array, where, broken>>

Front == View(0)
Back == View(Wrap(Word + size - 1))

(* dyn_array_size and dyn_array_empty; dyn_array_for_each, with the        *)
(* objects in the order in which the function is applied to them.          *)
Size ==
  /\ live /\ ~broken
  /\ Returns("size", size)
  /\ UNCHANGED <<array, where, broken>>

ForEach ==
  /\ live /\ ~broken
  /\ Returns("for_each", [i \in 1 .. size |-> mem[i - 1]])
  /\ UNCHANGED <<array, where, broken>>

(* dyn_array_sort: qsort leaves some sorted arrangement of the objects. *)
Sort ==
  /\ live /\ ~broken /\ size > 0
  /\ \E f \in [Slots -> {mem[i] : i \in Slots}] :
       /\ \A i, j \in Slots : i < j => f[i] # f[j] /\ Key[f[i]] <= Key[f[j]]
       /\ mem' = [i \in DOMAIN mem |-> IF i \in Slots THEN f[i] ELSE mem[i]]
  /\ Returns("sort", "ok")
  /\ UNCHANGED <<live, destructor, capacity, size, data_type_size, where, broken>>

SortFails ==
  /\ live /\ ~broken /\ size = 0
  /\ Returns("sort", "failed")
  /\ UNCHANGED <<array, where, broken>>

(* What happens after an access outside the block is not followed. *)
Undefined == broken /\ UNCHANGED vars

-----------------------------------------------------------------------------
Next ==
  \/ \E c \in Requests : Create(c, <<>>)
  \/ \E objs \in Imports : Len(objs) > 0 /\ Create(Len(objs), objs)
  \/ CreateFails
  \/ \E o \in Objects : PushFront(o) \/ PushBack(o) \/ InsertSorted(o)
  \/ \E i \in Indexes, o \in Objects : Insert(i, o)
  \/ PopFront \/ PopBack \/ Clear \/ Destroy
  \/ Front \/ Back \/ Size \/ ForEach \/ Sort \/ SortFails
  \/ \E i \in Indexes :
       \/ InsertFails(i) \/ InsertFrees(i) \/ Erase(i) \/ EraseFails(i)
       \/ Extract(i) \/ ExtractFails(i) \/ View(i)
  \/ Undefined

Spec == Init /\ [][Next]_vars

-----------------------------------------------------------------------------
TypeOK ==
  /\ live \in BOOLEAN /\ destructor \in BOOLEAN /\ broken \in BOOLEAN
  /\ capacity \in Nat /\ size \in 0 .. capacity
  /\ data_type_size \in TypeSizes \cup {0}
  /\ mem \in [0 .. capacity - 1 -> Objects \cup {Garbage}]
  /\ where \in [Objects -> {"client", "array", "destructed", "dropped", "extracted"}]

(***************************************************************************)
(* No operation accesses memory outside the block: not the removal from an *)
(* empty array, where size - 1 wraps, nor a creation near the maximum; nor *)
(* is the block freed under the array.  The exception are arrays whose     *)
(* block, or the one it grows to, has more bytes than size_t can say: the  *)
(* maximum, which dyn_array.c says is in bytes, is compared with numbers   *)
(* of objects.                                                             *)
(***************************************************************************)
InBounds == broken => 2 * capacity * data_type_size >= Word

(***************************************************************************)
(* When InBounds can be relied on: the maximum is reached by doubling, as  *)
(* the default of dyn_array.c is, and no index is the last size_t, whose   *)
(* successor wraps to zero and passes the test of dyn_shift_remove.        *)
(***************************************************************************)
MaximumIsDoubled == \E q \in 1 .. Word : PowerOfTwo(q) /\ MaxCapacity = MinCapacity * q
NoIndexWraps == \A i \in Indexes : i + 1 < Word

(***************************************************************************)
(* Every object the array is responsible for is in exactly one slot, and   *)
(* every slot in use holds such an object, or one that has been extracted  *)
(* (its copy stays behind): nothing is lost when the block grows or moves, *)
(* nothing is destructed and still visible.                                *)
(***************************************************************************)
Ownership ==
  /\ \A i \in Slots : mem[i] \in Objects /\ where[mem[i]] \in {"array", "extracted"}
  /\ \A i, j \in Slots : i # j => mem[i] # mem[j]
  /\ \A o \in Objects : where[o] = "array" => \E i \in Slots : mem[i] = o

(***************************************************************************)
(* What the proofs need besides: a live array has room for something, a    *)
(* destroyed one holds nothing, and a capacity is a size_t.                *)
(***************************************************************************)
DynArrayInv ==
  /\ TypeOK /\ Ownership
  /\ capacity < Word
  /\ live => capacity > 0 /\ data_type_size > 0
  /\ ~live => size = 0

(***************************************************************************)
(* The array implements the sequence that dyn_array.h promises to a client *)
(* that passes any index.                                                  *)
(***************************************************************************)
Sequence == INSTANCE DynSequence
  WITH seq <- [i \in 1 .. size |-> mem[i - 1]],
       Indexes <- 0 .. Word - 1,
       Imports <- Imports \cup {<<>>}

ImplementsSequence == Sequence!Spec

(***************************************************************************)
(* Every operation but the extraction does so, whatever the order of the   *)
(* calls, and also on an array from which objects have been extracted.     *)
(***************************************************************************)
ImplementsButExtract ==
  Sequence!Init /\ [][Sequence!Next \/ \E i \in Indexes : Extract(i)]_(Sequence!seqVars)
=============================================================================
