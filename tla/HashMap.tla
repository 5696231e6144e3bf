------------------------------ MODULE HashMap ------------------------------
(***************************************************************************)
(* dyn_hash_map.c: creation and destruction of a hash map, which is all    *)
(* that the file defines.  A map is three kinds of heap block: the record, *)
(* the table of buckets, and one dynamic array per bucket; any allocation  *)
(* may fail, and what creation owes its caller is that it either hands all *)
(* of them over or leaves none behind.                                     *)
(*                                                                         *)
(* The record is allocated with sizeof(dyn_hash_map), the size of a        *)
(* pointer, and is then written whole: whether that destroys the heap is   *)
(* up to the rounding of the allocator, so the model leaves both open.     *)
(***************************************************************************)
EXTENDS Naturals, FiniteSets, FiniteSetsExt

CONSTANTS
  FirstCapacity,  \* where the search starts: 17 in the code
  MaxCapacity,    \* MAX_HASH_CAPACITY
  MaxInt,         \* where find_next_prime gives up
  Requests        \* bound: the capacities asked for

(* A prime, by definition. *)
Prime(n) == n > 1 /\ \A d \in 2 .. n - 1 : n % d # 0

ASSUME HashMapAssumption ==
  /\ FirstCapacity \in Nat /\ MaxCapacity \in Nat /\ MaxInt \in Nat
  /\ FirstCapacity <= MaxCapacity /\ MaxCapacity < MaxInt
  /\ Prime(FirstCapacity)
  /\ Requests \subseteq Nat

VARIABLES
  pc,        \* where the library is, "idle" between two calls
  request,   \* capacity, of the last call of create
  actual,    \* actual_capacity; capacity of the record once it is written
  next,      \* i: the next bucket
  success,   \* have all buckets been created so far?
  record,    \* is the record allocated?
  table,     \* is the table allocated?
  buckets,   \* the buckets whose array is allocated
  held,      \* does the caller hold a map?
  heap       \* "sound" until undefined behaviour destroys it

vars == <<pc, request, actual, next, success, record, table, buckets, held, heap>>
blocks == <<record, table, buckets>>

Labels == {"idle", "search", "check", "table", "fill", "unfill", "unrecord",
           "again", "drain", "drop", "crashed"}

Init ==
  /\ pc = "idle" /\ request = 0 /\ actual = 0 /\ next = 0
  /\ success = TRUE
  /\ record = FALSE /\ table = FALSE /\ buckets = {}
  /\ held = FALSE /\ heap = "sound"

Goto(from, to) == pc = from /\ pc' = to

-----------------------------------------------------------------------------
(* Mutant: the loop stops before the root of a square. *)
IsPrime_Square(n) == n >= 2 /\ \A i \in 2 .. n : i * i < n => n % i # 0

(* is_prime divides by every number up to the root. *)
IsPrime(n) == n >= 2 /\ \A i \in 2 .. n : i * i <= n => n % i # 0

(* Mutant: the search starts at start itself. *)
FindNextPrime_Same(start) ==
  LET primes == {i \in start .. MaxInt - 1 : IsPrime(i)}
  IN  IF primes = {} THEN MaxInt ELSE Min(primes)

FindNextPrime(start) ==
  LET primes == {i \in start + 1 .. MaxInt - 1 : IsPrime(i)}
  IN  IF primes = {} THEN MaxInt ELSE Min(primes)

-----------------------------------------------------------------------------
(* dyn_hash_map_create *)
Refused(capacity, typed) ==
  /\ pc = "idle" /\ ~held
  /\ ~typed \/ capacity > MaxCapacity
  /\ UNCHANGED vars

Create(capacity) ==
  /\ Goto("idle", "search") /\ ~held
  /\ capacity <= MaxCapacity
  /\ request' = capacity
  /\ actual' = FirstCapacity
  /\ record' = TRUE
  /\ next' = 0 /\ success' = TRUE
  /\ UNCHANGED <<table, buckets, held, heap>>

NoRecord(capacity) ==
  /\ pc = "idle" /\ ~held
  /\ capacity <= MaxCapacity
  /\ request' = capacity
  /\ UNCHANGED <<pc, actual, next, success, blocks, held, heap>>

(* Mutant: a capacity that is large enough is passed over. *)
NextCapacity_Off ==
  /\ pc = "search" /\ actual <= request
  /\ actual' = FindNextPrime(actual)
  /\ UNCHANGED <<pc, request, next, success, blocks, held, heap>>

NextCapacity ==
  /\ pc = "search" /\ actual < request
  /\ actual' = FindNextPrime(actual)
  /\ UNCHANGED <<pc, request, next, success, blocks, held, heap>>

CapacityFound ==
  /\ Goto("search", "check") /\ actual >= request
  /\ UNCHANGED <<request, actual, next, success, blocks, held, heap>>

(* Mutant: the record is not freed. *)
TooLarge_Leak ==
  /\ Goto("check", "idle") /\ actual > MaxCapacity
  /\ UNCHANGED <<request, actual, next, success, blocks, held, heap>>

TooLarge ==
  /\ Goto("check", "idle") /\ actual > MaxCapacity
  /\ record' = FALSE
  /\ UNCHANGED <<request, actual, next, success, table, buckets, held, heap>>

(* malloc of the table, and the write of the whole record. *)
MakeTable ==
  /\ Goto("check", "table") /\ actual <= MaxCapacity
  /\ table' \in BOOLEAN
  /\ UNCHANGED <<request, actual, next, success, record, buckets, held, heap>>

RecordOverrun ==
  /\ Goto("table", "crashed")
  /\ heap' = "overrun"
  /\ UNCHANGED <<request, actual, next, success, blocks, held>>

StartFill ==
  /\ Goto("table", "fill") /\ table
  /\ next' = 0
  /\ UNCHANGED <<request, actual, success, blocks, held, heap>>

(* Mutant: the record is freed where the table is missing, and again below. *)
NoTable_Twice ==
  /\ Goto("table", "again") /\ ~table
  /\ record' = FALSE
  /\ UNCHANGED <<request, actual, next, success, table, buckets, held, heap>>

NoTable ==
  /\ Goto("table", "idle") /\ ~table
  /\ record' = FALSE
  /\ UNCHANGED <<request, actual, next, success, table, buckets, held, heap>>

(* Mutant: the loop runs one bucket too far. *)
FillBucket_Over ==
  /\ pc = "fill" /\ next <= actual
  /\ buckets' = buckets \cup {next}
  /\ next' = next + 1
  /\ UNCHANGED <<pc, request, actual, success, record, table, held, heap>>

FillBucket ==
  /\ pc = "fill" /\ next < actual
  /\ buckets' = buckets \cup {next}
  /\ next' = next + 1
  /\ UNCHANGED <<pc, request, actual, success, record, table, held, heap>>

NoBucket ==
  /\ pc = "fill" /\ next < actual
  /\ next' = next + 1
  /\ success' = FALSE
  /\ UNCHANGED <<pc, request, actual, blocks, held, heap>>

HandOver ==
  /\ Goto("fill", "idle") /\ next = actual /\ success
  /\ held' = TRUE
  /\ UNCHANGED <<request, actual, next, success, blocks, heap>>

(* The failure path: buckets, table, record, and the record again. *)
StartUnfill ==
  /\ Goto("fill", "unfill") /\ next = actual /\ ~success
  /\ next' = 0
  /\ UNCHANGED <<request, actual, success, blocks, held, heap>>

Unfill ==
  /\ pc = "unfill" /\ next < actual
  /\ buckets' = buckets \ {next}
  /\ next' = next + 1
  /\ UNCHANGED <<pc, request, actual, success, record, table, held, heap>>

FreeTable ==
  /\ Goto("unfill", "unrecord") /\ next = actual
  /\ table' = FALSE
  /\ UNCHANGED <<request, actual, next, success, record, buckets, held, heap>>

FreeRecord ==
  /\ Goto("unrecord", "again")
  /\ record' = FALSE
  /\ UNCHANGED <<request, actual, next, success, table, buckets, held, heap>>

(* Line 57 is also reached from inside the block: a second free, which the *)
(* allocator reports or which ruins its lists.                             *)
FreeAgain ==
  /\ Goto("again", "crashed")
  /\ heap' = "freed_twice"
  /\ UNCHANGED <<request, actual, next, success, blocks, held>>

-----------------------------------------------------------------------------
(* dyn_hash_map_destroy *)
Destroy ==
  /\ Goto("idle", "drain") /\ held
  /\ next' = 0
  /\ UNCHANGED <<request, actual, success, blocks, held, heap>>

DestroyBucket ==
  /\ pc = "drain" /\ next < actual
  /\ buckets' = buckets \ {next}
  /\ next' = next + 1
  /\ UNCHANGED <<pc, request, actual, success, record, table, held, heap>>

DropTable ==
  /\ Goto("drain", "drop") /\ next = actual
  /\ table' = FALSE
  /\ UNCHANGED <<request, actual, next, success, record, buckets, held, heap>>

DropRecord ==
  /\ Goto("drop", "idle")
  /\ record' = FALSE /\ held' = FALSE
  /\ UNCHANGED <<request, actual, next, success, table, buckets, heap>>

Crashed == pc = "crashed" /\ UNCHANGED vars

-----------------------------------------------------------------------------
Calls ==
  \/ \E capacity \in Requests, typed \in BOOLEAN : Refused(capacity, typed)
  \/ \E capacity \in Requests : Create(capacity) \/ NoRecord(capacity)
  \/ Destroy

Steps ==
  \/ NextCapacity \/ CapacityFound \/ TooLarge \/ MakeTable \/ RecordOverrun
  \/ StartFill \/ NoTable \/ FillBucket \/ NoBucket \/ HandOver
  \/ StartUnfill \/ Unfill \/ FreeTable \/ FreeRecord \/ FreeAgain
  \/ DestroyBucket \/ DropTable \/ DropRecord

Next == Calls \/ Steps \/ Crashed

Spec == Init /\ [][Next]_vars

(* A call that has begun is executed on. *)
FairSpec == Spec /\ WF_vars(Steps)

-----------------------------------------------------------------------------
FlagsOK ==
  success \in BOOLEAN /\ record \in BOOLEAN /\ table \in BOOLEAN /\ held \in BOOLEAN

TypeOK ==
  /\ FlagsOK
  /\ pc \in Labels /\ heap \in {"sound", "overrun", "freed_twice"}
  /\ request \in Nat /\ actual \in Nat /\ next \in 0 .. actual
  /\ buckets \subseteq 0 .. actual - 1

(***************************************************************************)
(* Between two calls the heap holds a whole map, record, table and every   *)
(* bucket, if the caller has one, and nothing if it has none: no failure   *)
(* path leaks a block and no destruction forgets one.                      *)
(***************************************************************************)
AllOrNothing ==
  pc = "idle" =>
    /\ record = held /\ table = held
    /\ buckets = IF held THEN 0 .. actual - 1 ELSE {}

(***************************************************************************)
(* The capacity of a map is the least prime that is neither below the      *)
(* first capacity nor below the request, and within the maximum.           *)
(***************************************************************************)
CapacityIsPrime ==
  held =>
    /\ actual >= request /\ actual <= MaxCapacity /\ Prime(actual)
    /\ \A n \in FirstCapacity .. actual - 1 : Prime(n) => n < request

(***************************************************************************)
(* A request within the maximum is refused, without an allocation having   *)
(* failed, only where no prime is left between it and the maximum.         *)
(***************************************************************************)
RefusesOnlyBeyondLastPrime ==
  pc = "check" /\ actual > MaxCapacity =>
    \A n \in request .. MaxCapacity : n >= FirstCapacity => ~Prime(n)

(***************************************************************************)
(* The second free of the record is reached only after a bucket could not  *)
(* be created, never when the record or the table was what failed.         *)
(***************************************************************************)
DoubleFreeNeedsFailedBucket == heap = "freed_twice" => ~success

(***************************************************************************)
(* Every call returns, or ends the process: the search for a prime and the *)
(* loops over the buckets stop.                                            *)
(***************************************************************************)
CallsReturn == pc # "idle" ~> pc \in {"idle", "crashed"}

-----------------------------------------------------------------------------
(***************************************************************************)
(* The inductive invariant: which blocks are allocated at each point, and  *)
(* what is known of the capacity.                                          *)
(***************************************************************************)
Between == pc = "idle" /\ ~held

HeapInv ==
  /\ held => success /\ pc \in {"idle", "drain", "drop"}
  /\ Between => ~record /\ ~table /\ buckets = {}
  /\ pc = "idle" /\ held => record /\ table /\ buckets = 0 .. actual - 1
  /\ pc \in {"search", "check"} => record /\ ~table /\ buckets = {} /\ success
  /\ pc = "table" => record /\ buckets = {} /\ success
  /\ pc = "fill" =>
       /\ record /\ table /\ buckets \subseteq 0 .. next - 1
       /\ success => buckets = 0 .. next - 1
  /\ pc = "unfill" => record /\ table /\ ~success /\ buckets \subseteq next .. actual - 1
  /\ pc = "unrecord" => record /\ ~table /\ ~success /\ buckets = {}
  /\ pc = "again" => ~record /\ ~table /\ ~success /\ buckets = {}
  /\ pc = "drain" => held /\ record /\ table /\ buckets = next .. actual - 1
  /\ pc = "drop" => held /\ record /\ ~table /\ buckets = {}
  /\ heap = "freed_twice" => pc = "crashed" /\ ~success

SearchInv ==
  ~Between =>
    /\ request <= MaxCapacity
    /\ actual >= FirstCapacity
    /\ actual <= MaxCapacity => Prime(actual)
    /\ \A n \in FirstCapacity .. actual - 1 : Prime(n) => n < request
    /\ pc # "search" => actual >= request
    /\ pc \notin {"search", "check"} => actual <= MaxCapacity

HashMapInv == TypeOK /\ HeapInv /\ SearchInv
=============================================================================
