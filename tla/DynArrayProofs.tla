--------------------------- MODULE DynArrayProofs ---------------------------
(***************************************************************************)
(* The safety properties of DynArray for any block sizes, objects and      *)
(* clients: what an insertion and a removal leave in the slots, the        *)
(* ownership of the objects, and where memory outside the block can be     *)
(* accessed; and the refinement of DynSequence, operation by operation.    *)
(***************************************************************************)
EXTENDS DynArray, FiniteSetTheorems, NaturalsInduction, SequenceTheorems, TLAPS

-----------------------------------------------------------------------------
(* A number of the form c * q with room for n is a capacity of size_t.     *)
LEMMA DoubledRange ==
  ASSUME NEW c \in Nat, NEW n \in Nat, NEW d \in Doubled(c, n)
  PROVE  d \in Nat /\ d >= n /\ d < Word
BY DynArrayAssumption DEF Doubled

(* A successful request for more room leaves room for one object more.     *)
LEMMA Room ==
  ASSUME TypeOK, capacity < Word, NEW new \in dyn_request_size_increase(1)
  PROVE  new \in Nat /\ new >= size + 1 /\ new < Word
<1>. capacity \in Nat /\ size \in Nat
  BY DEF TypeOK
<1>1. CASE size + 1 <= capacity
  BY <1>1 DEF dyn_request_size_increase
<1>2. CASE ~(size + 1 <= capacity)
  BY <1>2, DoubledRange DEF dyn_request_size_increase
<1>3. QED
  BY <1>1, <1>2

(* realloc keeps the slots there were.                                     *)
LEMMA ReallocKeeps ==
  ASSUME TypeOK, NEW new \in Nat
  PROVE  /\ Realloc(new) \in [0 .. new - 1 -> Objects \cup {Garbage}]
         /\ \A i \in 0 .. new - 1 : i < capacity => Realloc(new)[i] = mem[i]
BY DEF TypeOK, Realloc

(* An insertion leaves the objects before the position where they are and  *)
(* those behind it one slot further on, in a block with room for them.     *)
GapFilled(position, o) ==
  \A i \in 0 .. size :
    mem'[i] = IF i < position THEN mem[i] ELSE IF i = position THEN o ELSE mem[i - 1]

LEMMA InsertedSlots ==
  ASSUME TypeOK, capacity < Word,
         NEW op, NEW position \in Nat, NEW o \in Objects,
         dyn_shift_insert(op, position, o)
  PROVE  /\ size' = size + 1 /\ position <= size
         /\ \E new \in Nat :
              /\ capacity' = new /\ new >= size + 1 /\ new < Word
              /\ mem' \in [0 .. new - 1 -> Objects \cup {Garbage}]
         /\ GapFilled(position, o)
<1>. capacity \in Nat /\ size \in Nat /\ size <= capacity
  BY DEF TypeOK
<1>1. PICK new \in dyn_request_size_increase(1) :
        /\ capacity' = new
        /\ mem' = Memcpy(Memmove(Realloc(new), position + 1, position, size - position),
                         position, <<o>>)
  BY DEF dyn_shift_insert
<1>2. size' = size + 1 /\ position <= size
  BY DEF dyn_shift_insert
<1>3. new \in Nat /\ new >= size + 1 /\ new < Word
  BY Room
<1>. DEFINE grown == Realloc(new)
            moved == Memmove(grown, position + 1, position, size - position)
<1>4. /\ grown \in [0 .. new - 1 -> Objects \cup {Garbage}]
      /\ \A i \in 0 .. new - 1 : i < capacity => grown[i] = mem[i]
  BY <1>3, ReallocKeeps
<1>. HIDE DEF grown
<1>5. /\ moved \in [0 .. new - 1 -> Objects \cup {Garbage}]
      /\ \A i \in 0 .. new - 1 :
           moved[i] = IF i \in position + 1 .. size THEN grown[i - 1] ELSE grown[i]
  BY <1>2, <1>3, <1>4 DEF Memmove
<1>. HIDE DEF moved
<1>6. /\ mem' \in [0 .. new - 1 -> Objects \cup {Garbage}]
      /\ \A i \in 0 .. new - 1 : mem'[i] = IF i = position THEN o ELSE moved[i]
  <2>1. mem' = Memcpy(moved, position, <<o>>)
    BY <1>1 DEF moved, grown
  <2>2. Len(<<o>>) = 1 /\ <<o>>[1] = o
    OBVIOUS
  <2>3. mem' = [i \in 0 .. new - 1 |-> IF i = position THEN o ELSE moved[i]]
    BY <1>2, <1>3, <1>5, <2>1, <2>2 DEF Memcpy
  <2>4. QED
    BY <1>5, <2>3
<1>7. GapFilled(position, o)
  BY <1>2, <1>3, <1>4, <1>5, <1>6 DEF GapFilled
<1>8. QED
  BY <1>1, <1>2, <1>3, <1>6, <1>7

(* A removal within the array closes the gap.                              *)
Remove(position, count) == dyn_shift_remove(position, count, TRUE)

Gone(position, count) == {mem[i] : i \in position .. position + count - 1}

GapClosed(position, count) ==
  \A i \in 0 .. size - count - 1 :
    mem'[i] = IF i < position THEN mem[i] ELSE mem[i + count]

LEMMA RemovedSlots ==
  ASSUME TypeOK, NEW position \in Nat, NEW count \in Nat,
         Remove(position, count), position + count <= size
  PROVE  /\ size' = size - count /\ capacity' = capacity /\ broken' = broken
         /\ where' = Moved(Gone(position, count), Removed)
         /\ mem' \in [0 .. capacity - 1 -> Objects \cup {Garbage}]
         /\ GapClosed(position, count)
<1>. capacity \in Nat /\ size \in Nat /\ size <= capacity
  BY DEF TypeOK
<1>1. /\ size' = size - count /\ capacity' = capacity /\ broken' = broken
      /\ where' = Moved(Gone(position, count), Removed)
      /\ mem' = Memmove(mem, position, position + count, size - (position + count))
  BY DEF Remove, dyn_shift_remove, Gone
<1>2. /\ mem' \in [0 .. capacity - 1 -> Objects \cup {Garbage}]
      /\ \A i \in 0 .. capacity - 1 :
           mem'[i] = IF i \in position .. size - count - 1 THEN mem[i + count] ELSE mem[i]
  BY <1>1 DEF Memmove, TypeOK
<1>3. QED
  BY <1>1, <1>2 DEF GapClosed

-----------------------------------------------------------------------------
(* The operations that move objects keep the inductive invariant.          *)
LEMMA InsertKeeps ==
  ASSUME DynArrayInv,
         NEW op, NEW position \in Nat, NEW o \in Objects,
         dyn_shift_insert(op, position, o)
  PROVE  DynArrayInv'
<1>0. TypeOK /\ Ownership /\ capacity < Word
  BY DEF DynArrayInv
<1>. capacity \in Nat /\ size \in Nat /\ size <= capacity
  BY <1>0 DEF TypeOK
<1>1. /\ size' = size + 1 /\ position <= size
      /\ GapFilled(position, o)
  BY <1>0, InsertedSlots
<1>a. PICK new \in Nat : /\ capacity' = new /\ new >= size + 1 /\ new < Word
                         /\ mem' \in [0 .. new - 1 -> Objects \cup {Garbage}]
  BY <1>0, InsertedSlots
<1>2. /\ live /\ live' = live /\ destructor' = destructor
      /\ data_type_size' = data_type_size /\ broken' \in BOOLEAN
      /\ where[o] = "client" /\ where' = [where EXCEPT ![o] = "array"]
  BY DEF dyn_shift_insert
<1>3. TypeOK'
  <2>1. size' \in 0 .. capacity' /\ capacity' \in Nat
    BY <1>1, <1>a
  <2>2. mem' \in [0 .. capacity' - 1 -> Objects \cup {Garbage}]
    BY <1>a
  <2>3. where' \in [Objects -> {"client", "array", "destructed", "dropped", "extracted"}]
    BY <1>0, <1>2 DEF TypeOK
  <2>4. QED
    BY <1>0, <1>2, <2>1, <2>2, <2>3 DEF TypeOK
<1>4. ASSUME NEW i \in 0 .. size - 1 PROVE mem[i] \in Objects \ {o} /\ where[mem[i]] \in {"array", "extracted"}
  BY <1>0, <1>2 DEF Ownership, Slots
<1>5. ASSUME NEW i \in 0 .. size
      PROVE  mem'[i] \in Objects /\ where'[mem'[i]] \in {"array", "extracted"}
  <2>1. CASE i < position
    BY <1>0, <1>1, <1>2, <1>4, <2>1 DEF TypeOK, GapFilled
  <2>2. CASE i = position
    BY <1>0, <1>1, <1>2, <2>2 DEF TypeOK, GapFilled
  <2>3. CASE i > position
    BY <1>0, <1>1, <1>2, <1>4, <2>3 DEF TypeOK, GapFilled
  <2>4. QED
    BY <2>1, <2>2, <2>3
<1>6. ASSUME NEW i \in 0 .. size, NEW j \in 0 .. size, i # j PROVE mem'[i] # mem'[j]
  <2>1. \A k, l \in 0 .. size - 1 : k # l => mem[k] # mem[l]
    BY <1>0 DEF Ownership, Slots
  <2>2. QED
    BY <1>1, <1>4, <1>6, <2>1 DEF GapFilled
<1>7. ASSUME NEW p \in Objects, where'[p] = "array" PROVE \E i \in 0 .. size : mem'[i] = p
  <2>1. CASE p = o
    BY <1>1, <2>1 DEF GapFilled
  <2>2. CASE p # o
    <3>1. where[p] = "array"
      BY <1>0, <1>2, <1>7, <2>2 DEF TypeOK
    <3>2. PICK i \in 0 .. size - 1 : mem[i] = p
      BY <1>0, <3>1 DEF Ownership, Slots
    <3>3. mem'[i] = p \/ mem'[i + 1] = p
      BY <1>1, <3>2 DEF GapFilled
    <3>4. QED
      BY <3>3
  <2>3. QED
    BY <2>1, <2>2
<1>8. Ownership'
  BY <1>1, <1>5, <1>6, <1>7 DEF Ownership, Slots
<1>9. QED
  BY <1>0, <1>1, <1>2, <1>3, <1>a, <1>8 DEF DynArrayInv

LEMMA RemoveKeeps ==
  ASSUME DynArrayInv, NEW position \in Nat, NEW count \in Nat, Remove(position, count)
  PROVE  DynArrayInv'
<1>0. TypeOK /\ Ownership /\ capacity < Word
  BY DEF DynArrayInv
<1>. capacity \in Nat /\ size \in Nat /\ size <= capacity
  BY <1>0 DEF TypeOK
<1>1. /\ live /\ live' = live /\ destructor' = destructor /\ capacity' = capacity
      /\ data_type_size' = data_type_size
  BY DEF Remove, dyn_shift_remove
<1>2. CASE ~(position + count <= size)
  <2>1. broken' = TRUE /\ where' = where /\ mem' = mem /\ size' = size
    BY <1>2 DEF Remove, dyn_shift_remove
  <2>2. TypeOK'
    BY <1>0, <1>1, <2>1 DEF TypeOK
  <2>3. QED
    BY <1>0, <1>1, <2>1, <2>2 DEF DynArrayInv, Ownership, Slots
<1>3. CASE position + count <= size
  <2>. DEFINE gone == Gone(position, count)
              left == size - count
  <2>1. /\ size' = left /\ left \in Nat /\ left <= size /\ broken' = broken
        /\ where' = Moved(gone, Removed)
        /\ mem' \in [0 .. capacity - 1 -> Objects \cup {Garbage}]
        /\ GapClosed(position, count)
    BY <1>0, <1>3, RemovedSlots
  <2>2. Removed \in {"destructed", "dropped"}
    BY DEF Removed
  <2>3. \A p \in Objects : where'[p] = IF p \in gone THEN Removed ELSE where[p]
    BY <2>1 DEF Moved
  <2>4. TypeOK'
    <3>1. where' \in [Objects -> {"client", "array", "destructed", "dropped", "extracted"}]
      BY <1>0, <2>1, <2>2 DEF TypeOK, Moved
    <3>2. QED
      BY <1>0, <1>1, <2>1, <3>1 DEF TypeOK
  <2>5. /\ \A i \in 0 .. size - 1 : mem[i] \in Objects /\ where[mem[i]] \in {"array", "extracted"}
        /\ \A i, j \in 0 .. size - 1 : i # j => mem[i] # mem[j]
        /\ \A p \in Objects : where[p] = "array" => \E i \in 0 .. size - 1 : mem[i] = p
    BY <1>0 DEF Ownership, Slots
  <2>6. ASSUME NEW i \in 0 .. left - 1
        PROVE  \E k \in (0 .. size - 1) \ (position .. position + count - 1) : mem'[i] = mem[k]
    <3>1. CASE i < position
      BY <1>3, <2>1, <3>1 DEF GapClosed
    <3>2. CASE ~(i < position)
      <4>1. i + count \in (0 .. size - 1) \ (position .. position + count - 1)
        BY <1>3, <3>2
      <4>2. QED
        BY <2>1, <3>2, <4>1 DEF GapClosed
    <3>3. QED
      BY <3>1, <3>2
  <2>7. ASSUME NEW k \in (0 .. size - 1) \ (position .. position + count - 1)
        PROVE  mem[k] \notin gone
    BY <1>3, <2>5 DEF Gone
  <2>8. ASSUME NEW i \in 0 .. left - 1
        PROVE  mem'[i] \in Objects /\ where'[mem'[i]] \in {"array", "extracted"}
    BY <2>3, <2>5, <2>6, <2>7
  <2>9. ASSUME NEW i \in 0 .. left - 1, NEW j \in 0 .. left - 1, i # j
        PROVE  mem'[i] # mem'[j]
    <3>. QED
      BY <1>3, <2>1, <2>5, <2>9 DEF GapClosed
  <2>10. ASSUME NEW p \in Objects, where'[p] = "array"
         PROVE  \E i \in 0 .. left - 1 : mem'[i] = p
    <3>1. p \notin gone /\ where[p] = "array"
      BY <2>2, <2>3, <2>10
    <3>2. PICK k \in 0 .. size - 1 : mem[k] = p
      BY <2>5, <3>1
    <3>3. k < position \/ k >= position + count
      BY <3>1, <3>2 DEF Gone
    <3>4. CASE k < position
      BY <1>3, <2>1, <3>2, <3>4 DEF GapClosed
    <3>5. CASE k >= position + count
      <4>1. k - count \in 0 .. left - 1 /\ k - count >= position /\ (k - count) + count = k
        BY <1>3, <3>5
      <4>2. QED
        BY <2>1, <3>2, <4>1 DEF GapClosed
    <3>6. QED
      BY <3>3, <3>4, <3>5
  <2>11. Ownership'
    BY <2>1, <2>8, <2>9, <2>10 DEF Ownership, Slots
  <2>12. QED
    BY <1>1, <2>1, <2>4, <2>11 DEF DynArrayInv
<1>4. QED
  BY <1>2, <1>3

(* An arrangement of the objects in use that repeats none leaves none out. *)
LEMMA Arrangement ==
  ASSUME size \in Nat, NEW f \in [Slots -> {mem[i] : i \in Slots}],
         \A i, j \in Slots : i # j => f[i] # f[j],
         NEW k \in Slots
  PROVE  \E i \in Slots : f[i] = mem[k]
<1>. DEFINE g == [i \in Slots |-> CHOOSE j \in Slots : mem[j] = f[i]]
<1>1. ASSUME NEW i \in Slots PROVE g[i] \in Slots /\ mem[g[i]] = f[i]
  <2>1. \E j \in Slots : mem[j] = f[i]
    OBVIOUS
  <2>2. QED
    BY <2>1
<1>2. IsFiniteSet(Slots)
  BY FS_Interval DEF Slots
<1>3. g \in [Slots -> Slots]
  BY <1>1
<1>. HIDE DEF g
<1>4. \A i, j \in Slots : g[i] = g[j] => i = j
  BY <1>1
<1>5. g \in Injection(Slots, Slots)
  BY <1>3, <1>4 DEF Injection, IsInjective
<1>6. g \in Surjection(Slots, Slots)
  BY <1>2, <1>5, FS_Injection
<1>7. PICK i \in Slots : g[i] = k
  BY <1>6 DEF Surjection
<1>8. QED
  BY <1>1, <1>7

LEMMA SortKeeps == DynArrayInv /\ Sort => DynArrayInv'
<1>. SUFFICES ASSUME DynArrayInv, Sort PROVE DynArrayInv'
  OBVIOUS
<1>0. TypeOK /\ Ownership /\ capacity < Word
  BY DEF DynArrayInv
<1>1. capacity \in Nat /\ size \in Nat /\ size <= capacity
  BY <1>0 DEF TypeOK
<1>2. /\ size' = size /\ capacity' = capacity /\ where' = where
      /\ live' = live /\ destructor' = destructor /\ broken' = broken
      /\ data_type_size' = data_type_size
  BY DEF Sort
<1>3. PICK f \in [Slots -> {mem[i] : i \in Slots}] :
        /\ \A i, j \in Slots : i < j => f[i] # f[j] /\ Key[f[i]] <= Key[f[j]]
        /\ mem' = [i \in DOMAIN mem |-> IF i \in Slots THEN f[i] ELSE mem[i]]
  BY DEF Sort
<1>4. \A i, j \in Slots : i # j => f[i] # f[j]
  <2>1. \A i, j \in Slots : i # j => i < j \/ j < i
    BY <1>1 DEF Slots
  <2>2. QED
    BY <1>3, <2>1
<1>5. \A i \in Slots : \E k \in Slots : f[i] = mem[k]
  OBVIOUS
<1>6. \A k \in Slots : \E i \in Slots : f[i] = mem[k]
  BY <1>1, <1>4, Arrangement
<1>7. \A i \in Slots : mem'[i] = f[i]
  BY <1>0, <1>1, <1>3 DEF TypeOK, Slots
<1>8. mem' \in [0 .. capacity - 1 -> Objects \cup {Garbage}]
  BY <1>0, <1>3, <1>5 DEF TypeOK, Ownership
<1>9. TypeOK'
  BY <1>0, <1>2, <1>8 DEF TypeOK
<1>10. Slots' = Slots
  BY <1>2 DEF Slots
<1>11. Ownership'
  <2>1. /\ \A i \in Slots : mem[i] \in Objects /\ where[mem[i]] \in {"array", "extracted"}
        /\ \A o \in Objects : where[o] = "array" => \E i \in Slots : mem[i] = o
    BY <1>0 DEF Ownership
  <2>2. \A i \in Slots : mem'[i] \in Objects /\ where[mem'[i]] \in {"array", "extracted"}
    BY <1>5, <1>7, <2>1
  <2>3. \A i, j \in Slots : i # j => mem'[i] # mem'[j]
    BY <1>4, <1>7
  <2>4. \A o \in Objects : where[o] = "array" => \E i \in Slots : mem'[i] = o
    BY <1>6, <1>7, <2>1
  <2>5. QED
    BY <1>2, <1>10, <2>2, <2>3, <2>4 DEF Ownership
<1>12. QED
  BY <1>2, <1>9, <1>11 DEF DynArrayInv

LEMMA DestroyKeeps == DynArrayInv /\ Destroy => DynArrayInv'
<1>. SUFFICES ASSUME DynArrayInv, Destroy PROVE DynArrayInv'
  OBVIOUS
<1>0. TypeOK /\ Ownership
  BY DEF DynArrayInv
<1>1. /\ live' = FALSE /\ capacity' = 0 /\ size' = 0 /\ data_type_size' = 0
      /\ mem' = <<>> /\ destructor' = destructor /\ broken' = broken
      /\ where' = Moved({mem[i] : i \in Slots}, Removed)
  BY DEF Destroy
<1>2. Removed \in {"destructed", "dropped"}
  BY DEF Removed
<1>3. \A p \in Objects : where'[p] # "array"
  BY <1>0, <1>1, <1>2 DEF Moved, Ownership
<1>4. where' \in [Objects -> {"client", "array", "destructed", "dropped", "extracted"}]
  BY <1>0, <1>1, <1>2 DEF Moved, TypeOK
<1>5. mem' \in [0 .. -1 -> Objects \cup {Garbage}]
  BY <1>1
<1>6. capacity' - 1 = -1 /\ size' \in 0 .. capacity' /\ capacity' \in Nat /\ 0 < Word
  BY <1>1, DynArrayAssumption
<1>7. TypeOK'
  BY <1>0, <1>1, <1>4, <1>5, <1>6 DEF TypeOK
<1>8. Slots' = {}
  BY <1>1 DEF Slots
<1>9. Ownership'
  BY <1>3, <1>8 DEF Ownership
<1>10. QED
  BY <1>1, <1>6, <1>7, <1>9 DEF DynArrayInv

LEMMA CreateKeeps ==
  ASSUME DynArrayInv, NEW request \in Nat, NEW objs \in Seq(Objects),
         \A i, j \in 1 .. Len(objs) : i # j => objs[i] # objs[j],
         Len(objs) <= request, Create(request, objs)
  PROVE  DynArrayInv'
<1>0. TypeOK /\ Ownership /\ ~live /\ size = 0
  BY DEF DynArrayInv, Create
<1>. DEFINE n == Len(objs)
<1>1. PICK new \in Doubled(MinCapacity, request), bytes \in TypeSizes :
        /\ capacity' = new /\ data_type_size' = bytes
        /\ mem' = Memcpy([i \in 0 .. new - 1 |-> Garbage], 0, objs)
        /\ broken' = (new > MaxCapacity \/ ~Fits(n, new, bytes))
  BY DEF Create
<1>2. /\ live' = TRUE /\ size' = n /\ destructor' \in BOOLEAN /\ broken' \in BOOLEAN
      /\ where' = Moved(Items(objs), "array")
  BY <1>1 DEF Create
<1>3. new \in Nat /\ new >= n /\ new < Word /\ n \in Nat /\ new > 0
  <2>1. new \in Nat /\ new >= request /\ new < Word
    BY DynArrayAssumption, DoubledRange
  <2>2. PICK q \in 1 .. Word : new = MinCapacity * q
    BY DEF Doubled
  <2>3. new > 0
    BY <2>2, DynArrayAssumption
  <2>4. QED
    BY <2>1, <2>3
<1>4. /\ mem' \in [0 .. new - 1 -> Objects \cup {Garbage}]
      /\ \A i \in 0 .. n - 1 : mem'[i] = objs[i + 1]
  BY <1>1, <1>3 DEF Memcpy
<1>5. \A p \in Objects : where'[p] = IF p \in Items(objs) THEN "array" ELSE where[p]
  BY <1>2 DEF Moved
<1>6. TypeOK'
  <2>1. size' \in 0 .. capacity' /\ capacity' \in Nat /\ data_type_size' \in TypeSizes \cup {0}
    BY <1>1, <1>2, <1>3
  <2>2. mem' \in [0 .. capacity' - 1 -> Objects \cup {Garbage}]
    BY <1>1, <1>4
  <2>3. where' \in [Objects -> {"client", "array", "destructed", "dropped", "extracted"}]
    BY <1>0, <1>2 DEF Moved, TypeOK
  <2>4. live' \in BOOLEAN
    BY <1>2
  <2>5. QED
    BY <1>2, <2>1, <2>2, <2>3, <2>4 DEF TypeOK
<1>7. ASSUME NEW i \in 0 .. n - 1 PROVE mem'[i] \in Objects /\ where'[mem'[i]] \in {"array", "extracted"}
  <2>1. i + 1 \in 1 .. n
    BY <1>3
  <2>2. mem'[i] = objs[i + 1] /\ objs[i + 1] \in Objects /\ objs[i + 1] \in Items(objs)
    BY <1>4, <2>1 DEF Items
  <2>3. QED
    BY <1>5, <2>2
<1>8. ASSUME NEW i \in 0 .. n - 1, NEW j \in 0 .. n - 1, i # j PROVE mem'[i] # mem'[j]
  <2>1. i + 1 \in 1 .. n /\ j + 1 \in 1 .. n /\ i + 1 # j + 1
    BY <1>3, <1>8
  <2>2. QED
    BY <1>4, <2>1
<1>9. ASSUME NEW p \in Objects, where'[p] = "array" PROVE \E i \in 0 .. n - 1 : mem'[i] = p
  <2>1. where[p] # "array"
    BY <1>0 DEF Ownership, Slots
  <2>2. p \in Items(objs)
    BY <1>5, <1>9, <2>1
  <2>3. PICK k \in 1 .. n : objs[k] = p
    BY <2>2 DEF Items
  <2>4. k - 1 \in 0 .. n - 1 /\ (k - 1) + 1 = k
    BY <1>3
  <2>5. QED
    BY <1>4, <2>3, <2>4
<1>10. Ownership'
  BY <1>2, <1>7, <1>8, <1>9 DEF Ownership, Slots
<1>11. bytes > 0
  BY DynArrayAssumption
<1>12. QED
  BY <1>1, <1>2, <1>3, <1>6, <1>10, <1>11 DEF DynArrayInv

LEMMA ExtractKeeps ==
  ASSUME DynArrayInv, NEW position \in Nat, Extract(position)
  PROVE  DynArrayInv'
<1>0. TypeOK /\ Ownership
  BY DEF DynArrayInv
<1>1. UNCHANGED array /\ broken' \in BOOLEAN
  BY <1>0 DEF Extract, TypeOK
<1>2. Slots' = Slots
  BY <1>1 DEF array, Slots
<1>3. CASE position < size
  <2>1. position \in Slots /\ where' = [where EXCEPT ![mem[position]] = "extracted"]
    BY <1>0, <1>3 DEF Extract, TypeOK, Slots
  <2>2. TypeOK'
    BY <1>0, <1>1, <2>1 DEF TypeOK, array
  <2>3. /\ \A i \in Slots : mem[i] \in Objects /\ where[mem[i]] \in {"array", "extracted"}
        /\ \A i, j \in Slots : i # j => mem[i] # mem[j]
        /\ \A o \in Objects : where[o] = "array" => \E i \in Slots : mem[i] = o
    BY <1>0 DEF Ownership
  <2>4. \A o \in Objects : where'[o] = where[o] \/ where'[o] = "extracted"
    BY <1>0, <2>1 DEF TypeOK
  <2>5. Ownership'
    BY <1>1, <1>2, <2>3, <2>4 DEF Ownership, array
  <2>6. QED
    BY <1>1, <2>2, <2>5 DEF DynArrayInv, array
<1>4. CASE ~(position < size)
  <2>1. where' = where
    BY <1>4 DEF Extract
  <2>2. QED
    BY <1>0, <1>1, <1>2, <2>1 DEF DynArrayInv, TypeOK, Ownership, array
<1>5. QED
  BY <1>3, <1>4

(* The operations that only look, or fail, leave the array as it is.       *)
LEMMA LookingKeeps ==
  DynArrayInv /\ UNCHANGED <<array, where>> /\ broken' \in BOOLEAN => DynArrayInv'
<1>. SUFFICES ASSUME DynArrayInv, UNCHANGED <<array, where>>, broken' \in BOOLEAN
              PROVE  DynArrayInv'
  OBVIOUS
<1>1. TypeOK'
  BY DEF DynArrayInv, TypeOK, array
<1>2. Ownership'
  BY DEF DynArrayInv, Ownership, Slots, array
<1>3. QED
  BY <1>1, <1>2 DEF DynArrayInv, array

LEMMA DynArrayInit == Init => DynArrayInv
<1>. SUFFICES ASSUME Init PROVE DynArrayInv
  OBVIOUS
<1>1. mem \in [0 .. -1 -> Objects \cup {Garbage}] /\ capacity - 1 = -1
  BY DEF Init
<1>2. live \in BOOLEAN /\ destructor \in BOOLEAN /\ broken \in BOOLEAN
  BY DEF Init
<1>3. capacity \in Nat /\ size \in 0 .. capacity /\ data_type_size \in TypeSizes \cup {0}
  BY DEF Init
<1>4. where \in [Objects -> {"client", "array", "destructed", "dropped", "extracted"}]
  BY DEF Init
<1>5. TypeOK
  BY <1>1, <1>2, <1>3, <1>4 DEF TypeOK
<1>6. Ownership
  BY DEF Init, Ownership, Slots
<1>7. QED
  BY <1>5, <1>6, DynArrayAssumption DEF Init, DynArrayInv

LEMMA DynArrayStep == DynArrayInv /\ [Next]_vars => DynArrayInv'
<1>. SUFFICES ASSUME DynArrayInv, [Next]_vars PROVE DynArrayInv'
  OBVIOUS
<1>0. size \in Nat /\ broken \in BOOLEAN /\ Indexes \subseteq Nat /\ Word \in Nat
  BY DynArrayAssumption DEF DynArrayInv, TypeOK
<1>1. ASSUME NEW c \in Requests, Create(c, <<>>) PROVE DynArrayInv'
  <2>1. c \in Nat /\ <<>> \in Seq(Objects) /\ Len(<<>>) <= c
    BY DynArrayAssumption
  <2>2. \A i, j \in 1 .. Len(<<>>) : i # j => <<>>[i] # <<>>[j]
    OBVIOUS
  <2>3. QED
    BY <1>1, <2>1, <2>2, CreateKeeps
<1>2. ASSUME NEW objs \in Imports, Create(Len(objs), objs) PROVE DynArrayInv'
  <2>1. objs \in Seq(Objects) /\ Len(objs) \in Nat /\ Len(objs) <= Len(objs)
    BY DynArrayAssumption
  <2>2. \A i, j \in 1 .. Len(objs) : i # j => objs[i] # objs[j]
    BY DynArrayAssumption
  <2>3. QED
    BY <1>2, <2>1, <2>2, CreateKeeps
<1>3. ASSUME NEW o \in Objects, PushFront(o) \/ PushBack(o) \/ InsertSorted(o)
      PROVE  DynArrayInv'
  <2>1. CASE PushFront(o)
    BY <2>1, InsertKeeps DEF PushFront
  <2>2. CASE PushBack(o)
    BY <1>0, <2>2, InsertKeeps DEF PushBack
  <2>3. CASE InsertSorted(o)
    <3>1. PICK i \in 0 .. size : dyn_shift_insert("insert_sorted", i, o)
      BY <2>3 DEF InsertSorted
    <3>2. QED
      BY <1>0, <3>1, InsertKeeps
  <2>4. QED
    BY <1>3, <2>1, <2>2, <2>3
<1>4. ASSUME NEW i \in Indexes, NEW o \in Objects, Insert(i, o) PROVE DynArrayInv'
  BY <1>0, <1>4, InsertKeeps DEF Insert
<1>5. ASSUME PopFront \/ PopBack \/ Clear \/ \E i \in Indexes : Erase(i)
      PROVE  DynArrayInv'
  <2>1. \E position, count \in Nat : Remove(position, count)
    <3>1. CASE PopFront
      BY <3>1 DEF PopFront, dyn_shift_remove, Remove
    <3>2. CASE PopBack
      <4>1. Wrap(Word + size - 1) \in Nat
        BY <1>0, DynArrayAssumption DEF Wrap
      <4>2. Remove(Wrap(Word + size - 1), 1)
        BY <3>2 DEF PopBack, dyn_shift_remove, Remove
      <4>3. QED
        BY <4>1, <4>2
    <3>3. CASE Clear
      BY <1>0, <3>3 DEF Clear, dyn_shift_remove, Remove
    <3>4. ASSUME NEW i \in Indexes, Erase(i) PROVE Remove(i, 1)
      BY <3>4 DEF Erase, dyn_shift_remove, Remove
    <3>5. QED
      BY <1>0, <1>5, <3>1, <3>2, <3>3, <3>4
  <2>2. QED
    BY <2>1, RemoveKeeps
<1>6. CASE \/ CreateFails \/ Front \/ Back \/ Size \/ ForEach \/ SortFails \/ Undefined
  BY <1>0, <1>6, LookingKeeps
     DEF CreateFails, Front, Back, View, Size, ForEach, SortFails, Undefined, vars, array
<1>7. ASSUME NEW i \in Indexes,
             \/ InsertFails(i) \/ InsertFrees(i) \/ EraseFails(i)
             \/ ExtractFails(i) \/ View(i)
      PROVE  DynArrayInv'
  BY <1>0, <1>7, LookingKeeps
     DEF InsertFails, InsertFrees, EraseFails, ExtractFails, View, array
<1>8. ASSUME NEW i \in Indexes, Extract(i) PROVE DynArrayInv'
  BY <1>0, <1>8, ExtractKeeps
<1>9. CASE UNCHANGED vars
  BY <1>0, <1>9, LookingKeeps DEF vars, array
<1>10. QED
  BY <1>1, <1>2, <1>3, <1>4, <1>5, <1>6, <1>7, <1>8, <1>9, SortKeeps, DestroyKeeps
     DEF Next

-----------------------------------------------------------------------------
(* The inductive invariant is an invariant, for any objects, block sizes   *)
(* and client, also one that passes indexes near the end of size_t.        *)
THEOREM DynArrayInvariant == Spec => []DynArrayInv
BY DynArrayInit, DynArrayStep, PTL DEF Spec

(* The block, the counters and the owners keep their types.                *)
THEOREM TypeCorrect == Spec => []TypeOK
<1>1. DynArrayInv => TypeOK
  BY DEF DynArrayInv
<1>2. QED
  BY DynArrayInvariant, <1>1, PTL

(* No object is lost when the block grows or the slots move, none is in    *)
(* two slots, and none is destructed and still visible.                    *)
THEOREM NothingLost == Spec => []Ownership
<1>1. DynArrayInv => Ownership
  BY DEF DynArrayInv
<1>2. QED
  BY DynArrayInvariant, <1>1, PTL

-----------------------------------------------------------------------------
(* The capacities that doubling reaches are a factor of two apart.         *)
LEMMA Half ==
  ASSUME NEW n \in Nat, PowerOfTwo(n), n > 1
  PROVE  \E h \in Nat : n = 2 * h /\ PowerOfTwo(h)
<1>1. n % n = 0 /\ n \in 2 .. n
  OBVIOUS
<1>2. n % 2 = 0
  BY <1>1 DEF PowerOfTwo
<1>3. PICK h \in Nat : n = 2 * h
  BY <1>2
<1>4. ASSUME NEW f \in 2 .. h, h % f = 0 PROVE f % 2 = 0
  <2>1. PICK g \in Nat : h = f * g
    <3>1. h = f * (h \div f) /\ h \div f \in Nat
      BY <1>4
    <3>2. QED
      BY <3>1
  <2>2. PICK k \in Nat : n = f * k
    <3>1. n = f * (2 * g) /\ 2 * g \in Nat
      BY <1>3, <2>1
    <3>2. QED
      BY <3>1
  <2>3. (k * f) % f = 0 /\ k * f = f * k
    OBVIOUS
  <2>4. n % f = 0 /\ f \in 2 .. n
    BY <1>3, <2>2, <2>3
  <2>5. QED
    BY <2>4 DEF PowerOfTwo
<1>5. PowerOfTwo(h)
  BY <1>3, <1>4 DEF PowerOfTwo
<1>6. QED
  BY <1>3, <1>5

LEMMA PowersApart ==
  ASSUME NEW p \in Nat, NEW q \in Nat, PowerOfTwo(p), PowerOfTwo(q), q < p
  PROVE  2 * q <= p
<1>. DEFINE Close(m, n) == PowerOfTwo(m) /\ PowerOfTwo(n) /\ n < m /\ m < 2 * n
            S == {n \in Nat : \E m \in Nat : Close(m, n)}
<1>1. ASSUME S # {} PROVE FALSE
  <2>1. PICK n \in S : \A y \in S : <<y, n>> \notin OpToRel(<, Nat)
    BY <1>1, NatLessThanWellFounded, WFMin
  <2>2. ASSUME NEW y \in S, y < n PROVE FALSE
    <3>1. <<y, n>> \in OpToRel(<, Nat)
      BY <2>2 DEF OpToRel
    <3>2. QED
      BY <2>1, <3>1
  <2>3. PICK m \in Nat : Close(m, n)
    OBVIOUS
  <2>4. n \in Nat /\ n > 1 /\ m > 1
    BY <2>3 DEF PowerOfTwo
  <2>5. PICK h \in Nat : n = 2 * h /\ PowerOfTwo(h)
    BY <2>3, <2>4, Half
  <2>6. PICK k \in Nat : m = 2 * k /\ PowerOfTwo(k)
    BY <2>3, <2>4, Half
  <2>7. Close(k, h) /\ h < n
    BY <2>3, <2>4, <2>5, <2>6
  <2>8. h \in S
    BY <2>7
  <2>9. QED
    BY <2>2, <2>7, <2>8
<1>2. ~Close(p, q)
  BY <1>1
<1>3. QED
  BY <1>2

(* So rounding up a request stays within a maximum that is one of them.    *)
LEMMA RoundingStays ==
  ASSUME MaximumIsDoubled, NEW request \in Nat, request <= MaxCapacity,
         NEW new \in Doubled(MinCapacity, request)
  PROVE  new <= MaxCapacity
<1>. MinCapacity \in Nat /\ MinCapacity > 0 /\ MaxCapacity \in Nat /\ Word \in Nat
  BY DynArrayAssumption
<1>1. PICK a \in 1 .. Word : PowerOfTwo(a) /\ new = MinCapacity * a
  BY DEF Doubled
<1>2. PICK b \in 1 .. Word : PowerOfTwo(b) /\ MaxCapacity = MinCapacity * b
  BY DEF MaximumIsDoubled
<1>3. new = MinCapacity \/ new < 2 * request
  BY DEF Doubled
<1>4. CASE a <= b
  BY <1>1, <1>2, <1>4
<1>5. CASE a > b
  <2>1. 2 * b <= a
    BY <1>1, <1>2, <1>5, PowersApart
  <2>2. new >= 2 * MaxCapacity
    BY <1>1, <1>2, <2>1
  <2>3. new = MinCapacity
    BY <1>3, <2>2, <1>1
  <2>4. a = 1
    BY <1>1, <2>3
  <2>5. QED
    BY <1>5, <2>4
<1>6. QED
  BY <1>4, <1>5

-----------------------------------------------------------------------------
(* Where an access leaves the block, the bytes of the block do not fit     *)
(* into size_t.                                                            *)
LEMMA TooManyBytes ==
  ASSUME NEW n \in Nat, NEW c \in Nat, NEW bytes \in Nat, n <= c, ~Fits(n, c, bytes)
  PROVE  2 * c * bytes >= Word
<1>. Word \in Nat \ {0} /\ c * bytes \in Nat
  BY DynArrayAssumption
<1>1. n * bytes <= c * bytes
  <2>1. (c - n) * bytes >= 0
    OBVIOUS
  <2>2. (c - n) * bytes = c * bytes - n * bytes
    OBVIOUS
  <2>3. n * bytes \in Nat
    OBVIOUS
  <2>4. QED
    BY <2>1, <2>2, <2>3
<1>2. CASE c * bytes < Word
  <2>1. (c * bytes) % Word = c * bytes
    BY <1>2
  <2>2. QED
    BY <1>1, <2>1 DEF Fits, Wrap
<1>3. CASE c * bytes >= Word
  <2>1. 2 * c * bytes = c * bytes + c * bytes
    OBVIOUS
  <2>2. QED
    BY <1>3, <2>1
<1>4. QED
  BY <1>2, <1>3

LEMMA NoBytes ==
  ASSUME DynArrayInv, live, size = capacity,
         NEW new \in dyn_request_size_increase(1), Wrap(new * data_type_size) = 0
  PROVE  2 * capacity * data_type_size >= Word
<1>0. TypeOK /\ capacity > 0 /\ data_type_size > 0
  BY DEF DynArrayInv
<1>. capacity \in Nat /\ data_type_size \in Nat /\ Word \in Nat \ {0}
  BY <1>0, DynArrayAssumption DEF TypeOK
<1>1. new \in Doubled(2 * capacity, capacity + 1)
  BY DEF dyn_request_size_increase
<1>2. PICK q \in 1 .. Word : new = 2 * capacity * q
  BY <1>1 DEF Doubled
<1>3. new = 2 * capacity \/ new < 2 * (capacity + 1)
  BY <1>1 DEF Doubled
<1>4. new = 2 * capacity
  <2>1. CASE q = 1
    BY <1>2, <2>1
  <2>2. CASE q >= 2
    <3>1. 2 * capacity * q >= 2 * capacity * 2
      BY <2>2
    <3>2. QED
      BY <1>0, <1>2, <1>3, <3>1
  <2>3. QED
    BY <2>1, <2>2
<1>5. 2 * capacity * data_type_size \in Nat /\ 2 * capacity * data_type_size > 0
  BY <1>0
<1>6. (2 * capacity * data_type_size) % Word = 0
  BY <1>4 DEF Wrap
<1>. DEFINE b == 2 * capacity * data_type_size
<1>. HIDE DEF b
<1>7. b \in Nat /\ b > 0 /\ b % Word = 0 => b >= Word
  OBVIOUS
<1>8. QED
  BY <1>5, <1>6, <1>7 DEF b

LEMMA CreateInBounds ==
  ASSUME MaximumIsDoubled, NEW request \in Nat, NEW objs \in Seq(Objects),
         Len(objs) <= request, Create(request, objs)
  PROVE  InBounds'
<1>1. PICK new \in Doubled(MinCapacity, request), bytes \in TypeSizes :
        /\ capacity' = new /\ data_type_size' = bytes
        /\ broken' = (new > MaxCapacity \/ ~Fits(Len(objs), new, bytes))
  BY DEF Create
<1>2. new \in Nat /\ new >= request /\ Len(objs) \in Nat /\ bytes \in Nat /\ MaxCapacity \in Nat
  BY DynArrayAssumption, DoubledRange
<1>3. ~(new > MaxCapacity)
  BY <1>2, RoundingStays DEF Create
<1>4. CASE Fits(Len(objs), new, bytes)
  BY <1>1, <1>3, <1>4 DEF InBounds
<1>5. CASE ~Fits(Len(objs), new, bytes)
  <2>1. 2 * new * bytes >= Word
    BY <1>2, <1>5, TooManyBytes
  <2>2. QED
    BY <1>1, <2>1 DEF InBounds
<1>6. QED
  BY <1>4, <1>5

LEMMA InsertInBounds ==
  ASSUME DynArrayInv, NEW op, NEW position, NEW o, dyn_shift_insert(op, position, o)
  PROVE  InBounds'
<1>0. TypeOK /\ capacity < Word
  BY DEF DynArrayInv
<1>1. PICK new \in dyn_request_size_increase(1) :
        capacity' = new /\ broken' = ~Fits(size + 1, new, data_type_size)
  BY DEF dyn_shift_insert
<1>2. data_type_size' = data_type_size
  BY DEF dyn_shift_insert
<1>3. new \in Nat /\ size + 1 <= new /\ size + 1 \in Nat /\ data_type_size \in Nat
  BY <1>0, Room, DynArrayAssumption DEF TypeOK
<1>4. CASE Fits(size + 1, new, data_type_size)
  BY <1>1, <1>4 DEF InBounds
<1>5. CASE ~Fits(size + 1, new, data_type_size)
  <2>1. 2 * new * data_type_size >= Word
    BY <1>3, <1>5, TooManyBytes
  <2>2. QED
    BY <1>1, <1>2, <2>1 DEF InBounds
<1>6. QED
  BY <1>4, <1>5

LEMMA RemoveInBounds ==
  ASSUME DynArrayInv, NEW position \in Nat, NEW count \in Nat, position + count < Word,
         Remove(position, count)
  PROVE  InBounds'
<1>1. position + count <= size
  BY DynArrayAssumption DEF Remove, dyn_shift_remove, InRange, Wrap
<1>2. broken' = broken /\ ~broken
  BY <1>1 DEF Remove, dyn_shift_remove
<1>3. QED
  BY <1>2 DEF InBounds

LEMMA InBoundsStep ==
  ASSUME MaximumIsDoubled, NoIndexWraps
  PROVE  DynArrayInv /\ InBounds /\ [Next]_vars => InBounds'
<1>. SUFFICES ASSUME DynArrayInv, InBounds, [Next]_vars PROVE InBounds'
  OBVIOUS
<1>0. /\ TypeOK /\ size \in Nat /\ size < Word /\ Indexes \subseteq Nat /\ Word \in Nat \ {0}
      /\ live => 1 < Word
  BY DynArrayAssumption DEF DynArrayInv, TypeOK
<1>1. ASSUME NEW c \in Requests, Create(c, <<>>) PROVE InBounds'
  <2>1. c \in Nat /\ <<>> \in Seq(Objects) /\ Len(<<>>) <= c
    BY DynArrayAssumption
  <2>2. QED
    BY <1>1, <2>1, CreateInBounds
<1>2. ASSUME NEW objs \in Imports, Create(Len(objs), objs) PROVE InBounds'
  <2>1. objs \in Seq(Objects) /\ Len(objs) \in Nat /\ Len(objs) <= Len(objs)
    BY DynArrayAssumption
  <2>2. QED
    BY <1>2, <2>1, CreateInBounds
<1>3. ASSUME NEW o \in Objects, PushFront(o) \/ PushBack(o) \/ InsertSorted(o)
      PROVE  InBounds'
  BY <1>3, InsertInBounds DEF PushFront, PushBack, InsertSorted
<1>4. ASSUME NEW i \in Indexes, NEW o \in Objects, Insert(i, o) PROVE InBounds'
  BY <1>4, InsertInBounds DEF Insert
<1>5. CASE PopFront
  <2>1. Remove(0, 1) /\ live
    BY <1>5 DEF PopFront, dyn_shift_remove, Remove
  <2>2. QED
    BY <1>0, <2>1, RemoveInBounds
<1>6. CASE PopBack
  <2>1. Remove(Wrap(Word + size - 1), 1) /\ size # 0
    BY <1>6 DEF PopBack, dyn_shift_remove, Remove, InRange
  <2>2. Wrap(Word + size - 1) = size - 1
    BY <1>0, <2>1 DEF Wrap
  <2>3. size - 1 \in Nat /\ (size - 1) + 1 < Word
    BY <1>0, <2>1
  <2>4. QED
    BY <2>1, <2>2, <2>3, RemoveInBounds
<1>7. CASE Clear
  <2>1. Remove(0, size)
    BY <1>7 DEF Clear, dyn_shift_remove, Remove
  <2>2. QED
    BY <1>0, <2>1, RemoveInBounds
<1>8. ASSUME NEW i \in Indexes, Erase(i) PROVE InBounds'
  <2>1. Remove(i, 1)
    BY <1>8 DEF Erase, dyn_shift_remove, Remove
  <2>2. i \in Nat /\ i + 1 < Word
    BY <1>0 DEF NoIndexWraps
  <2>3. QED
    BY <2>1, <2>2, RemoveInBounds
<1>9. ASSUME NEW i \in Indexes, Extract(i) PROVE InBounds'
  <2>1. i \in Nat /\ i + 1 < Word
    BY <1>0 DEF NoIndexWraps
  <2>2. i < size
    BY <1>0, <1>9, <2>1 DEF Extract, InRange, Wrap
  <2>3. broken' = broken /\ ~broken
    BY <1>9, <2>2 DEF Extract
  <2>4. QED
    BY <2>3 DEF InBounds
<1>10. ASSUME NEW i \in Indexes, InsertFrees(i) PROVE InBounds'
  <2>1. 2 * capacity * data_type_size >= Word
    BY <1>10, NoBytes DEF InsertFrees
  <2>2. capacity' = capacity /\ data_type_size' = data_type_size
    BY <1>10 DEF InsertFrees, array
  <2>3. QED
    BY <2>1, <2>2 DEF InBounds
<1>11. CASE CreateFails \/ Front \/ Back \/ Size \/ ForEach \/ Sort \/ SortFails \/ Destroy
  <2>1. broken' = broken /\ ~broken
    BY <1>11 DEF CreateFails, Front, Back, View, Size, ForEach, Sort, SortFails, Destroy
  <2>2. QED
    BY <2>1 DEF InBounds
<1>12. ASSUME NEW i \in Indexes,
              InsertFails(i) \/ EraseFails(i) \/ ExtractFails(i) \/ View(i)
       PROVE  InBounds'
  <2>1. broken' = broken /\ ~broken
    BY <1>12 DEF InsertFails, EraseFails, ExtractFails, View
  <2>2. QED
    BY <2>1 DEF InBounds
<1>13. CASE Undefined \/ UNCHANGED vars
  BY <1>13 DEF Undefined, vars, InBounds
<1>14. QED
  BY <1>1, <1>2, <1>3, <1>4, <1>5, <1>6, <1>7, <1>8, <1>9, <1>10, <1>11, <1>12, <1>13
     DEF Next

(* With a maximum that doubling reaches and a client that does not pass    *)
(* the last size_t as an index, memory outside the block is accessed only  *)
(* where the bytes of the block do not fit into size_t.                    *)
THEOREM StaysInBounds ==
  ASSUME MaximumIsDoubled, NoIndexWraps
  PROVE  Spec => []InBounds
<1>1. Init => InBounds
  BY DEF Init, InBounds
<1>2. DynArrayInv /\ InBounds /\ [Next]_vars => InBounds'
  BY InBoundsStep
<1>3. QED
  BY <1>1, <1>2, DynArrayInvariant, PTL DEF Spec

-----------------------------------------------------------------------------
(* What the array stands for. *)
contents == [i \in 1 .. size |-> mem[i - 1]]

-----------------------------------------------------------------------------
(* What inserting into a sequence and removing from it do to the elements. *)
WithInserted(s, k, e, t) ==
  /\ Len(t) = Len(s) + 1
  /\ \A i \in 1 .. Len(s) + 1 :
       t[i] = IF i < k THEN s[i] ELSE IF i = k THEN e ELSE s[i - 1]

LEMMA InsertAtElements ==
  ASSUME NEW S, NEW s \in Seq(S), NEW k \in 1 .. Len(s) + 1, NEW e \in S
  PROVE  /\ Sequence!InsertAt(s, k, e) \in Seq(S)
         /\ WithInserted(s, k, e, Sequence!InsertAt(s, k, e))
<1>. DEFINE front == SubSeq(s, 1, k - 1)
            back  == SubSeq(s, k, Len(s))
            mid   == front \o <<e>>
<1>0. Len(s) \in Nat /\ \A i \in 1 .. Len(s) : s[i] \in S
  BY LenProperties, ElementOfSeq
<1>1. /\ front \in Seq(S) /\ Len(front) = k - 1
      /\ \A i \in 1 .. k - 1 : front[i] = s[i]
  <2>1. \A i \in 1 .. k - 1 : s[i] \in S
    BY <1>0
  <2>2. /\ front \in Seq(S)
        /\ Len(front) = IF 1 <= k - 1 THEN (k - 1) - 1 + 1 ELSE 0
        /\ \A i \in 1 .. (k - 1) - 1 + 1 : front[i] = s[1 + i - 1]
    BY <1>0, <2>1, SubSeqProperties
  <2>3. QED
    BY <1>0, <2>2
<1>2. /\ back \in Seq(S) /\ Len(back) = Len(s) - k + 1
      /\ \A i \in 1 .. Len(s) - k + 1 : back[i] = s[k + i - 1]
  <2>1. \A i \in k .. Len(s) : s[i] \in S
    BY <1>0
  <2>2. /\ back \in Seq(S)
        /\ Len(back) = IF k <= Len(s) THEN Len(s) - k + 1 ELSE 0
        /\ \A i \in 1 .. Len(s) - k + 1 : back[i] = s[k + i - 1]
    BY <1>0, <2>1, SubSeqProperties
  <2>3. QED
    BY <1>0, <2>2
<1>. HIDE DEF front, back
<1>3. /\ mid \in Seq(S) /\ Len(mid) = k
      /\ \A i \in 1 .. k : mid[i] = IF i < k THEN s[i] ELSE e
  <2>1. <<e>> \in Seq(S) /\ Len(<<e>>) = 1 /\ <<e>>[1] = e
    OBVIOUS
  <2>2. /\ mid \in Seq(S) /\ Len(mid) = Len(front) + Len(<<e>>)
        /\ \A i \in 1 .. Len(front) + Len(<<e>>) :
             mid[i] = IF i <= Len(front) THEN front[i] ELSE <<e>>[i - Len(front)]
    BY <1>1, <2>1, ConcatProperties
  <2>3. QED
    BY <1>0, <1>1, <2>1, <2>2
<1>. HIDE DEF mid
<1>4. Sequence!InsertAt(s, k, e) = mid \o back
  BY DEF Sequence!InsertAt, mid, front, back
<1>5. /\ mid \o back \in Seq(S)
      /\ Len(mid \o back) = Len(mid) + Len(back)
      /\ \A i \in 1 .. Len(mid) + Len(back) :
           (mid \o back)[i] = IF i <= Len(mid) THEN mid[i] ELSE back[i - Len(mid)]
  BY <1>2, <1>3, ConcatProperties
<1>6. ASSUME NEW i \in 1 .. Len(s) + 1
      PROVE  (mid \o back)[i] = IF i < k THEN s[i] ELSE IF i = k THEN e ELSE s[i - 1]
  <2>1. CASE i <= k
    BY <1>0, <1>2, <1>3, <1>5, <2>1
  <2>2. CASE i > k
    <3>1. i - k \in 1 .. Len(s) - k + 1 /\ k + (i - k) - 1 = i - 1
      BY <1>0, <2>2
    <3>2. (mid \o back)[i] = back[i - k]
      BY <1>0, <1>2, <1>3, <1>5, <2>2
    <3>3. QED
      BY <1>2, <2>2, <3>1, <3>2
  <2>3. i <= k \/ i > k
    BY <1>0
  <2>4. QED
    BY <2>1, <2>2, <2>3
<1>7. QED
  BY <1>0, <1>2, <1>3, <1>4, <1>5, <1>6 DEF WithInserted

LEMMA RemoveAtElements ==
  ASSUME NEW S, NEW s \in Seq(S), NEW k \in 1 .. Len(s)
  PROVE  /\ Sequence!RemoveAt(s, k) \in Seq(S)
         /\ Len(Sequence!RemoveAt(s, k)) = Len(s) - 1
         /\ \A i \in 1 .. Len(s) - 1 :
              Sequence!RemoveAt(s, k)[i] = IF i < k THEN s[i] ELSE s[i + 1]
<1>. DEFINE front == SubSeq(s, 1, k - 1)
            back  == SubSeq(s, k + 1, Len(s))
<1>0. Len(s) \in Nat /\ \A i \in 1 .. Len(s) : s[i] \in S
  BY LenProperties, ElementOfSeq
<1>1. /\ front \in Seq(S) /\ Len(front) = k - 1
      /\ \A i \in 1 .. k - 1 : front[i] = s[i]
  <2>1. \A i \in 1 .. k - 1 : s[i] \in S
    BY <1>0
  <2>2. /\ front \in Seq(S)
        /\ Len(front) = IF 1 <= k - 1 THEN (k - 1) - 1 + 1 ELSE 0
        /\ \A i \in 1 .. (k - 1) - 1 + 1 : front[i] = s[1 + i - 1]
    BY <1>0, <2>1, SubSeqProperties
  <2>3. QED
    BY <1>0, <2>2
<1>2. /\ back \in Seq(S) /\ Len(back) = Len(s) - k
      /\ \A i \in 1 .. Len(s) - k : back[i] = s[k + i]
  <2>1. \A i \in k + 1 .. Len(s) : s[i] \in S
    BY <1>0
  <2>2. /\ back \in Seq(S)
        /\ Len(back) = IF k + 1 <= Len(s) THEN Len(s) - (k + 1) + 1 ELSE 0
        /\ \A i \in 1 .. Len(s) - (k + 1) + 1 : back[i] = s[(k + 1) + i - 1]
    BY <1>0, <2>1, SubSeqProperties
  <2>3. QED
    BY <1>0, <2>2
<1>. HIDE DEF front, back
<1>3. Sequence!RemoveAt(s, k) = front \o back
  BY DEF Sequence!RemoveAt, front, back
<1>4. /\ front \o back \in Seq(S)
      /\ Len(front \o back) = Len(front) + Len(back)
      /\ \A i \in 1 .. Len(front) + Len(back) :
           (front \o back)[i] = IF i <= Len(front) THEN front[i] ELSE back[i - Len(front)]
  BY <1>1, <1>2, ConcatProperties
<1>5. ASSUME NEW i \in 1 .. Len(s) - 1
      PROVE  (front \o back)[i] = IF i < k THEN s[i] ELSE s[i + 1]
  <2>1. CASE i < k
    BY <1>0, <1>1, <1>2, <1>4, <2>1
  <2>2. CASE i >= k
    <3>1. i - (k - 1) \in 1 .. Len(s) - k /\ k + (i - (k - 1)) = i + 1
      BY <1>0, <2>2
    <3>2. (front \o back)[i] = back[i - (k - 1)]
      BY <1>0, <1>1, <1>2, <1>4, <2>2
    <3>3. QED
      BY <1>2, <2>2, <3>1, <3>2
  <2>3. i < k \/ i >= k
    BY <1>0
  <2>4. QED
    BY <2>1, <2>2, <2>3
<1>6. QED
  BY <1>0, <1>1, <1>2, <1>3, <1>4, <1>5

-----------------------------------------------------------------------------
(* The contents are a sequence of objects, one for each slot in use.       *)
ContentsOK ==
  /\ contents \in Seq(Objects) /\ Len(contents) = size /\ size \in Nat
  /\ DOMAIN contents = 1 .. size
  /\ \A i \in 1 .. size : contents[i] = mem[i - 1]

LEMMA Contents == DynArrayInv => ContentsOK
<1>. SUFFICES ASSUME DynArrayInv PROVE ContentsOK
  OBVIOUS
<1>1. size \in Nat /\ Ownership
  BY DEF DynArrayInv, TypeOK
<1>2. \A i \in 1 .. size : mem[i - 1] \in Objects
  BY <1>1 DEF Ownership, Slots
<1>3. /\ contents \in [1 .. size -> Objects]
      /\ \A i \in 1 .. size : contents[i] = mem[i - 1]
  BY <1>2 DEF contents
<1>4. contents \in Seq(Objects)
  BY <1>1, <1>3
<1>5. QED
  BY <1>1, <1>3, <1>4, LenProperties DEF ContentsOK

LEMMA ContentsSet ==
  ASSUME DynArrayInv
  PROVE  Sequence!ToSet(contents) = {mem[i] : i \in Slots}
<1>1. /\ size \in Nat /\ DOMAIN contents = 1 .. size
      /\ \A i \in 1 .. size : contents[i] = mem[i - 1]
  BY Contents DEF ContentsOK
<1>2. ASSUME NEW i \in 1 .. size PROVE contents[i] \in {mem[j] : j \in Slots}
  BY <1>1 DEF Slots
<1>3. ASSUME NEW j \in Slots PROVE \E i \in 1 .. size : contents[i] = mem[j]
  <2>1. j + 1 \in 1 .. size /\ (j + 1) - 1 = j
    BY <1>1 DEF Slots
  <2>2. QED
    BY <1>1, <2>1
<1>4. QED
  BY <1>1, <1>2, <1>3 DEF Sequence!ToSet

LEMMA ContentsSorted ==
  ASSUME DynArrayInv
  PROVE  Sequence!InSortedOrder(contents) <=>
           \A i, j \in Slots : i < j => Key[mem[i]] <= Key[mem[j]]
<1>1. /\ Len(contents) = size /\ size \in Nat
      /\ \A i \in 1 .. size : contents[i] = mem[i - 1]
  BY Contents DEF ContentsOK
<1>2. Sequence!InSortedOrder(contents) <=>
        \A i, j \in 1 .. size : i < j => Key[contents[i]] <= Key[contents[j]]
  BY <1>1 DEF Sequence!InSortedOrder, Sequence!IsSorted
<1>3. ASSUME \A i, j \in 1 .. size : i < j => Key[contents[i]] <= Key[contents[j]],
             NEW i \in Slots, NEW j \in Slots, i < j
      PROVE  Key[mem[i]] <= Key[mem[j]]
  <2>1. i + 1 \in 1 .. size /\ j + 1 \in 1 .. size /\ i + 1 < j + 1
    BY <1>1, <1>3 DEF Slots
  <2>2. contents[i + 1] = mem[i] /\ contents[j + 1] = mem[j]
    BY <1>1, <2>1 DEF Slots
  <2>3. QED
    BY <1>3, <2>1, <2>2
<1>4. ASSUME \A i, j \in Slots : i < j => Key[mem[i]] <= Key[mem[j]],
             NEW i \in 1 .. size, NEW j \in 1 .. size, i < j
      PROVE  Key[contents[i]] <= Key[contents[j]]
  <2>1. i - 1 \in Slots /\ j - 1 \in Slots /\ i - 1 < j - 1
    BY <1>1, <1>4 DEF Slots
  <2>2. QED
    BY <1>1, <1>4, <2>1
<1>5. QED
  BY <1>2, <1>3, <1>4

(* An insertion into the array is one into the sequence.                   *)
LEMMA InsertRefines ==
  ASSUME DynArrayInv, NEW op, NEW position \in Nat, NEW o \in Objects,
         dyn_shift_insert(op, position, o)
  PROVE  /\ position \in 0 .. Len(contents)
         /\ contents' = Sequence!InsertAt(contents, position + 1, o)
<1>0. TypeOK /\ capacity < Word
  BY DEF DynArrayInv
<1>1. /\ contents \in Seq(Objects) /\ Len(contents) = size /\ size \in Nat
      /\ \A i \in 1 .. size : contents[i] = mem[i - 1]
  BY Contents DEF ContentsOK
<1>2. size' = size + 1 /\ position <= size /\ GapFilled(position, o)
  BY <1>0, InsertedSlots
<1>3. contents' \in Seq(Objects) /\ Len(contents') = size + 1
      /\ \A i \in 1 .. size + 1 : contents'[i] = mem'[i - 1]
  <2>1. DynArrayInv'
    BY InsertKeeps
  <2>2. ContentsOK'
    BY <2>1, Contents, PTL
  <2>3. QED
    BY <1>2, <2>2 DEF ContentsOK
<1>. DEFINE t == Sequence!InsertAt(contents, position + 1, o)
<1>4. position + 1 \in 1 .. Len(contents) + 1
  BY <1>1, <1>2
<1>5. t \in Seq(Objects) /\ Len(t) = size + 1 /\ WithInserted(contents, position + 1, o, t)
  <2>1. t \in Seq(Objects) /\ WithInserted(contents, position + 1, o, t)
    BY <1>1, <1>4, InsertAtElements
  <2>2. QED
    BY <1>1, <2>1 DEF WithInserted
<1>. HIDE DEF t
<1>6. ASSUME NEW i \in 1 .. size + 1 PROVE contents'[i] = t[i]
  <2>1. i - 1 \in 0 .. size
    BY <1>1
  <2>2. mem'[i - 1] = IF i - 1 < position THEN mem[i - 1]
                      ELSE IF i - 1 = position THEN o ELSE mem[i - 1 - 1]
    BY <2>1, <1>2 DEF GapFilled
  <2>3. CASE i < position + 1
    BY <1>1, <1>2, <1>3, <1>5, <2>2, <2>3 DEF WithInserted
  <2>4. CASE i = position + 1
    BY <1>1, <1>2, <1>3, <1>5, <2>2, <2>4 DEF WithInserted
  <2>5. CASE i > position + 1
    BY <1>1, <1>2, <1>3, <1>5, <2>2, <2>5 DEF WithInserted
  <2>6. QED
    BY <2>3, <2>4, <2>5
<1>7. contents' = t
  BY <1>3, <1>5, <1>6, SeqEqual
<1>8. QED
  BY <1>1, <1>2, <1>7 DEF t

(* A removal of one object from the array is one from the sequence.        *)
LEMMA RemoveRefines ==
  ASSUME DynArrayInv, NEW position \in Nat, position + 1 < Word, Remove(position, 1)
  PROVE  /\ position \in 0 .. Len(contents) - 1
         /\ contents' = Sequence!RemoveAt(contents, position + 1)
         /\ where' = [where EXCEPT ![contents[position + 1]] = Removed]
<1>0. TypeOK /\ Ownership
  BY DEF DynArrayInv
<1>1. /\ contents \in Seq(Objects) /\ Len(contents) = size /\ size \in Nat
      /\ \A i \in 1 .. size : contents[i] = mem[i - 1]
  BY Contents DEF ContentsOK
<1>2. position + 1 <= size
  BY DynArrayAssumption DEF Remove, dyn_shift_remove, InRange, Wrap
<1>3. /\ size' = size - 1 /\ where' = Moved(Gone(position, 1), Removed)
      /\ GapClosed(position, 1)
  BY <1>0, <1>2, RemovedSlots
<1>4. contents' \in Seq(Objects) /\ Len(contents') = size - 1
      /\ \A i \in 1 .. size - 1 : contents'[i] = mem'[i - 1]
  <2>1. DynArrayInv'
    BY RemoveKeeps
  <2>2. ContentsOK'
    BY <2>1, Contents, PTL
  <2>3. QED
    BY <1>3, <2>2 DEF ContentsOK
<1>. DEFINE t == Sequence!RemoveAt(contents, position + 1)
<1>5. /\ t \in Seq(Objects) /\ Len(t) = size - 1
      /\ \A i \in 1 .. size - 1 : t[i] =
           IF i < position + 1 THEN contents[i] ELSE contents[i + 1]
  <2>1. position + 1 \in 1 .. Len(contents)
    BY <1>1, <1>2
  <2>2. QED
    BY <1>1, <2>1, RemoveAtElements
<1>. HIDE DEF t
<1>6. ASSUME NEW i \in 1 .. size - 1 PROVE contents'[i] = t[i]
  <2>1. mem'[i - 1] = IF i - 1 < position THEN mem[i - 1] ELSE mem[i - 1 + 1]
    BY <1>1, <1>3 DEF GapClosed
  <2>2. CASE i < position + 1
    BY <1>1, <1>2, <1>4, <1>5, <2>1, <2>2
  <2>3. CASE i >= position + 1
    BY <1>1, <1>2, <1>4, <1>5, <2>1, <2>3
  <2>4. QED
    BY <2>2, <2>3
<1>7. contents' = t
  BY <1>4, <1>5, <1>6, SeqEqual
<1>8. Gone(position, 1) = {contents[position + 1]} /\ contents[position + 1] \in Objects
  <2>1. \A i \in position .. position + 1 - 1 : i = position
    OBVIOUS
  <2>2. contents[position + 1] = mem[position] /\ contents[position + 1] \in Objects
    BY <1>1, <1>2, ElementOfSeq
  <2>3. position \in position .. position + 1 - 1
    OBVIOUS
  <2>4. QED
    BY <2>1, <2>2, <2>3 DEF Gone
<1>9. where' = [where EXCEPT ![contents[position + 1]] = Removed]
  BY <1>0, <1>3, <1>8 DEF Moved, TypeOK
<1>10. QED
  BY <1>1, <1>2, <1>7, <1>9 DEF t

-----------------------------------------------------------------------------
(* Each operation is the operation of the sequence.                        *)
LEMMA Inserting ==
  ASSUME DynArrayInv, NEW i \in Nat, NEW o \in Objects, dyn_shift_insert("insert", i, o)
  PROVE  Sequence!InsertBefore(i, o) /\ i \in 0 .. Word - 1
<1>1. i \in 0 .. Len(contents) /\ contents' = Sequence!InsertAt(contents, i + 1, o)
  BY InsertRefines
<1>2. i \in 0 .. Word - 1
  BY <1>1, Contents, DynArrayAssumption DEF ContentsOK, DynArrayInv, TypeOK
<1>3. QED
  BY <1>1, <1>2 DEF Sequence!InsertBefore, dyn_shift_insert, Returns, contents

(* dyn_array_insert_sorted leaves a sorted array sorted.                   *)
LEMMA InsertingSorted ==
  ASSUME DynArrayInv, NEW o \in Objects, InsertSorted(o)
  PROVE  Sequence!InsertSorted(o)
<1>1. PICK p \in 0 .. size :
        /\ \A j \in 0 .. p - 1 : Key[mem[j]] < Key[o]
        /\ p < size => Key[mem[p]] >= Key[o]
        /\ dyn_shift_insert("insert_sorted", p, o)
  BY DEF InsertSorted
<1>2. size \in Nat /\ TypeOK /\ capacity < Word /\ Ownership
  BY DEF DynArrayInv, TypeOK
<1>3. p \in Nat
  BY <1>2
<1>4. p \in 0 .. Len(contents) /\ contents' = Sequence!InsertAt(contents, p + 1, o)
  BY <1>1, <1>3, InsertRefines
<1>5. size' = size + 1 /\ GapFilled(p, o)
  BY <1>1, <1>2, <1>3, InsertedSlots
<1>6. ASSUME Sequence!InSortedOrder(contents) PROVE Sequence!InSortedOrder(contents)'
  <2>1. /\ \A i, j \in 0 .. size - 1 : i < j => Key[mem[i]] <= Key[mem[j]]
        /\ \A i \in 0 .. size - 1 : Key[mem[i]] \in Nat
        /\ Key[o] \in Nat
    BY <1>2, <1>6, ContentsSorted, DynArrayAssumption DEF Slots, Ownership
  <2>2. ASSUME NEW j \in p .. size - 1 PROVE Key[mem[j]] >= Key[o]
    BY <1>1, <1>2, <2>1
  <2>3. ASSUME NEW i \in 0 .. size, NEW j \in 0 .. size, i < j
        PROVE  Key[mem'[i]] <= Key[mem'[j]]
    <3>1. /\ i < p => mem'[i] = mem[i]
          /\ i = p => mem'[i] = o
          /\ i > p => mem'[i] = mem[i - 1]
          /\ j < p => mem'[j] = mem[j]
          /\ j = p => mem'[j] = o
          /\ j > p => mem'[j] = mem[j - 1]
      BY <1>2, <1>5 DEF GapFilled
    <3>2. CASE i < p /\ j < p
      BY <1>2, <2>1, <2>3, <3>1, <3>2
    <3>3. CASE i < p /\ j = p
      BY <1>1, <1>2, <2>1, <2>3, <3>1, <3>3
    <3>4. CASE i < p /\ j > p
      <4>1. Key[mem[i]] <= Key[mem[j - 1]]
        <5>1. i < j - 1 /\ i \in 0 .. size - 1 /\ j - 1 \in 0 .. size - 1
          BY <1>2, <3>4
        <5>2. QED
          BY <2>1, <5>1
      <4>2. QED
        BY <3>1, <3>4, <4>1
    <3>5. CASE i = p /\ j > p
      <4>1. j - 1 \in p .. size - 1
        BY <1>2, <3>5
      <4>2. Key[mem[j - 1]] >= Key[o] /\ Key[mem[j - 1]] \in Nat
        BY <1>2, <2>1, <2>2, <4>1
      <4>3. QED
        BY <2>1, <3>1, <3>5, <4>2
    <3>6. CASE i > p /\ j > p
      <4>1. i - 1 \in 0 .. size - 1 /\ j - 1 \in 0 .. size - 1 /\ i - 1 < j - 1
        BY <1>2, <2>3, <3>6
      <4>2. QED
        BY <2>1, <3>1, <3>6, <4>1
    <3>7. QED
      BY <1>2, <2>3, <3>2, <3>3, <3>4, <3>5, <3>6
  <2>4. DynArrayInv'
    BY <1>1, <1>3, InsertKeeps
  <2>5. (Sequence!InSortedOrder(contents) <=>
           \A i, j \in Slots : i < j => Key[mem[i]] <= Key[mem[j]])'
    BY <2>4, ContentsSorted, PTL
  <2>6. Slots' = 0 .. size
    BY <1>2, <1>5 DEF Slots
  <2>7. QED
    BY <2>3, <2>5, <2>6
<1>7. QED
  BY <1>1, <1>4, <1>6 DEF Sequence!InsertSorted, dyn_shift_insert, Returns, contents

LEMMA Erasing ==
  ASSUME DynArrayInv, NEW i \in Nat, i + 1 < Word, dyn_shift_remove(i, 1, Erased)
  PROVE  Sequence!Erase(i) /\ i \in 0 .. Word - 1
<1>1. Remove(i, 1)
  BY DEF dyn_shift_remove, Remove
<1>2. /\ i \in 0 .. Len(contents) - 1
      /\ contents' = Sequence!RemoveAt(contents, i + 1)
      /\ where' = [where EXCEPT ![contents[i + 1]] = Removed]
  BY <1>1, RemoveRefines
<1>3. i \in 0 .. Word - 1
  BY DynArrayAssumption
<1>4. QED
  BY <1>2, <1>3
     DEF Sequence!Erase, Sequence!Removed, Removed, dyn_shift_remove, Erased, Returns, contents

LEMMA Clearing == ASSUME DynArrayInv, Clear PROVE Sequence!Clear
<1>0. TypeOK /\ Ownership /\ size \in Nat
  BY DEF DynArrayInv, TypeOK
<1>1. Remove(0, size)
  BY DEF Clear, dyn_shift_remove, Remove
<1>2. size' = size - size /\ where' = Moved(Gone(0, size), Removed)
  BY <1>0, <1>1, RemovedSlots
<1>3. contents' = <<>>
  BY <1>0, <1>2 DEF contents
<1>4. Gone(0, size) = Sequence!ToSet(contents)
  BY <1>0, ContentsSet DEF Gone, Slots
<1>5. where' = Sequence!Moved(Sequence!ToSet(contents), Sequence!Removed)
  BY <1>2, <1>4 DEF Moved, Sequence!Moved, Removed, Sequence!Removed
<1>6. QED
  BY <1>3, <1>5 DEF Sequence!Clear, Clear, dyn_shift_remove, contents

LEMMA Destroying == ASSUME DynArrayInv, Destroy PROVE Sequence!Destroy
<1>1. contents' = <<>>
  BY DEF Destroy, contents
<1>2. where' = Sequence!Moved(Sequence!ToSet(contents), Sequence!Removed)
  BY ContentsSet DEF Destroy, Moved, Sequence!Moved, Removed, Sequence!Removed
<1>3. QED
  BY <1>1, <1>2 DEF Sequence!Destroy, Destroy, contents

LEMMA Creating ==
  ASSUME DynArrayInv, NEW request \in Nat, NEW objs \in Seq(Objects),
         Len(objs) <= request, Create(request, objs)
  PROVE  Sequence!Create(objs)
<1>. DEFINE n == Len(objs)
<1>1. PICK new \in Doubled(MinCapacity, request), bytes \in TypeSizes :
        mem' = Memcpy([i \in 0 .. new - 1 |-> Garbage], 0, objs)
  BY DEF Create
<1>2. new \in Nat /\ new >= n /\ n \in Nat /\ size' = n
  BY DynArrayAssumption, DoubledRange DEF Create
<1>3. \A i \in 0 .. n - 1 : mem'[i] = objs[i + 1]
  BY <1>1, <1>2 DEF Memcpy
<1>4. contents' = objs
  <2>1. objs = [i \in 1 .. n |-> objs[i]]
    BY LenProperties
  <2>2. ASSUME NEW i \in 1 .. n PROVE mem'[i - 1] = objs[i]
    <3>1. i - 1 \in 0 .. n - 1 /\ (i - 1) + 1 = i
      BY <1>2
    <3>2. QED
      BY <1>3, <3>1
  <2>3. contents' = [i \in 1 .. n |-> mem'[i - 1]]
    BY <1>2 DEF contents
  <2>. HIDE DEF n
  <2>4. [i \in 1 .. n |-> mem'[i - 1]] = [i \in 1 .. n |-> objs[i]]
    BY <2>2
  <2>5. QED
    BY <2>1, <2>3, <2>4
<1>5. Items(objs) = Sequence!ToSet(objs)
  BY LenProperties DEF Items, Sequence!ToSet
<1>6. /\ where' = Sequence!Moved(Sequence!ToSet(objs), "array")
      /\ \A o \in Sequence!ToSet(objs) : where[o] = "client"
  BY <1>5 DEF Create, Moved, Sequence!Moved
<1>7. QED
  BY <1>4, <1>6 DEF Sequence!Create, Create, Returns, contents

LEMMA Sorting == ASSUME DynArrayInv, Sort PROVE Sequence!Sort
<1>1. size \in Nat /\ size > 0 /\ TypeOK /\ size' = size
  BY DEF DynArrayInv, TypeOK, Sort
<1>2. PICK f \in [Slots -> {mem[i] : i \in Slots}] :
        /\ \A i, j \in Slots : i < j => f[i] # f[j] /\ Key[f[i]] <= Key[f[j]]
        /\ mem' = [i \in DOMAIN mem |-> IF i \in Slots THEN f[i] ELSE mem[i]]
  BY DEF Sort
<1>3. \A i \in Slots : mem'[i] = f[i]
  BY <1>1, <1>2 DEF TypeOK, Slots
<1>4. Slots' = Slots /\ DynArrayInv'
  BY <1>1, SortKeeps DEF Slots
<1>5. (Sequence!ToSet(contents) = {mem[i] : i \in Slots})'
  BY <1>4, ContentsSet, PTL
<1>6. {mem'[i] : i \in Slots} = {mem[i] : i \in Slots}
  <2>1. \A i \in Slots : \E k \in Slots : f[i] = mem[k]
    OBVIOUS
  <2>2. \A i, j \in Slots : i # j => f[i] # f[j]
    <3>1. \A i, j \in Slots : i # j => i < j \/ j < i
      BY <1>1 DEF Slots
    <3>2. QED
      BY <1>2, <3>1
  <2>3. \A k \in Slots : \E i \in Slots : f[i] = mem[k]
    BY <1>1, <2>2, Arrangement
  <2>4. \A i \in Slots : \E k \in Slots : mem'[i] = mem[k]
    BY <1>3, <2>1
  <2>5. \A k \in Slots : \E i \in Slots : mem'[i] = mem[k]
    BY <1>3, <2>3
  <2>6. {mem'[i] : i \in Slots} \subseteq {mem[i] : i \in Slots}
    BY <2>4, Zenon
  <2>7. {mem[i] : i \in Slots} \subseteq {mem'[i] : i \in Slots}
    BY <2>5, Zenon
  <2>8. QED
    BY <2>6, <2>7, Zenon
<1>7. Sequence!ToSet(contents)' = Sequence!ToSet(contents)
  BY <1>4, <1>5, <1>6, ContentsSet
<1>8. Sequence!InSortedOrder(contents)'
  <2>1. (Sequence!InSortedOrder(contents) <=>
           \A i, j \in Slots : i < j => Key[mem[i]] <= Key[mem[j]])'
    BY <1>4, ContentsSorted, PTL
  <2>2. \A i, j \in Slots : i < j => Key[mem'[i]] <= Key[mem'[j]]
    BY <1>2, <1>3
  <2>3. QED
    BY <1>4, <2>1, <2>2
<1>9. Len(contents) = size /\ Len(contents)' = size /\ contents # <<>>
  <2>1. ContentsOK /\ ContentsOK'
    BY <1>4, Contents, PTL
  <2>2. QED
    BY <1>1, <2>1 DEF ContentsOK
<1>10. QED
  BY <1>7, <1>8, <1>9 DEF Sequence!Sort, Sort, Returns, contents

LEMMA Viewing ==
  ASSUME DynArrayInv, NEW i \in Nat, i < Word, View(i)
  PROVE  \E k \in 0 .. Word - 1 : Sequence!View(k)
<1>1. /\ Len(contents) = size /\ size \in Nat
      /\ \A k \in 1 .. size : contents[k] = mem[k - 1]
  BY Contents DEF ContentsOK
<1>2. (IF i < size THEN mem[i] ELSE "null")
        = (IF i \in 0 .. Len(contents) - 1 THEN contents[i + 1] ELSE "null")
  BY <1>1
<1>3. contents' = contents
  BY DEF View, array, contents
<1>4. Sequence!View(i)
  BY <1>2, <1>3 DEF Sequence!View, View, Returns, array, contents
<1>5. i \in 0 .. Word - 1
  BY DynArrayAssumption
<1>6. QED
  BY <1>4, <1>5

LEMMA Failing ==
  ASSUME DynArrayInv, NEW i \in Nat, i < Word
  PROVE  /\ InsertFails(i) \/ InsertFrees(i) => Sequence!InsertFails
         /\ EraseFails(i) => Sequence!EraseNone(i)
         /\ ExtractFails(i) => Sequence!ExtractNone(i)
<1>1. Len(contents) = size /\ size \in Nat /\ size < Word /\ Word \in Nat \ {0}
  BY Contents, DynArrayAssumption DEF ContentsOK, DynArrayInv, TypeOK
<1>2. UNCHANGED array => contents' = contents
  BY DEF array, contents
<1>3. ~InRange(i, 1) => i \notin 0 .. Len(contents) - 1
  <2>1. ASSUME i \in 0 .. size - 1 PROVE InRange(i, 1)
    <3>1. i + 1 < Word /\ i + 1 <= size /\ size # 0
      BY <1>1, <2>1
    <3>2. QED
      BY <1>1, <3>1 DEF InRange, Wrap
  <2>2. QED
    BY <1>1, <2>1
<1>4. InsertFails(i) \/ InsertFrees(i) => Sequence!InsertFails
  BY <1>2 DEF Sequence!InsertFails, InsertFails, InsertFrees, Returns, array, contents
<1>5. EraseFails(i) => Sequence!EraseNone(i)
  BY <1>2, <1>3 DEF Sequence!EraseNone, EraseFails, Returns, array, contents
<1>6. ExtractFails(i) => Sequence!ExtractNone(i)
  BY <1>2, <1>3 DEF Sequence!ExtractNone, ExtractFails, Returns, array, contents
<1>7. QED
  BY <1>4, <1>5, <1>6

LEMMA Looking ==
  ASSUME DynArrayInv, CreateFails \/ Size \/ ForEach \/ SortFails \/ Undefined
  PROVE  [Sequence!Next]_(Sequence!seqVars)
<1>1. Len(contents) = size /\ size \in Nat /\ (size = 0 => contents = <<>>)
  BY Contents, EmptySeq DEF ContentsOK
<1>2. UNCHANGED array => contents' = contents
  BY DEF array, contents
<1>3. CreateFails => Sequence!CreateFails
  BY <1>2 DEF Sequence!CreateFails, CreateFails, Returns, array, contents
<1>4. Size => Sequence!Size
  BY <1>1, <1>2 DEF Sequence!Size, Size, Returns, array, contents
<1>5. ForEach => Sequence!ForEach
  BY <1>2 DEF Sequence!ForEach, ForEach, Returns, array, contents
<1>6. SortFails => Sequence!SortNothing
  BY <1>1, <1>2 DEF Sequence!SortNothing, SortFails, Returns, array, contents
<1>7. Undefined => UNCHANGED Sequence!seqVars
  BY DEF Undefined, vars, Sequence!seqVars
<1>8. QED
  BY <1>3, <1>4, <1>5, <1>6, <1>7 DEF Sequence!Next

-----------------------------------------------------------------------------
LEMMA RefinementInit == Init => Sequence!Init
<1>. SUFFICES ASSUME Init PROVE Sequence!Init
  OBVIOUS
<1>1. contents = <<>>
  BY DEF Init, contents
<1>2. QED
  BY <1>1 DEF Init, Sequence!Init, contents

LEMMA RefinementStep ==
  ASSUME NoIndexWraps
  PROVE  DynArrayInv /\ [Next]_vars =>
           [Sequence!Next \/ \E i \in Indexes : Extract(i)]_(Sequence!seqVars)
<1>. SUFFICES ASSUME DynArrayInv, [Next]_vars, ~\E i \in Indexes : Extract(i)
              PROVE  [Sequence!Next]_(Sequence!seqVars)
  OBVIOUS
<1>0. /\ \A i \in Indexes : i \in Nat /\ i < Word /\ i + 1 < Word
      /\ size \in Nat /\ size < Word /\ Word \in Nat \ {0} /\ (live => 1 < Word)
  BY DynArrayAssumption DEF NoIndexWraps, DynArrayInv, TypeOK
<1>1. ASSUME NEW c \in Requests, Create(c, <<>>) PROVE Sequence!Next
  <2>1. c \in Nat /\ <<>> \in Seq(Objects) /\ Len(<<>>) <= c
    BY DynArrayAssumption
  <2>2. Sequence!Create(<<>>)
    BY <1>1, <2>1, Creating
  <2>3. QED
    BY <2>2 DEF Sequence!Next
<1>2. ASSUME NEW objs \in Imports, Create(Len(objs), objs) PROVE Sequence!Next
  <2>1. objs \in Seq(Objects) /\ Len(objs) \in Nat /\ Len(objs) <= Len(objs)
    BY DynArrayAssumption
  <2>2. Sequence!Create(objs)
    BY <1>2, <2>1, Creating
  <2>3. QED
    BY <2>2 DEF Sequence!Next
<1>3. ASSUME NEW o \in Objects, NEW i \in Nat, dyn_shift_insert("insert", i, o)
      PROVE  Sequence!Next
  BY <1>3, Inserting DEF Sequence!Next
<1>4. ASSUME NEW o \in Objects, PushFront(o) \/ PushBack(o) PROVE Sequence!Next
  BY <1>0, <1>3, <1>4 DEF PushFront, PushBack
<1>5. ASSUME NEW o \in Objects, InsertSorted(o) PROVE Sequence!Next
  BY <1>5, InsertingSorted DEF Sequence!Next
<1>6. ASSUME NEW i \in Indexes, NEW o \in Objects, Insert(i, o) PROVE Sequence!Next
  BY <1>0, <1>3, <1>6 DEF Insert
<1>7. ASSUME NEW i \in Nat, i + 1 < Word, dyn_shift_remove(i, 1, Erased)
      PROVE  Sequence!Next
  BY <1>7, Erasing DEF Sequence!Next
<1>8. CASE PopFront
  <2>1. live
    BY <1>8 DEF PopFront, dyn_shift_remove
  <2>2. QED
    BY <1>0, <1>7, <1>8, <2>1 DEF PopFront
<1>9. CASE PopBack
  <2>1. size # 0
    BY <1>9 DEF PopBack, dyn_shift_remove, InRange
  <2>2. Wrap(Word + size - 1) = size - 1
    BY <1>0, <2>1 DEF Wrap
  <2>3. size - 1 \in Nat /\ (size - 1) + 1 < Word
    BY <1>0, <2>1
  <2>4. dyn_shift_remove(size - 1, 1, Erased)
    BY <1>9, <2>2 DEF PopBack
  <2>5. QED
    BY <1>7, <2>3, <2>4
<1>10. ASSUME NEW i \in Indexes, Erase(i) PROVE Sequence!Next
  BY <1>0, <1>7, <1>10 DEF Erase
<1>11. CASE Clear \/ Destroy \/ Sort
  BY <1>11, Clearing, Destroying, Sorting DEF Sequence!Next
<1>12. ASSUME NEW i \in Nat, i < Word, View(i) PROVE Sequence!Next
  BY <1>12, Viewing DEF Sequence!Next
<1>13. CASE Front
  BY <1>0, <1>12, <1>13 DEF Front
<1>14. CASE Back
  <2>1. Wrap(Word + size - 1) \in Nat /\ Wrap(Word + size - 1) < Word
    BY <1>0 DEF Wrap
  <2>2. QED
    BY <1>12, <1>14, <2>1 DEF Back
<1>15. ASSUME NEW i \in Indexes,
              InsertFails(i) \/ InsertFrees(i) \/ EraseFails(i) \/ ExtractFails(i)
       PROVE  Sequence!Next
  <2>1. i \in Nat /\ i < Word /\ i \in 0 .. Word - 1
    BY <1>0
  <2>2. \/ Sequence!InsertFails \/ Sequence!EraseNone(i) \/ Sequence!ExtractNone(i)
    BY <1>15, <2>1, Failing
  <2>3. QED
    BY <2>1, <2>2 DEF Sequence!Next
<1>16. CASE CreateFails \/ Size \/ ForEach \/ SortFails \/ Undefined
  BY <1>16, Looking
<1>17. CASE UNCHANGED vars
  BY <1>17 DEF vars, Sequence!seqVars
<1>18. ASSUME NEW i \in Indexes, View(i) PROVE Sequence!Next
  BY <1>0, <1>12, <1>18
<1>19. QED
  BY <1>1, <1>2, <1>4, <1>5, <1>6, <1>8, <1>9, <1>10, <1>11, <1>13, <1>14, <1>15,
     <1>16, <1>17, <1>18 DEF Next

(* For every client that does not pass the last size_t as an index, every  *)
(* operation but the extraction is the operation dyn_array.h promises.     *)
THEOREM ArrayImplementsSequence ==
  ASSUME NoIndexWraps
  PROVE  Spec => ImplementsButExtract
<1>1. Init => Sequence!Init
  BY RefinementInit
<1>2. DynArrayInv /\ [Next]_vars =>
        [Sequence!Next \/ \E i \in Indexes : Extract(i)]_(Sequence!seqVars)
  BY RefinementStep
<1>3. QED
  BY <1>1, <1>2, DynArrayInvariant, PTL DEF Spec, ImplementsButExtract
=============================================================================
