--------------------------- MODULE HashMapProofs ---------------------------
(***************************************************************************)
(* The safety properties of HashMap for any capacities: is_prime decides   *)
(* what a prime is, find_next_prime passes over no prime, and the blocks   *)
(* on the heap are accounted for at every point of a call.                 *)
(***************************************************************************)
EXTENDS HashMap, NaturalsInduction, WellFoundedInduction, TLAPS

-----------------------------------------------------------------------------
(* A set of naturals that is not empty has a least element, which Min is.  *)
LEMMA MinIsLeast ==
  ASSUME NEW S \in SUBSET Nat, S # {}
  PROVE  Min(S) \in S /\ \A y \in S : Min(S) <= y
<1>1. PICK x \in S : \A y \in S : ~(<<y, x>> \in OpToRel(<, Nat))
  BY NatLessThanWellFounded, WFMin
<1>2. ASSUME NEW y \in S PROVE x <= y
  <2>1. y \in Nat /\ x \in Nat
    OBVIOUS
  <2>2. y < x => <<y, x>> \in OpToRel(<, Nat)
    BY <2>1 DEF OpToRel
  <2>3. ~(y < x)
    BY <1>1, <2>2
  <2>4. QED
    BY <2>1, <2>3
<1>3. QED
  BY <1>2 DEF Min

(* Of two factors of n, one is not above the root. *)
LEMMA Division ==
  ASSUME NEW n \in Nat, NEW d \in Nat \ {0}, n % d = 0
  PROVE  n \div d \in Nat /\ n = d * (n \div d)
  BY SMT

LEMMA SmallFactor ==
  ASSUME NEW n \in Nat, NEW d \in 2 .. n - 1, n % d = 0, d * d > n
  PROVE  \E q \in 2 .. n : q * q <= n /\ n % q = 0
<1>. DEFINE q == n \div d
<1>1. q \in Nat /\ n = d * q
  BY Division
<1>. HIDE DEF q
<1>2. q > 1 /\ q < n
  BY <1>1
<1>3. q < d /\ q * q <= n
  BY <1>1
<1>4. (d * q) % q = 0
  BY <1>1, <1>2
<1>5. QED
  BY <1>1, <1>2, <1>3, <1>4

(* is_prime, which divides only by numbers up to the root, decides whether *)
(* a number is a prime.                                                    *)
THEOREM IsPrimeDecides ==
  ASSUME NEW n \in Nat
  PROVE  IsPrime(n) <=> Prime(n)
<1>1. ASSUME IsPrime(n), NEW d \in 2 .. n - 1, n % d = 0 PROVE FALSE
  <2>1. CASE d * d <= n
    BY <1>1, <2>1 DEF IsPrime
  <2>2. CASE d * d > n
    BY <1>1, <2>2, SmallFactor DEF IsPrime
  <2>3. QED
    BY <2>1, <2>2
<1>2. ASSUME Prime(n), NEW i \in 2 .. n, i * i <= n, n % i = 0 PROVE FALSE
  <2>1. i < n
    BY <1>2
  <2>2. QED
    BY <1>2, <2>1 DEF Prime
<1>3. n > 1 <=> n >= 2
  OBVIOUS
<1>4. IsPrime(n) => Prime(n)
  BY <1>1, <1>3 DEF IsPrime, Prime
<1>5. Prime(n) => IsPrime(n)
  BY <1>2, <1>3 DEF IsPrime, Prime
<1>6. QED
  BY <1>4, <1>5

(* find_next_prime goes to the next prime, or to MaxInt: it passes over no *)
(* prime, and it advances.                                                 *)
LEMMA NextPrime ==
  ASSUME NEW start \in Nat, start < MaxInt
  PROVE  /\ FindNextPrime(start) \in Nat
         /\ FindNextPrime(start) > start
         /\ FindNextPrime(start) < MaxInt => Prime(FindNextPrime(start))
         /\ \A n \in start + 1 .. FindNextPrime(start) - 1 : ~Prime(n)
<1>. DEFINE primes == {i \in start + 1 .. MaxInt - 1 : IsPrime(i)}
<1>0. MaxInt \in Nat
  BY HashMapAssumption
<1>1. CASE primes = {}
  <2>1. FindNextPrime(start) = MaxInt
    BY <1>1 DEF FindNextPrime
  <2>2. ASSUME NEW n \in start + 1 .. MaxInt - 1 PROVE ~Prime(n)
    BY <1>0, <1>1, IsPrimeDecides
  <2>3. QED
    BY <1>0, <2>1, <2>2
<1>2. CASE primes # {}
  <2>1. FindNextPrime(start) = Min(primes)
    BY <1>2 DEF FindNextPrime
  <2>2. primes \in SUBSET Nat
    BY <1>0
  <2>3. Min(primes) \in primes /\ \A y \in primes : Min(primes) <= y
    BY <1>2, <2>2, MinIsLeast
  <2>. DEFINE p == FindNextPrime(start)
  <2>4. p \in Nat /\ p > start /\ p < MaxInt /\ IsPrime(p)
    BY <1>0, <2>1, <2>3
  <2>5. ASSUME NEW n \in start + 1 .. p - 1 PROVE ~Prime(n)
    <3>1. n \in start + 1 .. MaxInt - 1 /\ n \in Nat /\ n < p
      BY <1>0, <2>4
    <3>2. n \notin primes
      BY <2>1, <2>3, <2>4, <3>1
    <3>3. QED
      BY <3>1, <3>2, IsPrimeDecides
  <2>6. QED
    BY <2>4, <2>5, IsPrimeDecides
<1>3. QED
  BY <1>1, <1>2

-----------------------------------------------------------------------------
(* The inductive invariant holds at first, and every action keeps it.      *)
LEMMA HashMapInit == Init => HashMapInv
<1>. SUFFICES ASSUME Init PROVE HashMapInv
  OBVIOUS
<1>1. FlagsOK
  BY DEF Init, FlagsOK
<1>2. TypeOK
  BY <1>1 DEF Init, TypeOK, Labels
<1>3. HeapInv /\ SearchInv
  BY DEF Init, HeapInv, SearchInv, Between
<1>4. QED
  BY <1>2, <1>3 DEF HashMapInv

LEMMA FlagsStay == FlagsOK /\ Next => FlagsOK'
  BY DEF FlagsOK, Next, Calls, Steps, Crashed, vars, blocks,
         Refused, Create, NoRecord, NextCapacity, CapacityFound, TooLarge,
         MakeTable, RecordOverrun, StartFill, NoTable, FillBucket, NoBucket,
         HandOver, StartUnfill, Unfill, FreeTable, FreeRecord, FreeAgain,
         Destroy, DestroyBucket, DropTable, DropRecord

LEMMA CallsKeep == HashMapInv /\ Calls => HashMapInv'
<1>. SUFFICES ASSUME HashMapInv, Calls PROVE HashMapInv'
  OBVIOUS
<1>. USE HashMapAssumption DEF HashMapInv, Goto, blocks
<1>0. FlagsOK'
  BY FlagsStay DEF Next, TypeOK
<1>1. ASSUME NEW capacity \in Requests, NEW typed \in BOOLEAN, Refused(capacity, typed)
      PROVE  HashMapInv'
  BY <1>1 DEF Refused, vars, TypeOK, FlagsOK, HeapInv, SearchInv, Between
<1>2. ASSUME NEW capacity \in Requests, Create(capacity)
      PROVE  HashMapInv'
  <2>1. TypeOK'
    BY <1>0, <1>2 DEF Create, TypeOK, Labels, HeapInv, Between
  <2>2. HeapInv'
    BY <1>2 DEF Create, TypeOK, FlagsOK, HeapInv, Between
  <2>3. SearchInv'
    BY <1>2 DEF Create, TypeOK, FlagsOK, HeapInv, SearchInv, Between
  <2>4. QED
    BY <2>1, <2>2, <2>3
<1>3. ASSUME NEW capacity \in Requests, NoRecord(capacity)
      PROVE  HashMapInv'
  BY <1>3 DEF NoRecord, TypeOK, FlagsOK, HeapInv, SearchInv, Between
<1>4. CASE Destroy
  <2>1. TypeOK'
    BY <1>0, <1>4 DEF Destroy, TypeOK, Labels
  <2>2. HeapInv'
    BY <1>4 DEF Destroy, TypeOK, FlagsOK, HeapInv, Between
  <2>3. SearchInv'
    BY <1>4 DEF Destroy, TypeOK, FlagsOK, HeapInv, SearchInv, Between
  <2>4. QED
    BY <2>1, <2>2, <2>3
<1>5. QED
  BY <1>1, <1>2, <1>3, <1>4 DEF Calls

LEMMA StepsKeep == HashMapInv /\ Steps => HashMapInv'
<1>. SUFFICES ASSUME HashMapInv, Steps PROVE HashMapInv'
  OBVIOUS
<1>. USE HashMapAssumption DEF HashMapInv, Goto, blocks
<1>0. FlagsOK'
  BY FlagsStay DEF Next, TypeOK
<1>1. CASE NextCapacity
  <2>. DEFINE found == FindNextPrime(actual)
  <2>1. /\ pc = "search" /\ ~held /\ actual < request /\ request <= MaxCapacity
        /\ actual \in Nat /\ request \in Nat /\ actual >= FirstCapacity
        /\ \A n \in FirstCapacity .. actual - 1 : Prime(n) => n < request
        /\ actual <= MaxCapacity => Prime(actual)
    BY <1>1 DEF NextCapacity, TypeOK, FlagsOK, HeapInv, SearchInv, Between
  <2>2. actual < MaxInt
    BY <2>1
  <2>3. /\ found \in Nat /\ found > actual
        /\ found < MaxInt => Prime(found)
        /\ \A n \in actual + 1 .. found - 1 : ~Prime(n)
    BY <2>1, <2>2, NextPrime
  <2>4. actual' = found
    BY <1>1 DEF NextCapacity
  <2>. HIDE DEF found
  <2>5. TypeOK'
    BY <1>0, <1>1, <2>1, <2>3, <2>4 DEF NextCapacity, TypeOK, Labels
  <2>6. HeapInv'
    BY <1>1, <2>1 DEF NextCapacity, TypeOK, FlagsOK, HeapInv, Between
  <2>7. ASSUME NEW n \in FirstCapacity .. found - 1, Prime(n) PROVE n < request
    <3>1. n < actual \/ n = actual \/ n \in actual + 1 .. found - 1
      BY <2>1, <2>3
    <3>2. QED
      BY <2>1, <2>3, <2>7, <3>1
  <2>8. SearchInv'
    BY <1>1, <2>1, <2>3, <2>4, <2>7 DEF NextCapacity, SearchInv, Between
  <2>9. QED
    BY <2>5, <2>6, <2>8
<1>2. CASE CapacityFound
  <2>1. TypeOK'
    BY <1>0, <1>2 DEF CapacityFound, TypeOK, Labels
  <2>2. HeapInv'
    BY <1>2 DEF CapacityFound, TypeOK, FlagsOK, HeapInv, Between
  <2>3. SearchInv'
    BY <1>2 DEF CapacityFound, TypeOK, FlagsOK, HeapInv, SearchInv, Between
  <2>4. QED
    BY <2>1, <2>2, <2>3
<1>3. CASE TooLarge
  <2>1. TypeOK'
    BY <1>0, <1>3 DEF TooLarge, TypeOK, Labels
  <2>2. HeapInv'
    BY <1>3 DEF TooLarge, TypeOK, FlagsOK, HeapInv, Between
  <2>3. SearchInv'
    BY <1>3 DEF TooLarge, TypeOK, FlagsOK, HeapInv, SearchInv, Between
  <2>4. QED
    BY <2>1, <2>2, <2>3
<1>4. CASE MakeTable
  <2>1. TypeOK'
    BY <1>0, <1>4 DEF MakeTable, TypeOK, Labels
  <2>2. HeapInv'
    BY <1>4 DEF MakeTable, TypeOK, FlagsOK, HeapInv, Between
  <2>3. SearchInv'
    BY <1>4 DEF MakeTable, TypeOK, FlagsOK, HeapInv, SearchInv, Between
  <2>4. QED
    BY <2>1, <2>2, <2>3
<1>5. CASE RecordOverrun
  <2>1. TypeOK'
    BY <1>0, <1>5 DEF RecordOverrun, TypeOK, Labels
  <2>2. HeapInv'
    BY <1>5 DEF RecordOverrun, TypeOK, FlagsOK, HeapInv, Between
  <2>3. SearchInv'
    BY <1>5 DEF RecordOverrun, TypeOK, FlagsOK, HeapInv, SearchInv, Between
  <2>4. QED
    BY <2>1, <2>2, <2>3
<1>6. CASE StartFill
  <2>1. TypeOK'
    BY <1>0, <1>6 DEF StartFill, TypeOK, Labels
  <2>2. HeapInv'
    BY <1>6 DEF StartFill, TypeOK, FlagsOK, HeapInv, Between
  <2>3. SearchInv'
    BY <1>6 DEF StartFill, TypeOK, FlagsOK, HeapInv, SearchInv, Between
  <2>4. QED
    BY <2>1, <2>2, <2>3
<1>7. CASE NoTable
  <2>1. TypeOK'
    BY <1>0, <1>7 DEF NoTable, TypeOK, Labels
  <2>2. HeapInv'
    BY <1>7 DEF NoTable, TypeOK, FlagsOK, HeapInv, Between
  <2>3. SearchInv'
    BY <1>7 DEF NoTable, TypeOK, FlagsOK, HeapInv, SearchInv, Between
  <2>4. QED
    BY <2>1, <2>2, <2>3
<1>8. CASE FillBucket
  <2>1. TypeOK'
    BY <1>0, <1>8 DEF FillBucket, TypeOK, Labels
  <2>2. HeapInv'
    BY <1>8 DEF FillBucket, TypeOK, FlagsOK, HeapInv, Between
  <2>3. SearchInv'
    BY <1>8 DEF FillBucket, TypeOK, FlagsOK, HeapInv, SearchInv, Between
  <2>4. QED
    BY <2>1, <2>2, <2>3
<1>9. CASE NoBucket
  <2>1. TypeOK'
    BY <1>0, <1>9 DEF NoBucket, TypeOK, Labels
  <2>2. HeapInv'
    BY <1>9 DEF NoBucket, TypeOK, FlagsOK, HeapInv, Between
  <2>3. SearchInv'
    BY <1>9 DEF NoBucket, TypeOK, FlagsOK, HeapInv, SearchInv, Between
  <2>4. QED
    BY <2>1, <2>2, <2>3
<1>10. CASE HandOver
  <2>1. TypeOK'
    BY <1>0, <1>10 DEF HandOver, TypeOK, Labels
  <2>2. HeapInv'
    BY <1>10 DEF HandOver, TypeOK, FlagsOK, HeapInv, Between
  <2>3. SearchInv'
    BY <1>10 DEF HandOver, TypeOK, FlagsOK, HeapInv, SearchInv, Between
  <2>4. QED
    BY <2>1, <2>2, <2>3
<1>11. CASE StartUnfill
  <2>1. TypeOK'
    BY <1>0, <1>11 DEF StartUnfill, TypeOK, Labels
  <2>2. HeapInv'
    BY <1>11 DEF StartUnfill, TypeOK, FlagsOK, HeapInv, Between
  <2>3. SearchInv'
    BY <1>11 DEF StartUnfill, TypeOK, FlagsOK, HeapInv, SearchInv, Between
  <2>4. QED
    BY <2>1, <2>2, <2>3
<1>12. CASE Unfill
  <2>1. TypeOK'
    BY <1>0, <1>12 DEF Unfill, TypeOK, Labels
  <2>2. HeapInv'
    BY <1>12 DEF Unfill, TypeOK, FlagsOK, HeapInv, Between
  <2>3. SearchInv'
    BY <1>12 DEF Unfill, TypeOK, FlagsOK, HeapInv, SearchInv, Between
  <2>4. QED
    BY <2>1, <2>2, <2>3
<1>13. CASE FreeTable
  <2>1. TypeOK'
    BY <1>0, <1>13 DEF FreeTable, TypeOK, Labels
  <2>2. HeapInv'
    BY <1>13 DEF FreeTable, TypeOK, FlagsOK, HeapInv, Between
  <2>3. SearchInv'
    BY <1>13 DEF FreeTable, TypeOK, FlagsOK, HeapInv, SearchInv, Between
  <2>4. QED
    BY <2>1, <2>2, <2>3
<1>14. CASE FreeRecord
  <2>1. TypeOK'
    BY <1>0, <1>14 DEF FreeRecord, TypeOK, Labels
  <2>2. HeapInv'
    BY <1>14 DEF FreeRecord, TypeOK, FlagsOK, HeapInv, Between
  <2>3. SearchInv'
    BY <1>14 DEF FreeRecord, TypeOK, FlagsOK, HeapInv, SearchInv, Between
  <2>4. QED
    BY <2>1, <2>2, <2>3
<1>15. CASE FreeAgain
  <2>1. TypeOK'
    BY <1>0, <1>15 DEF FreeAgain, TypeOK, Labels
  <2>2. HeapInv'
    BY <1>15 DEF FreeAgain, TypeOK, FlagsOK, HeapInv, Between
  <2>3. SearchInv'
    BY <1>15 DEF FreeAgain, TypeOK, FlagsOK, HeapInv, SearchInv, Between
  <2>4. QED
    BY <2>1, <2>2, <2>3
<1>16. CASE DestroyBucket
  <2>1. TypeOK'
    BY <1>0, <1>16 DEF DestroyBucket, TypeOK, Labels
  <2>2. HeapInv'
    BY <1>16 DEF DestroyBucket, TypeOK, FlagsOK, HeapInv, Between
  <2>3. SearchInv'
    BY <1>16 DEF DestroyBucket, TypeOK, FlagsOK, HeapInv, SearchInv, Between
  <2>4. QED
    BY <2>1, <2>2, <2>3
<1>17. CASE DropTable
  <2>1. TypeOK'
    BY <1>0, <1>17 DEF DropTable, TypeOK, Labels
  <2>2. HeapInv'
    BY <1>17 DEF DropTable, TypeOK, FlagsOK, HeapInv, Between
  <2>3. SearchInv'
    BY <1>17 DEF DropTable, TypeOK, FlagsOK, HeapInv, SearchInv, Between
  <2>4. QED
    BY <2>1, <2>2, <2>3
<1>18. CASE DropRecord
  <2>1. TypeOK'
    BY <1>0, <1>18 DEF DropRecord, TypeOK, Labels
  <2>2. HeapInv'
    BY <1>18 DEF DropRecord, TypeOK, FlagsOK, HeapInv, Between
  <2>3. SearchInv'
    BY <1>18 DEF DropRecord, TypeOK, FlagsOK, HeapInv, SearchInv, Between
  <2>4. QED
    BY <2>1, <2>2, <2>3
<1>19. QED
  BY <1>1, <1>2, <1>3, <1>4, <1>5, <1>6, <1>7, <1>8, <1>9, <1>10, <1>11, <1>12, <1>13, <1>14, <1>15, <1>16, <1>17, <1>18 DEF Steps

-----------------------------------------------------------------------------
(* The inductive invariant is an invariant.                                *)
THEOREM HashMapInvariant == Spec => []HashMapInv
<1>1. HashMapInv /\ UNCHANGED vars => HashMapInv'
  BY DEF HashMapInv, TypeOK, FlagsOK, HeapInv, SearchInv, Between, vars
<1>2. HashMapInv /\ [Next]_vars => HashMapInv'
  BY CallsKeep, StepsKeep, <1>1 DEF Next, Crashed
<1>3. QED
  BY HashMapInit, <1>2, PTL DEF Spec

(* The variables keep their types.                                         *)
THEOREM TypeCorrect == Spec => []TypeOK
<1>1. HashMapInv => TypeOK
  BY DEF HashMapInv
<1>2. QED
  BY HashMapInvariant, <1>1, PTL

(* Between two calls the heap holds a whole map or nothing at all: no call *)
(* of create or destroy leaks a block, whichever allocation fails.         *)
THEOREM NothingLeaks == Spec => []AllOrNothing
<1>1. HashMapInv => AllOrNothing
  BY DEF HashMapInv, TypeOK, FlagsOK, HeapInv, Between, AllOrNothing
<1>2. QED
  BY HashMapInvariant, <1>1, PTL

(* The capacity of a map is the least prime that is large enough, for any  *)
(* maximum and any request.                                                *)
THEOREM CapacityIsLeastPrime == Spec => []CapacityIsPrime
<1>1. HashMapInv => CapacityIsPrime
  BY HashMapAssumption DEF HashMapInv, HeapInv, SearchInv, Between, CapacityIsPrime
<1>2. QED
  BY HashMapInvariant, <1>1, PTL

(* Where create refuses a request within the maximum though no allocation  *)
(* failed, there is no prime left for it.                                  *)
THEOREM RefusalJustified == Spec => []RefusesOnlyBeyondLastPrime
<1>1. HashMapInv => RefusesOnlyBeyondLastPrime
  <2>. SUFFICES ASSUME HashMapInv, pc = "check", actual > MaxCapacity,
                       NEW n \in request .. MaxCapacity, n >= FirstCapacity, Prime(n)
                PROVE  FALSE
    BY DEF RefusesOnlyBeyondLastPrime
  <2>1. actual \in Nat /\ request \in Nat
    BY DEF HashMapInv, TypeOK
  <2>2. n \in FirstCapacity .. actual - 1
    BY <2>1, HashMapAssumption
  <2>3. n < request
    BY <2>2 DEF HashMapInv, SearchInv, Between
  <2>4. QED
    BY <2>1, <2>3
<1>2. QED
  BY HashMapInvariant, <1>1, PTL

(* The record is freed a second time only after a bucket failed.           *)
THEOREM DoubleFreeOnlyForBucket == Spec => []DoubleFreeNeedsFailedBucket
<1>1. HashMapInv => DoubleFreeNeedsFailedBucket
  BY DEF HashMapInv, HeapInv, DoubleFreeNeedsFailedBucket
<1>2. QED
  BY HashMapInvariant, <1>1, PTL
=============================================================================
