-------------------------- MODULE ThreadTreeWaits --------------------------
(***************************************************************************)
(* Every group waits for all its branches, in the statements without keep  *)
(* and alw that MSVL compiles: who has not returned is in the tree, nobody *)
(* is deleted that has not, and nobody goes on before.                     *)
(***************************************************************************)
EXTENDS ThreadTreeShape

-----------------------------------------------------------------------------
(* What is left of a vector after an erasure are the other elements.       *)
LEMMA WithoutIsRest ==
  ASSUME NEW S, NEW s \in Seq(S), NEW gone
  PROVE  ToSet(Without(s, gone)) = ToSet(s) \ gone
<1>. DEFINE L == CHOOSE L : L = WithoutBody(s, gone, L)
<1>1. L = WithoutBody(s, gone, L)
  BY WithoutExists
<1>2. Without(s, gone) = L[Len(s)]
  BY Zenon DEF Without, WithoutBody
<1>. HIDE DEF L
<1>3. Len(s) \in Nat /\ DOMAIN s = 1 .. Len(s)
  OBVIOUS
<1>. DEFINE Rest(i) == L[i] \in Seq(S) /\ ToSet(L[i]) = {s[j] : j \in 1 .. i} \ gone
            Bad == {k \in 0 .. Len(s) : ~Rest(k)}
<1>4. Rest(0)
  <2>1. L[0] = <<>>
    BY <1>1, <1>3 DEF WithoutBody
  <2>2. QED
    BY <2>1 DEF ToSet
<1>5. ASSUME NEW k \in 1 .. Len(s), Rest(k - 1) PROVE Rest(k)
  <2>. DEFINE t == L[k - 1]
  <2>0. k \in 0 .. Len(s) /\ k - 1 \in 0 .. Len(s) /\ k # 0 /\ s[k] \in S
    BY <1>3
  <2>1. L[k] = IF s[k] \in gone THEN t ELSE Append(t, s[k])
    BY <1>1, <2>0 DEF WithoutBody
  <2>2. {s[j] : j \in 1 .. k} = {s[j] : j \in 1 .. k - 1} \cup {s[k]}
    <3>1. \A j : j \in 1 .. k <=> j \in 1 .. k - 1 \/ j = k
      BY <2>0
    <3>2. QED
      BY <3>1
  <2>3. t \in Seq(S)
    BY <1>5
  <2>4. ToSet(Append(t, s[k])) = ToSet(t) \cup {s[k]}
    <3>. HIDE DEF t
    <3>1. /\ Len(t) \in Nat /\ DOMAIN t = 1 .. Len(t) /\ DOMAIN Append(t, s[k]) = 1 .. Len(t) + 1
          /\ \A a \in 1 .. Len(t) : Append(t, s[k])[a] = t[a]
          /\ Append(t, s[k])[Len(t) + 1] = s[k]
      BY <2>0, <2>3
    <3>2. \A a : a \in 1 .. Len(t) + 1 <=> a \in 1 .. Len(t) \/ a = Len(t) + 1
      BY <3>1
    <3>3. QED
      BY <3>1, <3>2 DEF ToSet
  <2>5. Append(t, s[k]) \in Seq(S)
    BY <2>0, <2>3
  <2>6. QED
    BY <1>5, <2>1, <2>2, <2>4, <2>5
<1>. HIDE DEF Rest
<1>6. Bad = {}
  <2>1. SUFFICES ASSUME Bad # {} PROVE FALSE
    OBVIOUS
  <2>2. Bad \in SUBSET Nat
    BY <1>3
  <2>3. PICK k \in Bad : \A m \in Nat : m < k => m \notin Bad
    BY <2>1, <2>2, Least
  <2>4. k \in 0 .. Len(s) /\ ~Rest(k)
    OBVIOUS
  <2>5. k # 0
    BY <1>4, <2>4
  <2>6. k \in 1 .. Len(s) /\ k - 1 \in Nat /\ k - 1 < k /\ k - 1 \in 0 .. Len(s)
    BY <1>3, <2>4, <2>5
  <2>7. Rest(k - 1)
    BY <2>3, <2>6
  <2>8. QED
    BY <1>5, <2>4, <2>6, <2>7
<1>7. Rest(Len(s))
  BY <1>3, <1>6
<1>8. ToSet(L[Len(s)]) = {s[j] : j \in 1 .. Len(s)} \ gone
  BY <1>7 DEF Rest
<1>9. QED
  BY <1>2, <1>3, <1>8 DEF ToSet

(* Counting the places of a sequence.                                      *)
LEMMA Counting ==
  ASSUME NEW S, NEW s \in Seq(S), NEW A \in SUBSET DOMAIN s, NEW B \in SUBSET DOMAIN s
  PROVE  /\ Cardinality(A) \in Nat
         /\ Cardinality(A) > 0 <=> A # {}
         /\ Cardinality(A) = Len(s) <=> A = DOMAIN s
         /\ A \cap B = {} => (Cardinality(A) + Cardinality(B) = Len(s) <=> A \cup B = DOMAIN s)
<1>1. DOMAIN s = 1 .. Len(s) /\ Len(s) \in Nat
  OBVIOUS
<1>2. IsFiniteSet(DOMAIN s) /\ Cardinality(DOMAIN s) = Len(s)
  <2>1. IsFiniteSet(1 .. Len(s)) /\ Cardinality(1 .. Len(s)) = IF 1 > Len(s) THEN 0 ELSE Len(s) - 1 + 1
    BY <1>1, FS_Interval
  <2>2. (IF 1 > Len(s) THEN 0 ELSE Len(s) - 1 + 1) = Len(s)
    BY <1>1
  <2>3. QED
    BY <1>1, <2>1, <2>2
<1>3. \A C \in SUBSET DOMAIN s : IsFiniteSet(C) /\ (Cardinality(C) = Len(s) => C = DOMAIN s)
  BY <1>2, FS_Subset
<1>4. Cardinality(A) \in Nat /\ Cardinality(B) \in Nat /\ Cardinality(A \cup B) \in Nat
  BY <1>3, FS_CardinalityType
<1>5. Cardinality(A) = 0 <=> A = {}
  BY <1>3, FS_EmptySet
<1>6. ASSUME A \cap B = {} PROVE Cardinality(A \cup B) = Cardinality(A) + Cardinality(B)
  <2>1. Cardinality(A \cup B) = Cardinality(A) + Cardinality(B) - Cardinality(A \cap B)
    BY <1>3, FS_Union
  <2>2. Cardinality(A \cap B) = 0
    BY <1>6, FS_EmptySet
  <2>3. QED
    BY <1>4, <2>1, <2>2
<1>7. QED
  BY <1>2, <1>3, <1>4, <1>5, <1>6

(* What is reached from an object that is reached.                         *)
LEMMA ReachGoesOn ==
  ASSUME NEW P, NEW kids, NEW depth, NEW top, Descends(P, kids, depth, top), NEW n \in P
  PROVE  \A m \in Reach(kids)[n] : \A c \in kids[m] : c \in Reach(kids)[n]
<1>. DEFINE R == Reach(kids)
            Good(k) == \A m \in R[k] : \A c \in kids[m] : c \in R[k]
            Bad == {i \in Nat : \E k \in P : i = top - depth[k] /\ ~Good(k)}
<1>0. /\ top \in Nat
      /\ \A m \in P : depth[m] \in Nat /\ depth[m] <= top /\ kids[m] \subseteq P
      /\ \A m \in P : \A c \in kids[m] : depth[m] < depth[c]
  BY DEF Descends
<1>1. \A m \in P : R[m] = {m} \cup UNION {R[c] : c \in kids[m]}
  BY ReachEquation
<1>2. \A m \in P : m \in R[m]
  BY ReachIsBelow
<1>. HIDE DEF R
<1>3. ASSUME NEW k \in P, \A c \in kids[k] : Good(c) PROVE Good(k)
  <2>1. SUFFICES ASSUME NEW m \in R[k], NEW c \in kids[m] PROVE c \in R[k]
    OBVIOUS
  <2>2. CASE m = k
    <3>1. c \in P /\ c \in R[c]
      BY <1>0, <1>2, <2>1, <2>2
    <3>2. QED
      BY <1>1, <2>1, <2>2, <3>1
  <2>3. CASE m # k
    <3>1. PICK d \in kids[k] : m \in R[d]
      BY <1>1, <2>1, <2>3
    <3>2. c \in R[d]
      BY <1>3, <2>1, <3>1
    <3>3. QED
      BY <1>1, <3>1, <3>2
  <2>4. QED
    BY <2>2, <2>3
<1>. HIDE DEF Good
<1>4. Bad = {}
  <2>1. SUFFICES ASSUME Bad # {} PROVE FALSE
    OBVIOUS
  <2>2. PICK i \in Bad : \A j \in Nat : j < i => j \notin Bad
    BY <2>1, Least
  <2>3. PICK k \in P : i = top - depth[k] /\ ~Good(k)
    BY <2>2
  <2>4. ASSUME NEW c \in kids[k] PROVE Good(c)
    <3>1. c \in P /\ top - depth[c] \in Nat /\ top - depth[c] < i
      BY <1>0, <2>3
    <3>2. top - depth[c] \notin Bad
      BY <2>2, <3>1
    <3>3. QED
      BY <3>1, <3>2
  <2>5. QED
    BY <1>3, <2>3, <2>4
<1>5. top - depth[n] \in Nat
  BY <1>0
<1>6. Good(n)
  BY <1>4, <1>5
<1>7. QED
  BY <1>6 DEF Good, R

-----------------------------------------------------------------------------
(***************************************************************************)
(* The tree of an orderly statement: h is the heap, M the map from threads *)
(* to their present objects, R the threads that have returned, Z those     *)
(* that set NONE, K the threads that each thread has just created.         *)
(***************************************************************************)
HasLen(type, C, Z) ==
  IF type = "and" THEN \E c \in C : Thread(c) \notin Z ELSE \A c \in C : Thread(c) \notin Z

(* A thread that sets its length has returned; one that has created a      *)
(* group is still to be renewed, and has not.                              *)
LeafGood(h, n, R, Z) ==
  /\ h[n].newType = "leaf" => h[n].childs = <<>>
  /\ h[n].newType # "leaf" =>
       /\ h[n].newType \in Groups /\ h[n].len = "more" /\ Thread(n) \notin R
       /\ \A c \in ToSet(h[n].childs) : h[c].type = "leaf"
       /\ HasLen(h[n].newType, ToSet(h[n].childs), Z)
  /\ h[n].len # "more" => Thread(n) \in R
  /\ h[n].len = "none" => Thread(n) \in Z

(* A group that has ended becomes a leaf, and all its threads are back.    *)
LeafEnded(o) == o.type = "leaf" /\ o.len # "more"
Leaves(o) == o.type # "leaf" /\ o.len = "empty" => o.newType = "leaf"

GroupGood(h, n, R, Z) ==
  /\ h[n].newType \in {h[n].type, "leaf"}
  /\ h[n].newType = "leaf" => h[n].len = "empty"
  /\ h[n].len # "none"
  /\ n # root => Thread(n) \notin R
  /\ h[n].len = "empty" => \A c \in ToSet(h[n].childs) : Thread(c) \in R
  /\ h[n].type = "and" /\ h[n].len = "empty" =>
       h[n].hasEmpty /\ \A c \in ToSet(h[n].childs) : LeafEnded(h[c])
  /\ h[n].type # "and" \/ ~h[n].hasEmpty => HasLen(h[n].type, ToSet(h[n].childs), Z)
  /\ h[n].type = "prj" => \A i \in 2 .. Len(h[n].childs) : Leaves(h[h[n].childs[i]])

ObjectGood(h, n, R, Z) ==
  /\ h[n].type \in Groups \cup {"leaf"}
  /\ h[n].type = "leaf" => LeafGood(h, n, R, Z)
  /\ h[n].type # "leaf" => GroupGood(h, n, R, Z)

(* Who has not returned is a child of its father, and the child of the     *)
(* thread that waits for it.                                               *)
HomeGood(h, M, R) ==
  \A n \in In(h, M) \ {root} :
    Thread(n) \notin R => h[n].father \in In(h, M) /\ n \in ToSet(h[h[n].father].childs)

AwaitGood(h, M, R, K) ==
  \A t \in Threads : \A k \in K[t] \ R :
    k \in Threads /\ M[t] # Null /\ M[k] # Null /\ h[M[k]].father = M[t]

AllGood(h, M, R, Z) == \A n \in In(h, M) : ObjectGood(h, n, R, Z)

Good(h, M, R, Z, K) == AllGood(h, M, R, Z) /\ HomeGood(h, M, R) /\ AwaitGood(h, M, R, K)

-----------------------------------------------------------------------------
(* Steps that move no object.                                              *)
LEMMA StillGood ==
  ASSUME NEW h, NEW M, NEW R, NEW Z, NEW K, MapTyped(h, M), Good(h, M, R, Z, K),
         NEW g, DOMAIN g = DOMAIN h,
         \A n \in In(h, M) : g[n].father = h[n].father /\ g[n].childs = h[n].childs,
         AllGood(g, M, R, Z)
  PROVE  Good(g, M, R, Z, K)
<1>1. In(g, M) = In(h, M)
  BY DEF In
<1>2. HomeGood(g, M, R)
  BY <1>1 DEF Good, HomeGood
<1>3. AwaitGood(g, M, R, K)
  <2>1. \A t \in Threads : M[t] # Null => M[t] \in In(h, M)
    BY DEF MapTyped, In, Owners
  <2>2. QED
    BY <2>1 DEF Good, AwaitGood
<1>4. QED
  BY <1>2, <1>3 DEF Good

(* What ObjectGood says of n depends on these fields of n and its children *)
(* alone.                                                                  *)
Alike(o, p) == p.type = o.type /\ p.newType = o.newType /\ p.len = o.len
SameGoods(h, g, n) ==
  /\ Alike(h[n], g[n]) /\ g[n].childs = h[n].childs /\ g[n].hasEmpty = h[n].hasEmpty
  /\ \A c \in ToSet(h[n].childs) :
       /\ g[c].type = h[c].type
       /\ LeafEnded(h[c]) => LeafEnded(g[c])
       /\ Leaves(h[c]) => Leaves(g[c])

LEMMA ObjectSame ==
  ASSUME NEW h, HeapTyped(h), NEW n \in DOMAIN h, NEW R, NEW Z, ObjectGood(h, n, R, Z),
         NEW g, SameGoods(h, g, n)
  PROVE  ObjectGood(g, n, R, Z)
<1>1. \A i \in 2 .. Len(h[n].childs) : h[n].childs[i] \in ToSet(h[n].childs)
  <2>1. h[n].childs \in Seq(Names)
    BY Fields
  <2>2. \A s \in Seq(Names) : \A i \in 2 .. Len(s) : s[i] \in ToSet(s)
    BY DEF ToSet
  <2>3. QED
    BY <2>1, <2>2
<1>2. LeafGood(h, n, R, Z) => LeafGood(g, n, R, Z)
  BY DEF LeafGood, SameGoods, Alike
<1>3. GroupGood(h, n, R, Z) => GroupGood(g, n, R, Z)
  BY <1>1 DEF GroupGood, SameGoods, Alike
<1>4. QED
  BY <1>2, <1>3 DEF ObjectGood, SameGoods, Alike

(* These fields of the objects that are present.                           *)
LEMMA GoodSame ==
  ASSUME NEW h, NEW M, NEW R, NEW Z, NEW K, HeapTyped(h), MapTyped(h, M), Joined(h, M),
         Good(h, M, R, Z, K), NEW g, DOMAIN g = DOMAIN h,
         \A n \in In(h, M) : /\ Alike(h[n], g[n]) /\ g[n].father = h[n].father
                             /\ g[n].childs = h[n].childs /\ g[n].hasEmpty = h[n].hasEmpty
  PROVE  Good(g, M, R, Z, K)
<1>1. ASSUME NEW n \in In(h, M) PROVE ObjectGood(g, n, R, Z)
  <2>1. \A c \in ToSet(h[n].childs) : c \in In(h, M)
    BY DEF Joined
  <2>2. SameGoods(h, g, n)
    BY <2>1 DEF SameGoods, Alike, LeafEnded, Leaves
  <2>3. n \in DOMAIN h /\ ObjectGood(h, n, R, Z)
    BY DEF Good, AllGood, In
  <2>4. QED
    BY <2>2, <2>3, ObjectSame
<1>2. In(g, M) = In(h, M)
  BY DEF In
<1>3. QED
  BY <1>1, <1>2, StillGood DEF AllGood

-----------------------------------------------------------------------------
(* getNewNode of c, a node that becomes a group or a leaf.                 *)
Replaced(s, c) == [i \in DOMAIN s |-> IF s[i] = c THEN Successor(c) ELSE s[i]]
KidsLeft(h, c) == IF h[c].newType = "leaf" THEN <<>> ELSE h[c].childs

RenewedFields(h, c, g) ==
  LET new == Successor(c)
      f == h[c].father
      kids == KidsLeft(h, c)
  IN /\ new # c /\ new \notin DOMAIN h /\ Thread(new) = Thread(c) /\ new # root
     /\ c \in DOMAIN h /\ f # c
     /\ g[new].type = h[c].newType /\ g[new].newType = h[c].newType /\ g[new].father = f
     /\ g[new].childs = kids /\ g[new].len = "more"
     /\ \A m \in DOMAIN h \ {c} :
          /\ Alike(h[m], g[m]) /\ g[m].hasEmpty = h[m].hasEmpty
          /\ g[m].father = IF m \in ToSet(kids) THEN new ELSE h[m].father
          /\ g[m].childs = IF m = f THEN Replaced(h[m].childs, c) ELSE h[m].childs

LEMMA RenewFields ==
  ASSUME NEW h, NEW M, NEW U, NEW W, NEW D \in [Owners -> Nat], TreeOK(h, M, U, W, D),
         NEW c \in In(h, M), c # root, NEW q, h[c].newType \in Groups \cup {"leaf"}
  PROVE  RenewedFields(h, c, GetNewNode(h, c, q))
<1>. DEFINE g == GetNewNode(h, c, q)
            new == Successor(c)
            f == h[c].father
            type == h[c].newType
            kids == KidsLeft(h, c)
<1>. USE DEF TreeOK
<1>1. /\ c \in DOMAIN h /\ c \in Names /\ Thread(c) \in Owners /\ M[Thread(c)] = c
      /\ f \in Names \cup {Null} /\ Null \notin Names /\ Thread(c) # Main
  <2>1. c \in DOMAIN h /\ M[Thread(c)] = c
    BY DEF In
  <2>2. Thread(c) # Main
    BY <2>1 DEF RootStays
  <2>3. QED
    BY <2>1, <2>2, Fields, NullIsNoName
<1>2. Thread(new) = Thread(c) /\ new[2] = c[2] + 1 /\ c[2] \in Nat /\ new # c /\ new # root
  BY <1>1 DEF Successor, Names, Thread, root
<1>3. new \notin DOMAIN h
  <2>1. SUFFICES ASSUME new \in DOMAIN h PROVE FALSE
    OBVIOUS
  <2>2. Named(new, M, U)
    BY <2>1 DEF AllNamed
  <2>3. c[2] + 1 <= c[2]
    BY <1>1, <1>2, <2>2 DEF Named
  <2>4. QED
    BY <1>2, <2>3
<1>4. f # c
  <2>1. f # Null => D[Thread(f)] < D[Thread(c)]
    BY <1>1 DEF Deep
  <2>2. QED
    BY <1>1, <2>1
<1>5. type \notin {"keep", "alw"}
  BY DEF Groups
<1>6. /\ g[new] = NewNode(type, f, kids, q)
      /\ \A m \in DOMAIN h \ {c} :
           g[m] = [h[m] EXCEPT !.father = IF m \in ToSet(kids) THEN new ELSE @,
                               !.childs = IF m = f THEN Replaced(@, c) ELSE @,
                               !.len = @]
  <2>1. g = [m \in DOMAIN h \cup {new} |->
               IF m = new THEN NewNode(type, f, kids, q)
               ELSE IF m = c THEN [h[m] EXCEPT !.childs = kids]
               ELSE [h[m] EXCEPT !.father = IF m \in ToSet(kids) THEN new ELSE @,
                                 !.childs = IF m = f THEN Replaced(@, c) ELSE @,
                                 !.len = IF m \in {} THEN "none" ELSE @]]
    BY <1>5 DEF GetNewNode, KidsLeft, Replaced
  <2>. HIDE DEF g
  <2>2. QED
    BY <1>2, <1>3, <2>1
<1>. HIDE DEF g, kids
<1>7. /\ g[new].type = type /\ g[new].newType = type /\ g[new].father = f
      /\ g[new].childs = kids /\ g[new].len = "more"
  <2>. DEFINE x == NewNode(type, f, kids, q)
  <2>1. x \in {Node(type, f, kids), [Node(type, f, kids) EXCEPT !.hasExtQ = q]}
    BY DEF NewNode, Groups, AndNode, PalNode, PrjNode, LeafNode
  <2>2. \A y \in {Node(type, f, kids), [Node(type, f, kids) EXCEPT !.hasExtQ = q]} :
          y.type = type /\ y.newType = type /\ y.father = f /\ y.childs = kids /\ y.len = "more"
    BY DEF Node
  <2>. HIDE DEF x
  <2>3. x.type = type /\ x.newType = type /\ x.father = f /\ x.childs = kids /\ x.len = "more"
    BY <2>1, <2>2
  <2>4. QED
    BY <1>6, <2>3 DEF x
<1>8. ASSUME NEW m \in DOMAIN h \ {c}
      PROVE  /\ Alike(h[m], g[m]) /\ g[m].hasEmpty = h[m].hasEmpty
             /\ g[m].father = IF m \in ToSet(kids) THEN new ELSE h[m].father
             /\ g[m].childs = IF m = f THEN Replaced(h[m].childs, c) ELSE h[m].childs
  <2>1. h[m] \in Objects
    BY DEF HeapTyped
  <2>. DEFINE x == IF m \in ToSet(kids) THEN new ELSE h[m].father
              y == IF m = f THEN Replaced(h[m].childs, c) ELSE h[m].childs
  <2>2. g[m] = [h[m] EXCEPT !.father = x, !.childs = y, !.len = h[m].len]
    BY <1>6
  <2>. HIDE DEF x, y
  <2>3. Alike(h[m], g[m]) /\ g[m].hasEmpty = h[m].hasEmpty /\ g[m].father = x /\ g[m].childs = y
    BY <2>1, <2>2 DEF Objects, Alike
  <2>4. QED
    BY <2>3 DEF x, y
<1>9. QED
  BY <1>1, <1>2, <1>3, <1>4, <1>7, <1>8 DEF RenewedFields, g, kids

LEMMA ReplacedSeq ==
  ASSUME NEW s \in Seq(Names), NEW c
  PROVE  /\ Len(Replaced(s, c)) = Len(s) /\ DOMAIN Replaced(s, c) = DOMAIN s
         /\ \A i \in DOMAIN s : Replaced(s, c)[i] = IF s[i] = c THEN Successor(c) ELSE s[i]
         /\ \A d \in ToSet(s) : (IF d = c THEN Successor(c) ELSE d) \in ToSet(Replaced(s, c))
         /\ \A d \in ToSet(Replaced(s, c)) : \E e \in ToSet(s) : d = IF e = c THEN Successor(c) ELSE e
<1>. DEFINE r == Replaced(s, c)
<1>1. /\ DOMAIN s = 1 .. Len(s) /\ Len(s) \in Nat /\ DOMAIN r = DOMAIN s
      /\ \A i \in DOMAIN s : r[i] = IF s[i] = c THEN Successor(c) ELSE s[i]
  BY DEF Replaced
<1>a. r \in [1 .. Len(s) -> Names \cup {Successor(c)}]
  BY <1>1 DEF Replaced
<1>. HIDE DEF r
<1>2. r \in Seq(Names \cup {Successor(c)})
  BY <1>1, <1>a
<1>3. Len(r) = Len(s)
  <2>1. DOMAIN r = 1 .. Len(r) /\ Len(r) \in Nat
    BY <1>2
  <2>2. QED
    BY <1>1, <2>1
<1>4. QED
  BY <1>1, <1>3 DEF ToSet, r

(* A leaf that has created a group becomes that group, and a group that    *)
(* has ended a leaf.                                                       *)
LEMMA RenewedGood ==
  ASSUME NEW h, NEW M, NEW U, NEW W, NEW D \in [Owners -> Nat], TreeOK(h, M, U, W, D),
         NEW R, NEW Z, NEW K, Good(h, M, R, Z, K),
         NEW c \in In(h, M), c # root, h[c].type # h[c].newType,
         h[c].father \in In(h, M), c \in ToSet(h[h[c].father].childs), h[h[c].father].type # "leaf",
         NEW g, RenewedFields(h, c, g), NEW N, N = Renewed(M, c),
         In(g, N) = (In(h, M) \ {c}) \cup {Successor(c)}
  PROVE  /\ Good(g, N, R, Z, K)
         /\ \A m \in In(g, N) : g[m].type = "leaf" /\ g[m].newType # "leaf" =>
              m \in In(h, M) \ {c} /\ h[m].type = "leaf" /\ h[m].newType # "leaf"
<1>. DEFINE new == Successor(c)
            f == h[c].father
            kids == KidsLeft(h, c)
            type == h[c].newType
<1>1. /\ HeapTyped(h) /\ MapTyped(h, M) /\ Joined(h, M)
      /\ In(h, M) \subseteq DOMAIN h
      /\ \A m \in In(h, M) : M[Thread(m)] = m /\ Thread(m) \in Owners /\ h[m].childs \in Seq(Names)
  BY Fields DEF TreeOK, In
<1>2. /\ new # c /\ new \notin DOMAIN h /\ Thread(new) = Thread(c) /\ new # root /\ f # c
      /\ g[new].type = type /\ g[new].newType = type /\ g[new].father = f
      /\ g[new].childs = kids /\ g[new].len = "more"
  BY DEF RenewedFields
<1>3. \A m \in DOMAIN h \ {c} :
        /\ Alike(h[m], g[m]) /\ g[m].hasEmpty = h[m].hasEmpty
        /\ g[m].father = IF m \in ToSet(kids) THEN new ELSE h[m].father
        /\ g[m].childs = IF m = f THEN Replaced(h[m].childs, c) ELSE h[m].childs
  BY DEF RenewedFields
<1>4. \A m \in In(h, M) : ObjectGood(h, m, R, Z)
  BY DEF Good, AllGood
<1>5. \A m \in In(h, M) : \A d \in ToSet(h[m].childs) : d \in In(h, M) /\ h[d].father = m
  BY <1>1 DEF Joined
<1>6. ToSet(kids) \subseteq ToSet(h[c].childs) /\ (type = "leaf" => kids = <<>> /\ ToSet(kids) = {})
      /\ (type # "leaf" => kids = h[c].childs)
  BY DEF KidsLeft, ToSet
<1>. HIDE DEF kids
(* Both changes are of a thread that has not returned.                     *)
<1>7. /\ Thread(c) \notin R
      /\ type # "leaf" => /\ h[c].type = "leaf" /\ type \in Groups
                          /\ \A d \in ToSet(kids) : h[d].type = "leaf"
                          /\ HasLen(type, ToSet(kids), Z)
      /\ type = "leaf" => \A d \in ToSet(h[c].childs) : Thread(d) \in R
  <2>1. ObjectGood(h, c, R, Z)
    BY <1>4
  <2>2. CASE h[c].type = "leaf"
    BY <1>6, <2>1, <2>2 DEF ObjectGood, LeafGood
  <2>3. CASE h[c].type # "leaf"
    <3>1. GroupGood(h, c, R, Z)
      BY <2>1, <2>3 DEF ObjectGood
    <3>2. type = "leaf" /\ h[c].len = "empty"
      BY <3>1 DEF GroupGood
    <3>3. QED
      BY <3>1, <3>2 DEF GroupGood
  <2>4. QED
    BY <2>2, <2>3
<1>8. GroupGood(h, f, R, Z) /\ h[f].len # "empty"
  <2>1. GroupGood(h, f, R, Z)
    BY <1>4 DEF ObjectGood
  <2>2. QED
    BY <1>7, <2>1 DEF GroupGood
<1>9. /\ \A m \in In(h, M) \ {c} : m # f => c \notin ToSet(h[m].childs)
      /\ \A m \in In(h, M) : m \in ToSet(kids) => m # c /\ h[m].father = c
  <2>1. c \notin ToSet(kids)
    BY <1>2, <1>5, <1>6
  <2>2. QED
    BY <1>5, <1>6, <2>1
(* The new object.                                                         *)
<1>10. ObjectGood(g, new, R, Z)
  <2>1. CASE type = "leaf"
    BY <1>2, <1>6, <2>1 DEF ObjectGood, LeafGood
  <2>2. CASE type # "leaf"
    <3>1. \A d \in ToSet(kids) : g[d].type = "leaf"
      <4>1. \A d \in ToSet(kids) : d \in DOMAIN h \ {c}
        BY <1>1, <1>5, <1>6, <1>9
      <4>2. QED
        BY <1>3, <1>7, <2>2, <4>1 DEF Alike
    <3>2. \A i \in 2 .. Len(kids) : kids[i] \in ToSet(kids)
      <4>1. kids \in Seq(Names)
        BY <1>1, <1>6, <2>2
      <4>2. \A s \in Seq(Names) : \A i \in 2 .. Len(s) : s[i] \in ToSet(s)
        BY DEF ToSet
      <4>3. QED
        BY <4>1, <4>2
    <3>3. type \in Groups /\ HasLen(type, ToSet(kids), Z)
      BY <1>7, <2>2
    <3>4. GroupGood(g, new, R, Z)
      BY <1>2, <1>7, <2>2, <3>1, <3>2, <3>3 DEF GroupGood, Leaves
    <3>5. QED
      BY <1>2, <2>2, <3>3, <3>4 DEF ObjectGood
  <2>3. QED
    BY <2>1, <2>2
(* Its father.                                                             *)
<1>. DEFINE new_of(d) == IF d = c THEN new ELSE d
<1>11. ObjectGood(g, f, R, Z)
  <2>1. f \in DOMAIN h \ {c} /\ g[f].childs = Replaced(h[f].childs, c) /\ h[f].childs \in Seq(Names)
    BY <1>1, <1>2, <1>3
  <2>. DEFINE r == Replaced(h[f].childs, c)
  <2>2. /\ Len(r) = Len(h[f].childs) /\ DOMAIN r = DOMAIN h[f].childs
        /\ \A i \in DOMAIN h[f].childs : r[i] = new_of(h[f].childs[i])
        /\ \A d \in ToSet(h[f].childs) : new_of(d) \in ToSet(r)
        /\ \A d \in ToSet(r) : \E e \in ToSet(h[f].childs) : d = new_of(e)
    BY <2>1, ReplacedSeq
  <2>. HIDE DEF r
  <2>3. HasLen(h[f].type, ToSet(h[f].childs), Z) => HasLen(h[f].type, ToSet(r), Z)
    <3>1. \A d : Thread(new_of(d)) = Thread(d)
      BY <1>2
    <3>. HIDE DEF new_of
    <3>2. QED
      BY <2>2, <3>1 DEF HasLen
  <2>4. h[f].type = "prj" => \A i \in 2 .. Len(r) : Leaves(g[r[i]])
    <3>1. SUFFICES ASSUME h[f].type = "prj", NEW i \in 2 .. Len(r) PROVE Leaves(g[r[i]])
      OBVIOUS
    <3>2. i \in DOMAIN h[f].childs /\ i \in 2 .. Len(h[f].childs)
      BY <2>1, <2>2
    <3>3. Leaves(h[h[f].childs[i]]) /\ h[f].childs[i] \in ToSet(h[f].childs)
      BY <1>8, <3>1, <3>2 DEF GroupGood, ToSet
    <3>4. CASE h[f].childs[i] = c
      BY <1>2, <2>2, <3>2, <3>4 DEF Leaves
    <3>5. CASE h[f].childs[i] # c
      <4>1. r[i] = h[f].childs[i] /\ r[i] \in DOMAIN h \ {c}
        BY <1>1, <1>5, <2>2, <3>2, <3>3, <3>5
      <4>2. QED
        BY <1>3, <3>3, <4>1 DEF Leaves, Alike
    <3>6. QED
      BY <3>4, <3>5
  <2>5. g[f].type = h[f].type /\ g[f].newType = h[f].newType /\ g[f].len = h[f].len
        /\ g[f].hasEmpty = h[f].hasEmpty /\ g[f].childs = r
    BY <1>3, <2>1 DEF Alike, r
  <2>6. GroupGood(g, f, R, Z)
    BY <1>8, <2>3, <2>4, <2>5 DEF GroupGood
  <2>7. QED
    BY <1>4, <2>5, <2>6 DEF ObjectGood
(* The others.                                                             *)
<1>12. ASSUME NEW m \in In(h, M), m # c, m # f PROVE ObjectGood(g, m, R, Z)
  <2>1. m \in DOMAIN h \ {c} /\ g[m].childs = h[m].childs
    BY <1>1, <1>3, <1>12
  <2>2. \A d \in ToSet(h[m].childs) : d \in DOMAIN h \ {c}
    BY <1>1, <1>5, <1>9, <1>12
  <2>3. SameGoods(h, g, m)
    BY <1>3, <2>1, <2>2 DEF SameGoods, Alike, LeafEnded, Leaves
  <2>4. QED
    BY <1>1, <1>4, <2>1, <2>3, ObjectSame
<1>13. AllGood(g, N, R, Z)
  BY <1>10, <1>11, <1>12 DEF AllGood
(* Whose father c was is now a child of the new object, or has returned.   *)
<1>14. \A m \in In(h, M) : Thread(m) \notin R /\ m # root /\ h[m].father = c => m \in ToSet(kids) /\ type # "leaf"
  <2>1. ASSUME NEW m \in In(h, M), Thread(m) \notin R, m # root, h[m].father = c
        PROVE  m \in ToSet(kids) /\ type # "leaf"
    <3>1. m \in ToSet(h[c].childs)
      BY <2>1 DEF Good, HomeGood
    <3>2. QED
      BY <1>6, <1>7, <2>1, <3>1
  <2>2. QED
    BY <2>1
<1>15. HomeGood(g, N, R)
  <2>1. SUFFICES ASSUME NEW n \in In(g, N) \ {root}, Thread(n) \notin R
                 PROVE  g[n].father \in In(g, N) /\ n \in ToSet(g[g[n].father].childs)
    BY DEF HomeGood
  <2>2. f \in DOMAIN h \ {c} /\ h[f].childs \in Seq(Names) /\ g[f].childs = Replaced(h[f].childs, c)
    BY <1>1, <1>2, <1>3
  <2>3. \A d \in ToSet(h[f].childs) : new_of(d) \in ToSet(g[f].childs)
    BY <2>2, ReplacedSeq
  <2>4. f \in In(g, N)
    BY <1>2
  <2>5. CASE n = new
    BY <1>2, <2>3, <2>4, <2>5
  <2>6. CASE n # new
    <3>1. n \in In(h, M) /\ n # c /\ n \in DOMAIN h
      BY <1>1, <2>6
    <3>2. h[n].father \in In(h, M) /\ n \in ToSet(h[h[n].father].childs)
      BY <2>1, <3>1 DEF Good, HomeGood
    <3>3. CASE h[n].father = c
      <4>1. n \in ToSet(kids)
        BY <1>14, <2>1, <3>1, <3>3
      <4>2. g[n].father = new /\ g[new].childs = kids /\ new \in In(g, N)
        BY <1>2, <1>3, <3>1, <4>1
      <4>3. QED
        BY <4>1, <4>2
    <3>4. CASE h[n].father # c
      <4>1. n \notin ToSet(kids)
        BY <1>9, <3>1, <3>4
      <4>2. g[n].father = h[n].father /\ h[n].father \in DOMAIN h \ {c} /\ h[n].father \in In(g, N)
        BY <1>1, <1>3, <3>1, <3>2, <3>4, <4>1
      <4>3. CASE h[n].father = f
        BY <2>3, <3>1, <3>2, <4>2, <4>3
      <4>4. CASE h[n].father # f
        BY <1>3, <3>2, <4>2, <4>4
      <4>5. QED
        BY <4>2, <4>3, <4>4
    <3>5. QED
      BY <3>3, <3>4
  <2>7. QED
    BY <2>5, <2>6
<1>16. AwaitGood(g, N, R, K)
  <2>1. SUFFICES ASSUME NEW t \in Threads, NEW k \in K[t] \ R
                 PROVE  k \in Threads /\ N[t] # Null /\ N[k] # Null /\ g[N[k]].father = N[t]
    BY DEF AwaitGood
  <2>2. k \in Threads /\ M[t] # Null /\ M[k] # Null /\ h[M[k]].father = M[t]
    BY DEF Good, AwaitGood
  <2>3. /\ M \in [Owners -> Names \cup {Null}] /\ t \in Owners /\ k \in Owners
        /\ M[t] \in In(h, M) /\ M[k] \in In(h, M) /\ Thread(M[t]) = t /\ Thread(M[k]) = k
        /\ M[k] \in DOMAIN h
    BY <1>1, <2>2 DEF MapTyped, In, Owners
  <2>4. \A u \in Owners : N[u] = IF u = Thread(c) THEN new ELSE M[u]
    BY <2>3 DEF Renewed
  <2>5. new # Null
    <3>1. new = <<c[1], c[2] + 1>> /\ c \in Names
      BY <1>1, Fields DEF Successor
    <3>2. new \in Names
      BY <3>1 DEF Names
    <3>3. QED
      BY <3>2, NullIsNoName
  <2>6. N[t] # Null /\ N[k] # Null
    BY <2>2, <2>3, <2>4, <2>5
  <2>7. t = Thread(c) <=> M[t] = c
    BY <1>1, <2>3
  <2>8. k = Thread(c) <=> M[k] = c
    BY <1>1, <2>3
  <2>9. M[k] # root
    <3>1. Thread(root) = Main
      BY DEF root, Thread
    <3>2. QED
      BY <2>2, <2>3, <3>1, ProgramsAssumption
  <2>10. CASE M[k] = c
    <3>1. N[k] = new /\ N[t] = M[t] /\ M[t] = f
      BY <1>2, <2>2, <2>3, <2>4, <2>7, <2>8, <2>10
    <3>2. QED
      BY <1>2, <2>2, <2>6, <3>1
  <2>11. CASE M[k] # c
    <3>1. N[k] = M[k] /\ g[M[k]].father = IF M[k] \in ToSet(kids) THEN new ELSE M[t]
      BY <1>3, <2>2, <2>3, <2>4, <2>8, <2>11
    <3>2. M[k] \in ToSet(kids) <=> M[t] = c
      BY <1>9, <1>14, <2>1, <2>2, <2>3, <2>9
    <3>3. QED
      BY <2>2, <2>3, <2>4, <2>6, <2>7, <3>1, <3>2
  <2>12. QED
    BY <2>10, <2>11
<1>17. ASSUME NEW m \in In(g, N), g[m].type = "leaf", g[m].newType # "leaf"
       PROVE  m \in In(h, M) \ {c} /\ h[m].type = "leaf" /\ h[m].newType # "leaf"
  <2>1. m # new
    BY <1>2, <1>17
  <2>2. m \in In(h, M) \ {c} /\ m \in DOMAIN h \ {c}
    BY <1>1, <2>1
  <2>3. QED
    BY <1>3, <1>17, <2>2 DEF Alike
<1>18. QED
  BY <1>13, <1>15, <1>16, <1>17 DEF Good

-----------------------------------------------------------------------------
(* What ObjectGood says depends on nobody who is not there.                *)
LEMMA FewerObjects ==
  ASSUME NEW h, NEW gone, NEW n \in DOMAIN h \ gone, HeapTyped(h), NEW R, NEW Z, ObjectGood(h, n, R, Z),
         ToSet(h[n].childs) \subseteq DOMAIN h \ gone
  PROVE  ObjectGood(Without2(h, gone), n, R, Z)
<1>. DEFINE g == Without2(h, gone)
<1>1. \A m \in DOMAIN h \ gone : g[m] = h[m]
  BY DEF Without2
<1>. HIDE DEF g
<1>2. SameGoods(h, g, n)
  BY <1>1 DEF SameGoods, Alike
<1>3. QED
  BY <1>2, ObjectSame DEF g

(* delete of leaves that have returned, after children were taken.         *)
LEMMA DeletedGood ==
  ASSUME NEW h, NEW M, NEW R, NEW Z, NEW K, MapTyped(h, M), HeapTyped(h),
         Good(h, M, R, Z, K),
         NEW g, HeapTyped(g), NEW gone, DOMAIN g = DOMAIN h,
         \A n \in In(h, M) : /\ g[n].father = h[n].father /\ ToSet(h[n].childs) \ gone \subseteq ToSet(g[n].childs)
                             /\ ToSet(g[n].childs) \subseteq DOMAIN h,
         \A n \in In(h, M) \ gone : ObjectGood(g, n, R, Z) /\ ToSet(g[n].childs) \cap gone = {},
         \A n \in In(h, M) \cap gone : n # root /\ Thread(n) \in R /\ h[n].childs = <<>>
  PROVE  Good(Without2(g, gone), Unmapped(M, gone), R, Z, K)
<1>. DEFINE k == Without2(g, gone)
            N == Unmapped(M, gone)
<1>1. M \in [Owners -> Names \cup {Null}] /\ Null \notin Names /\ DOMAIN h \subseteq Names
  BY NullIsNoName DEF MapTyped, HeapTyped
<1>2. N \in [Owners -> Names \cup {Null}] /\ \A t \in Owners : N[t] = IF M[t] \in gone THEN Null ELSE M[t]
  BY <1>1 DEF Unmapped
<1>3. DOMAIN k = DOMAIN h \ gone /\ \A m \in DOMAIN h \ gone : k[m] = g[m]
  BY DEF Without2
<1>4. \A n \in DOMAIN h : Thread(n) \in Owners
  BY Fields
<1>. HIDE DEF k, N
<1>5. In(k, N) = In(h, M) \ gone
  BY <1>1, <1>2, <1>3, <1>4 DEF In
<1>6. \A n \in In(h, M) : n \in DOMAIN h
  BY DEF In
<1>7. ASSUME NEW n \in In(k, N) PROVE ObjectGood(k, n, R, Z)
  <2>1. n \in DOMAIN g \ gone /\ ToSet(g[n].childs) \subseteq DOMAIN g \ gone /\ ObjectGood(g, n, R, Z)
    BY <1>5, <1>6
  <2>2. QED
    BY <2>1, FewerObjects DEF k
<1>8. \A n \in In(h, M) : n \in gone => ToSet(h[n].childs) = {}
  BY DEF ToSet
<1>9. HomeGood(k, N, R)
  <2>1. SUFFICES ASSUME NEW n \in In(h, M) \ gone, n # root, Thread(n) \notin R
                 PROVE  k[n].father \in In(k, N) /\ n \in ToSet(k[k[n].father].childs)
    BY <1>5 DEF HomeGood
  <2>2. h[n].father \in In(h, M) /\ n \in ToSet(h[h[n].father].childs)
    BY <2>1 DEF Good, HomeGood
  <2>3. h[n].father \notin gone /\ h[n].father \in DOMAIN h \ gone
    BY <1>6, <1>8, <2>2
  <2>4. k[n].father = h[n].father /\ k[h[n].father].childs = g[h[n].father].childs
    BY <1>3, <1>6, <2>1, <2>3
  <2>5. QED
    BY <1>5, <2>1, <2>2, <2>3, <2>4
<1>10. AwaitGood(k, N, R, K)
  <2>1. SUFFICES ASSUME NEW t \in Threads, NEW c \in K[t] \ R
                 PROVE  c \in Threads /\ N[t] # Null /\ N[c] # Null /\ k[N[c]].father = N[t]
    BY DEF AwaitGood
  <2>2. c \in Threads /\ M[t] # Null /\ M[c] # Null /\ h[M[c]].father = M[t]
    BY DEF Good, AwaitGood
  <2>3. /\ t \in Owners /\ c \in Owners
        /\ M[t] \in In(h, M) /\ M[c] \in In(h, M) /\ Thread(M[c]) = c
    BY <2>2 DEF MapTyped, In, Owners
  <2>4. M[c] \notin gone /\ M[c] # root
    <3>1. Thread(root) = Main
      BY DEF root, Thread
    <3>2. QED
      BY <2>1, <2>2, <2>3, <3>1, ProgramsAssumption
  <2>5. M[c] \in ToSet(h[M[t]].childs)
    BY <2>1, <2>2, <2>3, <2>4 DEF Good, HomeGood
  <2>6. M[t] \notin gone
    BY <1>8, <2>3, <2>5
  <2>7. N[t] = M[t] /\ N[c] = M[c] /\ k[M[c]].father = h[M[c]].father
    BY <1>2, <1>3, <1>6, <2>3, <2>4, <2>6
  <2>8. QED
    BY <2>2, <2>7
<1>11. AllGood(k, N, R, Z)
  BY <1>7 DEF AllGood
<1>12. QED
  BY <1>9, <1>10, <1>11 DEF Good, k, N

-----------------------------------------------------------------------------
(* isCorrectAndExit in a good tree.  What it makes of the object n of a    *)
(* group, r, given what it made of the children.                           *)
Back == {t \in Threads : todo[t] = <<>>}

KidGood(c, k) ==
  /\ k.obj.type = node[c].type
  /\ node[c].type = "leaf" => k.obj = node[c] /\ (k.exit <=> Thread(c) \in Back)
  /\ node[c].type # "leaf" => k.obj.len # "none"

CheckedGood(n, r) ==
  LET o == node[n]
      p == r.obj
  IN /\ p.type = o.type /\ p.newType = o.newType /\ p.father = o.father /\ p.len # "none"
     /\ r.exit <=> p.len = "empty"
     /\ o.len = "empty" => p.len = "empty"
     /\ p.childs \in Seq(Names) /\ ToSet(p.childs) \subseteq ToSet(o.childs)
     /\ \A c \in ToSet(o.childs) \ ToSet(p.childs) : node[c].type = "leaf" /\ Thread(c) \in Back
     /\ p.len = "empty" => \A c \in ToSet(o.childs) : Thread(c) \in Back
     /\ o.type = "and" /\ p.len = "empty" => p.hasEmpty /\ \A c \in ToSet(o.childs) : LeafEnded(node[c])
     /\ ~p.hasEmpty => ~o.hasEmpty
     /\ o.type = "and" /\ ~p.hasEmpty => ToSet(p.childs) = ToSet(o.childs)
     /\ o.type = "prj" => p.childs = o.childs

(* What is known of a group and its children before.                       *)
CheckReady(n, kid, R, Z) ==
  /\ HeapTyped(node) /\ n \in DOMAIN node /\ node[n].type # "leaf"
  /\ ObjectGood(node, n, R, Z)
  /\ \A c \in ToSet(node[n].childs) :
       /\ c \in DOMAIN node /\ Thread(c) \in Threads /\ ObjectGood(node, c, R, Z)
       /\ KidGood(c, kid[c])

LEMMA EndedLeaf ==
  ASSUME NEW h, NEW c, NEW R, NEW Z, ObjectGood(h, c, R, Z), h[c].type = "leaf"
  PROVE  /\ h[c].len # "more" => Thread(c) \in R
         /\ h[c].len = "none" => Thread(c) \in Z
         /\ Thread(c) \in R => h[c].newType = "leaf" /\ h[c].childs = <<>>
BY DEF ObjectGood, LeafGood

LEMMA AndCheckedGood ==
  ASSUME NEW n, NEW kid, NEW Z, CheckReady(n, kid, Back, Z), node[n].type = "and"
  PROVE  CheckedGood(n, AndChecked(node[n], kid))
<1>. DEFINE o == node[n]
            s == o.childs
            ended(c) == kid[c].exit /\ IsEmptyLeaf(kid[c].obj)
            A == {i \in DOMAIN s : IsEmptyLeaf(kid[s[i]].obj)}
            B == {i \in DOMAIN s : kid[s[i]].obj.len = "none"}
            hasEmpty == o.hasEmpty \/ Cardinality(A) > 0
            exit == hasEmpty /\ Cardinality(A) + Cardinality(B) = Len(s)
            len == IF exit THEN "empty" ELSE IF hasEmpty THEN o.len
                   ELSE IF Cardinality(B) = Len(s) THEN "none" ELSE "more"
            gone == {c \in ToSet(s) : ended(c)}
            left == Without(s, gone)
            r == AndChecked(o, kid)
<1>1. /\ o \in Objects /\ s \in Seq(Names) /\ o.hasEmpty \in BOOLEAN
      /\ \A i \in DOMAIN s : s[i] \in ToSet(s)
      /\ \A c \in ToSet(s) : c \in DOMAIN node /\ node[c].len \in Lengths /\ ObjectGood(node, c, Back, Z)
                             /\ KidGood(c, kid[c])
  BY Fields DEF CheckReady, HeapTyped, ToSet
<1>2. GroupGood(node, n, Back, Z)
  BY DEF CheckReady, ObjectGood
<1>3. /\ A \in SUBSET DOMAIN s /\ B \in SUBSET DOMAIN s /\ A \cap B = {}
      /\ Cardinality(A) \in Nat /\ Cardinality(B) \in Nat
      /\ Cardinality(A) > 0 <=> A # {}
      /\ Cardinality(B) = Len(s) <=> B = DOMAIN s
      /\ Cardinality(A) + Cardinality(B) = Len(s) <=> A \cup B = DOMAIN s
  <2>1. A \in SUBSET DOMAIN s /\ B \in SUBSET DOMAIN s /\ A \cap B = {}
    BY DEF IsEmptyLeaf
  <2>. HIDE DEF A, B, s
  <2>2. QED
    BY <1>1, <2>1, Counting
<1>4. r = [exit |-> exit, obj |-> [o EXCEPT !.hasEmpty = hasEmpty, !.len = len, !.childs = left]]
  BY DEF AndChecked, Number
<1>5. /\ left \in Seq(Names) /\ ToSet(left) = ToSet(s) \ gone
  BY <1>1, WithoutIsPart, WithoutIsRest
(* A child that is not a leaf has no NONE, and one that has ended is back. *)
<1>6. \A c \in ToSet(s) : IsEmptyLeaf(kid[c].obj) \/ kid[c].obj.len = "none" =>
        node[c].type = "leaf" /\ LeafEnded(node[c]) /\ Thread(c) \in Back /\ kid[c].obj = node[c]
  BY <1>1, EndedLeaf DEF IsEmptyLeaf, KidGood, LeafEnded
<1>7. exit => \A c \in ToSet(s) : LeafEnded(node[c]) /\ Thread(c) \in Back
  BY <1>3, <1>6 DEF ToSet
<1>8. o.len = "empty" => exit
  <2>1. SUFFICES ASSUME o.len = "empty" PROVE exit
    OBVIOUS
  <2>2. o.hasEmpty /\ \A c \in ToSet(s) : LeafEnded(node[c])
    BY <1>2, <2>1 DEF GroupGood
  <2>3. \A c \in ToSet(s) : kid[c].obj = node[c] /\ node[c].len \in {"empty", "none"} /\ node[c].type = "leaf"
    BY <1>1, <2>2 DEF LeafEnded, KidGood, Lengths
  <2>4. A \cup B = DOMAIN s
    BY <1>1, <2>3 DEF IsEmptyLeaf
  <2>5. QED
    BY <1>3, <2>2, <2>4
<1>9. ~hasEmpty => B # DOMAIN s /\ gone = {}
  <2>1. SUFFICES ASSUME ~hasEmpty PROVE B # DOMAIN s /\ gone = {}
    OBVIOUS
  <2>2. HasLen("and", ToSet(s), Z)
    BY <1>2, <2>1 DEF GroupGood
  <2>3. PICK c \in ToSet(s) : Thread(c) \notin Z
    BY <2>2 DEF HasLen
  <2>4. kid[c].obj.len # "none"
    BY <1>1, <1>6, <2>3, EndedLeaf
  <2>5. B # DOMAIN s
    BY <2>3, <2>4 DEF ToSet
  <2>6. A = {}
    BY <1>3, <2>1
  <2>7. gone = {}
    BY <2>6 DEF ToSet
  <2>8. QED
    BY <2>5, <2>7
<1>10. len # "none" /\ (exit <=> len = "empty")
  BY <1>2, <1>3, <1>8, <1>9 DEF GroupGood
<1>11. \A c \in gone : node[c].type = "leaf" /\ Thread(c) \in Back
  BY <1>6
<1>12. (r.exit <=> exit) /\ r.obj = [o EXCEPT !.hasEmpty = hasEmpty, !.len = len, !.childs = left]
  <2>. DEFINE x == [o EXCEPT !.hasEmpty = hasEmpty, !.len = len, !.childs = left]
  <2>1. exit \in BOOLEAN
    OBVIOUS
  <2>2. \A e \in BOOLEAN : \A y : [exit |-> e, obj |-> y].exit = e /\ [exit |-> e, obj |-> y].obj = y
    OBVIOUS
  <2>. HIDE DEF x, exit, r
  <2>3. QED
    BY <1>4, <2>1, <2>2 DEF x
<1>13. (exit => hasEmpty) /\ (~hasEmpty => ~o.hasEmpty)
  OBVIOUS
<1>. HIDE DEF exit, hasEmpty, len, left, gone, r
<1>14. /\ r.obj.type = o.type /\ r.obj.newType = o.newType /\ r.obj.father = o.father
       /\ r.obj.len = len /\ r.obj.hasEmpty = hasEmpty /\ r.obj.childs = left
  BY <1>1, <1>12 DEF Objects
<1>15. QED
  BY <1>1, <1>5, <1>7, <1>8, <1>9, <1>10, <1>11, <1>12, <1>13, <1>14 DEF CheckedGood, r

LEMMA ExitRecord ==
  ASSUME NEW e \in BOOLEAN, NEW y
  PROVE  ([exit |-> e, obj |-> y].exit <=> e) /\ [exit |-> e, obj |-> y].obj = y
OBVIOUS

LEMMA PalCheckedGood ==
  ASSUME NEW n, NEW kid, NEW Z, CheckReady(n, kid, Back, Z), node[n].type = "pal"
  PROVE  CheckedGood(n, PalChecked(node[n], kid))
<1>. DEFINE o == node[n]
            s == o.childs
            exits(c) == kid[c].exit /\ kid[c].obj.type = "leaf"
            ended(c) == exits(c) /\ kid[c].obj.len = "empty"
            A == {i \in DOMAIN s : ended(s[i])}
            exit == o.len = "empty" \/ Cardinality(A) = Len(s)
            hasEmpty == o.hasEmpty \/ Cardinality(A) > 0
            len == IF exit THEN "empty" ELSE o.len
            gone == {c \in ToSet(s) : exits(c)}
            left == Without(s, gone)
            r == PalChecked(o, kid)
<1>1. /\ o \in Objects /\ s \in Seq(Names) /\ o.hasEmpty \in BOOLEAN
      /\ \A i \in DOMAIN s : s[i] \in ToSet(s)
      /\ \A c \in ToSet(s) : KidGood(c, kid[c])
  BY Fields DEF CheckReady, HeapTyped, ToSet
<1>2. GroupGood(node, n, Back, Z)
  BY DEF CheckReady, ObjectGood
<1>3. Cardinality(A) = Len(s) <=> A = DOMAIN s
  <2>1. A \in SUBSET DOMAIN s
    OBVIOUS
  <2>. HIDE DEF A, s
  <2>2. QED
    BY <1>1, <2>1, Counting
<1>4. r = [exit |-> exit, obj |-> [o EXCEPT !.hasEmpty = hasEmpty, !.len = len, !.childs = left]]
  BY DEF PalChecked, Number
<1>5. left \in Seq(Names) /\ ToSet(left) = ToSet(s) \ gone
  BY <1>1, WithoutIsPart, WithoutIsRest
<1>6. \A c \in gone : node[c].type = "leaf" /\ Thread(c) \in Back
  BY <1>1 DEF KidGood
<1>7. exit => \A c \in ToSet(s) : Thread(c) \in Back
  <2>1. o.len = "empty" => \A c \in ToSet(s) : Thread(c) \in Back
    BY <1>2 DEF GroupGood
  <2>2. A = DOMAIN s => \A c \in ToSet(s) : Thread(c) \in Back
    BY <1>1 DEF KidGood, ToSet
  <2>3. QED
    BY <1>3, <2>1, <2>2
<1>8. len # "none" /\ (exit <=> len = "empty") /\ (o.len = "empty" => len = "empty")
  BY <1>2 DEF GroupGood
<1>9. (r.exit <=> exit) /\ r.obj = [o EXCEPT !.hasEmpty = hasEmpty, !.len = len, !.childs = left]
  <2>. DEFINE x == [o EXCEPT !.hasEmpty = hasEmpty, !.len = len, !.childs = left]
  <2>1. exit \in BOOLEAN
    OBVIOUS
  <2>. HIDE DEF x, exit, r
  <2>2. QED
    BY <1>4, <2>1, ExitRecord DEF x
<1>10. ~hasEmpty => ~o.hasEmpty
  OBVIOUS
<1>. HIDE DEF exit, hasEmpty, len, left, gone, r
<1>11. /\ r.obj.type = o.type /\ r.obj.newType = o.newType /\ r.obj.father = o.father
       /\ r.obj.len = len /\ r.obj.hasEmpty = hasEmpty /\ r.obj.childs = left
  BY <1>1, <1>9 DEF Objects
<1>12. QED
  BY <1>1, <1>5, <1>6, <1>7, <1>8, <1>9, <1>10, <1>11 DEF CheckedGood, r

LEMMA PrjCheckedGood ==
  ASSUME NEW n, NEW kid, NEW Z, CheckReady(n, kid, Back, Z), node[n].type = "prj"
  PROVE  CheckedGood(n, PrjChecked(node[n]))
<1>. DEFINE o == node[n]
            s == o.childs
            exit == \/ o.len = "empty"
                    \/ /\ Returned(Thread(s[1]))
                       /\ \A c \in ToSet(Tail(s)) : IsEmptyLeaf(node[c])
            len == IF exit THEN "empty" ELSE o.len
            r == PrjChecked(o)
<1>1. /\ o \in Objects /\ s \in Seq(Names)
      /\ \A c \in ToSet(s) : c \in DOMAIN node /\ Thread(c) \in Threads /\ ObjectGood(node, c, Back, Z)
  BY Fields DEF CheckReady, HeapTyped
<1>2. GroupGood(node, n, Back, Z)
  BY DEF CheckReady, ObjectGood
<1>3. \A c \in ToSet(s) : c = s[1] \/ c \in ToSet(Tail(s))
  <2>1. SUFFICES ASSUME NEW i \in 1 .. Len(s) PROVE s[i] = s[1] \/ s[i] \in ToSet(Tail(s))
    BY <1>1 DEF ToSet
  <2>2. CASE i = 1
    BY <2>2
  <2>3. CASE i # 1
    <3>1. Len(s) \in Nat /\ Len(s) > 0 /\ i - 1 \in 1 .. Len(s) - 1
      BY <1>1, <2>1, <2>3
    <3>2. Len(Tail(s)) = Len(s) - 1 /\ Tail(s) \in Seq(Names) /\ Tail(s)[i - 1] = s[i]
      BY <1>1, <3>1
    <3>3. DOMAIN Tail(s) = 1 .. Len(s) - 1
      BY <3>2
    <3>4. QED
      BY <3>1, <3>2, <3>3 DEF ToSet
  <2>4. QED
    BY <2>2, <2>3
<1>4. exit => \A c \in ToSet(s) : Thread(c) \in Back
  <2>1. o.len = "empty" => \A c \in ToSet(s) : Thread(c) \in Back
    BY <1>2 DEF GroupGood
  <2>2. ASSUME Returned(Thread(s[1])), \A c \in ToSet(Tail(s)) : IsEmptyLeaf(node[c]), NEW c \in ToSet(s)
        PROVE  Thread(c) \in Back
    <3>1. CASE c = s[1]
      BY <1>1, <2>2, <3>1 DEF Returned, Back
    <3>2. CASE c \in ToSet(Tail(s))
      BY <1>1, <2>2, <3>2, EndedLeaf DEF IsEmptyLeaf
    <3>3. QED
      BY <1>3, <3>1, <3>2
  <2>3. QED
    BY <2>1, <2>2
<1>5. len # "none" /\ (exit <=> len = "empty") /\ (o.len = "empty" => len = "empty")
  BY <1>2 DEF GroupGood
<1>6. r = [exit |-> exit, obj |-> [o EXCEPT !.len = len]]
  BY DEF PrjChecked
<1>7. (r.exit <=> exit) /\ r.obj = [o EXCEPT !.len = len]
  <2>. DEFINE x == [o EXCEPT !.len = len]
  <2>1. exit \in BOOLEAN
    OBVIOUS
  <2>. HIDE DEF x, exit, r
  <2>2. QED
    BY <1>6, <2>1, ExitRecord DEF x
<1>. HIDE DEF exit, len, r
<1>8. /\ r.obj.type = o.type /\ r.obj.newType = o.newType /\ r.obj.father = o.father
      /\ r.obj.len = len /\ r.obj.hasEmpty = o.hasEmpty /\ r.obj.childs = s
  BY <1>1, <1>7 DEF Objects
<1>9. QED
  BY <1>1, <1>4, <1>5, <1>7, <1>8 DEF CheckedGood, r

LEMMA ThreadOfChild ==
  ASSUME ShapeInv
  PROVE  \A n \in Present \ {root} : Thread(n) \in Threads
<1>1. TreeOK(node, threadIDToNode, Unborn, Waiting(stack, keepChilds), Depth) /\ HeapTyped(node)
  BY ShapeFacts
<1>2. SUFFICES ASSUME NEW n \in Present, n # root PROVE Thread(n) \in Threads
  OBVIOUS
<1>3. n \in DOMAIN node /\ Thread(n) \in Owners
  BY <1>1, Fields DEF Present
<1>4. QED
  BY <1>1, <1>2, <1>3 DEF TreeOK, RootStays, Owners

LEMMA CheckedIsGood ==
  ASSUME ShapeInv, NEW Z, AllGood(node, threadIDToNode, Back, Z)
  PROVE  \A n \in Present : /\ KidGood(n, Checked[n])
                            /\ node[n].type # "leaf" => CheckedGood(n, Checked[n])
<1>. DEFINE all == [n \in Present |-> ToSet(node[n].childs)]
            depth == [n \in Present |-> Depth[Thread(n)]]
            OK(n) == KidGood(n, Checked[n]) /\ (node[n].type # "leaf" => CheckedGood(n, Checked[n]))
            Bad == {i \in Nat : \E n \in Present : i = Levels - depth[n] /\ ~OK(n)}
<1>1. /\ Present = In(node, threadIDToNode) /\ HeapTyped(node)
      /\ Levels \in Nat /\ Depth \in [Owners -> 0 .. Levels]
      /\ TreeOK(node, threadIDToNode, Unborn, Waiting(stack, keepChilds), Depth)
  BY ShapeFacts
<1>2. Descends(Present, all, depth, Levels)
  BY <1>1, TreeDescends
<1>3. \A n \in Present : Checked[n] = CorrectAndExit(n, [c \in ToSet(node[n].childs) |-> Checked[c]])
  BY <1>2, CheckedEquation
<1>4. /\ \A n \in Present : depth[n] \in Nat /\ depth[n] <= Levels /\ ToSet(node[n].childs) \subseteq Present
      /\ \A n \in Present : \A c \in ToSet(node[n].childs) : depth[n] < depth[c]
  BY <1>2 DEF Descends
<1>5. \A n \in Present : n \in DOMAIN node /\ ObjectGood(node, n, Back, Z)
  BY <1>1 DEF AllGood, Present
<1>6. ASSUME NEW n \in Present, node[n].type = "leaf" PROVE OK(n)
  <2>1. Checked[n] = [exit |-> Returned(Thread(n)) \/ node[n].len # "more", obj |-> node[n]]
    BY <1>3, <1>6 DEF CorrectAndExit, LeafChecked
  <2>2. Thread(n) \in Threads
    <3>1. n # root
      BY <1>1, <1>5, <1>6 DEF TreeOK, RootStays, root, Thread, Groups
    <3>2. QED
      BY <3>1, ThreadOfChild
  <2>. DEFINE e == Returned(Thread(n)) \/ node[n].len # "more"
  <2>3. e <=> Thread(n) \in Back
    <3>1. Returned(Thread(n)) <=> Thread(n) \in Back
      BY <2>2, ProgramsAssumption DEF Returned, Back
    <3>2. node[n].len # "more" => Thread(n) \in Back
      BY <1>5, <1>6, EndedLeaf
    <3>3. QED
      BY <3>1, <3>2
  <2>4. e \in BOOLEAN
    OBVIOUS
  <2>. HIDE DEF e
  <2>5. (Checked[n].exit <=> e) /\ Checked[n].obj = node[n]
    BY <2>1, <2>4, ExitRecord DEF e
  <2>6. QED
    BY <1>6, <2>3, <2>5 DEF KidGood
<1>7. ASSUME NEW n \in Present, node[n].type # "leaf", \A c \in ToSet(node[n].childs) : OK(c) PROVE OK(n)
  <2>. DEFINE kid == [c \in ToSet(node[n].childs) |-> Checked[c]]
  <2>1. \A c \in ToSet(node[n].childs) : kid[c] = Checked[c]
    OBVIOUS
  <2>2. \A c \in ToSet(node[n].childs) : c \in Present /\ c # root
    BY <1>1, <1>4, ChildFacts
  <2>3. CheckReady(n, kid, Back, Z)
    <3>. HIDE DEF kid
    <3>1. \A c \in ToSet(node[n].childs) : Thread(c) \in Threads
      BY <2>2, ThreadOfChild
    <3>2. QED
      BY <1>1, <1>5, <1>7, <2>1, <2>2, <3>1 DEF CheckReady
  <2>4. node[n].type \in Groups
    BY <1>5, <1>7 DEF ObjectGood
  <2>5. Checked[n] = CorrectAndExit(n, kid)
    BY <1>3
  <2>. HIDE DEF kid
  <2>6. CASE node[n].type = "and"
    <3>1. Checked[n] = AndChecked(node[n], kid)
      BY <2>5, <2>6 DEF CorrectAndExit
    <3>2. QED
      BY <1>7, <2>3, <2>6, <3>1, AndCheckedGood DEF CheckedGood, KidGood
  <2>7. CASE node[n].type = "pal"
    <3>1. Checked[n] = PalChecked(node[n], kid)
      BY <2>5, <2>7 DEF CorrectAndExit
    <3>2. QED
      BY <1>7, <2>3, <2>7, <3>1, PalCheckedGood DEF CheckedGood, KidGood
  <2>8. CASE node[n].type = "prj"
    <3>1. Checked[n] = PrjChecked(node[n])
      BY <2>5, <2>8 DEF CorrectAndExit
    <3>2. QED
      BY <1>7, <2>3, <2>8, <3>1, PrjCheckedGood DEF CheckedGood, KidGood
  <2>9. QED
    BY <2>4, <2>6, <2>7, <2>8 DEF Groups
<1>. HIDE DEF OK, depth
<1>8. Bad = {}
  <2>1. SUFFICES ASSUME Bad # {} PROVE FALSE
    OBVIOUS
  <2>2. PICK i \in Bad : \A j \in Nat : j < i => j \notin Bad
    BY <2>1, Least
  <2>3. PICK n \in Present : i = Levels - depth[n] /\ ~OK(n)
    BY <2>2
  <2>4. ASSUME NEW c \in ToSet(node[n].childs) PROVE OK(c)
    <3>1. c \in Present /\ Levels - depth[c] \in Nat /\ Levels - depth[c] < i
      BY <1>1, <1>4, <2>3
    <3>2. Levels - depth[c] \notin Bad
      BY <2>2, <3>1
    <3>3. QED
      BY <3>1, <3>2
  <2>5. QED
    BY <1>6, <1>7, <2>3, <2>4
<1>9. \A n \in Present : Levels - depth[n] \in Nat
  BY <1>1, <1>4
<1>10. QED
  BY <1>8, <1>9 DEF OK

(* isCorrectAndExit of n.  It may be that of a p of a prj only if it goes  *)
(* on, or becomes a leaf.                                                  *)
IsP(n) ==
  \E f \in Present : node[f].type = "prj" /\ \E i \in 2 .. Len(node[f].childs) : node[f].childs[i] = n

LEMMA CheckKeepsGood ==
  ASSUME ShapeInv, NEW Z, NEW K, Good(node, threadIDToNode, Back, Z, K), NEW n \in Present,
         NEW h, HeapTyped(h), DOMAIN h = DOMAIN node,
         \A m \in DOMAIN node :
           /\ h[m].type = CheckedHeap(n)[m].type /\ h[m].father = CheckedHeap(n)[m].father
           /\ h[m].childs = CheckedHeap(n)[m].childs /\ h[m].len = CheckedHeap(n)[m].len
           /\ h[m].hasEmpty = CheckedHeap(n)[m].hasEmpty
           /\ \/ h[m].newType = CheckedHeap(n)[m].newType
              \/ m = n /\ node[n].type # "leaf" /\ h[n].newType = "leaf" /\ Checked[n].exit,
         IsP(n) /\ node[n].type # "leaf" /\ Checked[n].exit => h[n].newType = "leaf"
  PROVE  /\ Good(Without2(h, CheckedGone(n)), Unmapped(threadIDToNode, CheckedGone(n)), Back, Z, K)
         /\ \A m \in CheckedGone(n) : Thread(m) \in Back /\ Thread(m) \in Threads
<1>. DEFINE gone == CheckedGone(n)
            some == [m \in Present |-> IF node[m].type \in {"and", "pal"} THEN ToSet(node[m].childs) ELSE {}]
            depth == [m \in Present |-> Depth[Thread(m)]]
<1>1. /\ Present = In(node, threadIDToNode) /\ HeapTyped(node)
      /\ Levels \in Nat /\ Depth \in [Owners -> 0 .. Levels]
      /\ TreeOK(node, threadIDToNode, Unborn, Waiting(stack, keepChilds), Depth)
  BY ShapeFacts
<1>2. MapTyped(node, threadIDToNode) /\ Present \subseteq DOMAIN node
  BY <1>1 DEF TreeOK, Present
<1>3. \A m \in Present : \A c \in ToSet(node[m].childs) :
        c \in Present /\ c # root /\ node[c].father = m /\ c \in DOMAIN node
  BY <1>1, <1>2, ChildFacts
<1>4. AllGood(node, threadIDToNode, Back, Z)
  BY DEF Good
<1>5. \A m \in Present : /\ ObjectGood(node, m, Back, Z) /\ KidGood(m, Checked[m])
                         /\ node[m].type # "leaf" => CheckedGood(m, Checked[m])
  BY <1>1, <1>4, CheckedIsGood DEF AllGood
(* isCorrectAndExit goes down through and and pal nodes.                   *)
<1>6. /\ Descended[n] \subseteq Present /\ n \in Descended[n]
      /\ \A c \in Descended[n] : c = n \/ \E m \in Descended[n] : node[m].type \in {"and", "pal"} /\ c \in ToSet(node[m].childs)
  <2>1. Descends(Present, some, depth, Levels)
    BY <1>1, TreeDescends
  <2>2. Descended = Reach(some)
    BY DEF Descended
  <2>3. n \in Reach(some)[n] /\ \A x \in Reach(some)[n] : x \in Present /\ (x = n \/ \E y \in Reach(some)[n] : x \in some[y])
    <3>. HIDE DEF some, depth
    <3>1. QED
      BY <2>1, ReachIsBelow
  <2>4. \A y \in Present : some[y] = IF node[y].type \in {"and", "pal"} THEN ToSet(node[y].childs) ELSE {}
    OBVIOUS
  <2>. HIDE DEF some
  <2>5. QED
    BY <2>2, <2>3, <2>4
<1>7. \A m \in DOMAIN node : CheckedHeap(n)[m] = IF m \in Descended[n] THEN Checked[m].obj ELSE node[m]
  BY DEF CheckedHeap
(* What each object has become.                                            *)
<1>8. ASSUME NEW m \in Present, node[m].type = "leaf"
      PROVE  /\ Alike(node[m], h[m]) /\ h[m].father = node[m].father /\ h[m].childs = node[m].childs
             /\ h[m].hasEmpty = node[m].hasEmpty
  <2>1. CheckedHeap(n)[m] = node[m]
    BY <1>2, <1>5, <1>7, <1>8 DEF KidGood
  <2>2. QED
    BY <1>2, <1>8, <2>1 DEF Alike
<1>9. ASSUME NEW m \in Present, node[m].type # "leaf", m \in Descended[n]
      PROVE  LET p == Checked[m].obj
             IN /\ CheckedGood(m, Checked[m])
                /\ h[m].type = node[m].type /\ h[m].father = node[m].father /\ h[m].childs = p.childs
                /\ h[m].len = p.len /\ h[m].hasEmpty = p.hasEmpty
                /\ h[m].newType \in {node[m].newType, "leaf"}
                /\ h[m].newType = "leaf" => h[m].len = "empty"
  <2>1. CheckedHeap(n)[m] = Checked[m].obj /\ m \in DOMAIN node
    BY <1>2, <1>7, <1>9
  <2>2. CheckedGood(m, Checked[m])
    BY <1>5, <1>9
  <2>3. node[m].newType = "leaf" => node[m].len = "empty"
    BY <1>5, <1>9 DEF ObjectGood, GroupGood
  <2>4. QED
    BY <2>1, <2>2, <2>3 DEF CheckedGood
<1>10. \A m \in Present : m \notin Descended[n] /\ m # n =>
         /\ Alike(node[m], h[m]) /\ h[m].father = node[m].father /\ h[m].childs = node[m].childs
         /\ h[m].hasEmpty = node[m].hasEmpty
  BY <1>2, <1>7 DEF Alike
<1>11. n \in Descended[n]
  BY <1>6
<1>12. \A m \in Present : /\ h[m].type = node[m].type /\ h[m].father = node[m].father
                          /\ LeafEnded(node[m]) => LeafEnded(h[m])
                          /\ ToSet(h[m].childs) \subseteq ToSet(node[m].childs)
  BY <1>8, <1>9, <1>10, <1>11 DEF CheckedGood, LeafEnded, Alike
<1>13. ASSUME NEW m \in Present, node[m].type = "prj", NEW i \in 2 .. Len(node[m].childs)
       PROVE  Leaves(h[node[m].childs[i]])
  <2>. DEFINE c == node[m].childs[i]
  <2>1. node[m].childs \in Seq(Names)
    BY <1>1, <1>2, Fields
  <2>2. c \in ToSet(node[m].childs)
    BY <1>13, <2>1 DEF ToSet
  <2>3. c \in Present /\ node[c].father = m
    BY <1>3, <2>2
  <2>4. Leaves(node[c])
    BY <1>5, <1>13 DEF ObjectGood, GroupGood
  <2>5. IsP(c)
    BY <1>13 DEF IsP
  <2>. SUFFICES Leaves(h[c])
    OBVIOUS
  <2>. HIDE DEF c
  <2>6. CASE node[c].type = "leaf"
    BY <1>12, <2>3, <2>6 DEF Leaves
  <2>7. CASE c \notin Descended[n]
    BY <1>10, <1>11, <2>3, <2>4, <2>7 DEF Leaves, Alike
  <2>8. CASE c \in Descended[n] /\ node[c].type # "leaf"
    <3>1. c = n
      BY <1>3, <1>6, <1>13, <2>3, <2>8
    <3>2. h[n].len = "empty" => Checked[n].exit
      BY <1>9, <2>3, <2>8, <3>1 DEF CheckedGood
    <3>3. QED
      BY <2>5, <2>8, <3>1, <3>2 DEF Leaves
  <2>9. QED
    BY <2>6, <2>7, <2>8
<1>14. ASSUME NEW m \in Present PROVE ObjectGood(h, m, Back, Z)
  <2>1. \A c \in ToSet(node[m].childs) : /\ h[c].type = node[c].type
                                         /\ LeafEnded(node[c]) => LeafEnded(h[c])
    BY <1>3, <1>12
  <2>2. CASE node[m].type = "leaf"
    <3>1. LeafGood(node, m, Back, Z)
      BY <1>5, <2>2 DEF ObjectGood
    <3>2. LeafGood(h, m, Back, Z)
      BY <1>8, <2>1, <2>2, <3>1 DEF LeafGood, Alike
    <3>3. QED
      BY <1>12, <2>2, <3>2 DEF ObjectGood
  <2>3. CASE node[m].type # "leaf" /\ m \in Descended[n]
    <3>1. GroupGood(node, m, Back, Z) /\ node[m].type \in Groups
      BY <1>5, <2>3 DEF ObjectGood
    <3>. DEFINE p == Checked[m].obj
    <3>2. /\ CheckedGood(m, Checked[m])
          /\ h[m].type = node[m].type /\ h[m].childs = p.childs
          /\ h[m].len = p.len /\ h[m].hasEmpty = p.hasEmpty
          /\ h[m].newType \in {node[m].newType, "leaf"}
          /\ h[m].newType = "leaf" => h[m].len = "empty"
      BY <1>9, <2>3
    <3>3. ToSet(p.childs) \subseteq ToSet(node[m].childs)
      BY <3>2 DEF CheckedGood
    <3>4. node[m].type # "and" \/ ~p.hasEmpty => HasLen(node[m].type, ToSet(p.childs), Z)
      <4>1. CASE node[m].type # "and"
        BY <3>1, <3>3, <4>1 DEF GroupGood, HasLen
      <4>2. CASE node[m].type = "and"
        BY <3>1, <3>2, <4>2 DEF GroupGood, CheckedGood
      <4>3. QED
        BY <4>1, <4>2
    <3>5. node[m].type = "prj" => \A i \in 2 .. Len(p.childs) : Leaves(h[p.childs[i]])
      BY <1>13, <3>2 DEF CheckedGood
    <3>6. /\ p.len # "none" /\ (p.len = "empty" => \A c \in ToSet(p.childs) : Thread(c) \in Back)
          /\ node[m].type = "and" /\ p.len = "empty" => p.hasEmpty /\ \A c \in ToSet(p.childs) : LeafEnded(h[c])
      BY <2>1, <3>2, <3>3 DEF CheckedGood
    <3>. HIDE DEF p
    <3>7. GroupGood(h, m, Back, Z)
      BY <3>1, <3>2, <3>4, <3>5, <3>6 DEF GroupGood
    <3>8. QED
      BY <2>3, <3>1, <3>2, <3>7 DEF ObjectGood
  <2>4. CASE node[m].type # "leaf" /\ m \notin Descended[n]
    <3>1. GroupGood(node, m, Back, Z) /\ node[m].type \in Groups
      BY <1>5, <2>4 DEF ObjectGood
    <3>2. /\ Alike(node[m], h[m]) /\ h[m].childs = node[m].childs
          /\ h[m].hasEmpty = node[m].hasEmpty
      BY <1>10, <1>11, <2>4
    <3>3. node[m].type = "prj" => \A i \in 2 .. Len(node[m].childs) : Leaves(h[node[m].childs[i]])
      BY <1>13
    <3>4. GroupGood(h, m, Back, Z)
      BY <2>1, <3>1, <3>2, <3>3 DEF GroupGood, Alike
    <3>5. QED
      BY <2>4, <3>1, <3>2, <3>4 DEF ObjectGood, Alike
  <2>5. QED
    BY <2>2, <2>3, <2>4
(* What is deleted are leaves that have returned.                          *)
<1>15. \A m \in Descended[n] : m \in Present /\ ToSet(node[m].childs) \ ToSet(h[m].childs) \subseteq gone
  BY <1>2, <1>6, <1>7 DEF CheckedGone
<1>16. ASSUME NEW c \in gone
       PROVE  c \in Present /\ c # root /\ Thread(c) \in Back /\ Thread(c) \in Threads /\ node[c].childs = <<>>
  <2>1. PICK m \in Descended[n] : c \in ToSet(node[m].childs) \ ToSet(Checked[m].obj.childs)
    BY DEF CheckedGone
  <2>2. m \in Present /\ c \in Present /\ c # root
    BY <1>3, <1>6, <2>1
  <2>3. node[m].type # "leaf"
    BY <1>5, <2>1, <2>2 DEF KidGood
  <2>4. node[c].type = "leaf" /\ Thread(c) \in Back
    BY <1>5, <2>1, <2>2, <2>3 DEF CheckedGood
  <2>5. node[c].childs = <<>>
    BY <1>5, <2>2, <2>4, EndedLeaf
  <2>6. QED
    BY <2>2, <2>4, <2>5, ThreadOfChild
<1>17. LeavesAlone(n, Waiting(stack, keepChilds), Depth)
  BY <1>1, CheckedTree
<1>18. \A m \in Present \ gone : ToSet(h[m].childs) \cap gone = {}
  BY <1>2, <1>17 DEF LeavesAlone
<1>19. \A m \in Present : /\ h[m].father = node[m].father
                          /\ ToSet(node[m].childs) \ gone \subseteq ToSet(h[m].childs)
                          /\ ToSet(h[m].childs) \subseteq DOMAIN node
  BY <1>3, <1>10, <1>11, <1>12, <1>15
<1>. HIDE DEF gone
<1>20. Good(Without2(h, gone), Unmapped(threadIDToNode, gone), Back, Z, K)
  BY <1>1, <1>2, <1>14, <1>16, <1>18, <1>19, DeletedGood
<1>21. QED
  BY <1>16, <1>20 DEF gone

-----------------------------------------------------------------------------
(* A thread returns.                                                       *)
LEMMA ReturnGood ==
  ASSUME NEW h, NEW M, NEW R, NEW Z, NEW K, Good(h, M, R, Z, K),
         NEW n \in In(h, M), h[n].type = "leaf", h[n].newType = "leaf",
         NEW S, R \subseteq S, S \subseteq R \cup {Thread(n)},
         NEW L, \A t \in Threads : L[t] \ S \subseteq K[t] \ R
  PROVE  Good(h, M, S, Z, L)
<1>1. \A m \in In(h, M) : m # n => (Thread(m) \in S <=> Thread(m) \in R)
  BY DEF In
<1>2. ASSUME NEW m \in In(h, M) PROVE ObjectGood(h, m, S, Z)
  <2>1. ObjectGood(h, m, R, Z)
    BY DEF Good, AllGood
  <2>2. CASE h[m].type = "leaf"
    <3>1. LeafGood(h, m, S, Z)
      BY <1>1, <2>1, <2>2 DEF ObjectGood, LeafGood
    <3>2. QED
      BY <2>1, <2>2, <3>1 DEF ObjectGood
  <2>3. CASE h[m].type # "leaf"
    <3>1. m # n
      BY <2>3
    <3>2. GroupGood(h, m, S, Z)
      BY <1>1, <2>1, <2>3, <3>1 DEF ObjectGood, GroupGood
    <3>3. QED
      BY <2>1, <2>3, <3>2 DEF ObjectGood
  <2>4. QED
    BY <2>2, <2>3
<1>3. HomeGood(h, M, S)
  BY DEF Good, HomeGood
<1>4. AwaitGood(h, M, S, L)
  BY DEF Good, AwaitGood
<1>5. QED
  BY <1>2, <1>3, <1>4 DEF Good, AllGood

(* One object gets another length, type to be or hasEmpty.                 *)
OneSet(h, f, g) ==
  /\ DOMAIN g = DOMAIN h /\ \A m \in DOMAIN h \ {f} : g[m] = h[m]
  /\ g[f].type = h[f].type /\ g[f].father = h[f].father /\ g[f].childs = h[f].childs

LEMMA OneSetGood ==
  ASSUME NEW h, NEW M, NEW R, NEW Z, NEW K, HeapTyped(h), MapTyped(h, M), Joined(h, M),
         Good(h, M, R, Z, K), NEW f \in In(h, M), NEW g, OneSet(h, f, g), ObjectGood(g, f, R, Z),
         LeafEnded(h[f]) => LeafEnded(g[f]), Leaves(h[f]) => Leaves(g[f])
  PROVE  Good(g, M, R, Z, K)
<1>1. \A m \in In(h, M) : m \in DOMAIN h /\ \A c \in ToSet(h[m].childs) : c \in DOMAIN h
  BY DEF In, Joined
<1>2. ASSUME NEW m \in In(h, M) PROVE ObjectGood(g, m, R, Z)
  <2>1. CASE m # f
    <3>1. SameGoods(h, g, m)
      BY <1>1, <2>1 DEF SameGoods, Alike, OneSet
    <3>2. ObjectGood(h, m, R, Z)
      BY DEF Good, AllGood
    <3>3. QED
      BY <1>1, <3>1, <3>2, ObjectSame
  <2>2. QED
    BY <2>1
<1>3. In(g, M) = In(h, M)
  BY DEF In, OneSet
<1>4. \A m \in In(h, M) : g[m].father = h[m].father /\ g[m].childs = h[m].childs
  BY <1>1 DEF OneSet
<1>5. QED
  BY <1>2, <1>3, <1>4, StillGood DEF AllGood, OneSet

(* setNodeLength ends the group f, or not.                                 *)
EndSet(h, f, R, g) ==
  /\ OneSet(h, f, g)
  /\ h[f].hasEmpty => g[f].hasEmpty
  /\ \/ g[f].len = h[f].len /\ g[f].newType = h[f].newType
     \/ /\ g[f].len = "empty" /\ g[f].newType = "leaf"
        /\ \A c \in ToSet(h[f].childs) : Thread(c) \in R
        /\ h[f].type = "and" => g[f].hasEmpty /\ \A c \in ToSet(h[f].childs) : LeafEnded(h[c])

LEMMA EndSetGood ==
  ASSUME NEW h, NEW M, NEW R, NEW Z, NEW K, HeapTyped(h), MapTyped(h, M), Joined(h, M),
         Good(h, M, R, Z, K), NEW f \in In(h, M), h[f].type # "leaf", f \notin ToSet(h[f].childs),
         NEW g, EndSet(h, f, R, g)
  PROVE  Good(g, M, R, Z, K)
<1>1. ObjectGood(h, f, R, Z) /\ GroupGood(h, f, R, Z) /\ h[f].type \in Groups
  BY DEF Good, AllGood, ObjectGood
<1>2. \A c \in ToSet(h[f].childs) : g[c] = h[c]
  BY DEF Joined, In, EndSet, OneSet
<1>3. \A i \in 2 .. Len(h[f].childs) : h[f].childs[i] \in ToSet(h[f].childs)
  <2>1. h[f].childs \in Seq(Names)
    BY Fields DEF In
  <2>2. \A s \in Seq(Names) : \A i \in 2 .. Len(s) : s[i] \in ToSet(s)
    BY DEF ToSet
  <2>3. QED
    BY <2>1, <2>2
<1>4. g[f].childs = h[f].childs /\ g[f].type = h[f].type
  BY DEF EndSet, OneSet
<1>5. /\ g[f].newType \in {g[f].type, "leaf"}
      /\ g[f].newType = "leaf" => g[f].len = "empty"
      /\ g[f].len # "none"
      /\ g[f].len = "empty" => \A c \in ToSet(h[f].childs) : Thread(c) \in R
      /\ g[f].type = "and" /\ g[f].len = "empty" => g[f].hasEmpty /\ \A c \in ToSet(h[f].childs) : LeafEnded(h[c])
  BY <1>1, <1>4 DEF GroupGood, EndSet
<1>6. g[f].type # "and" \/ ~g[f].hasEmpty => HasLen(g[f].type, ToSet(h[f].childs), Z)
  BY <1>1, <1>4 DEF GroupGood, EndSet
<1>7. GroupGood(g, f, R, Z)
  BY <1>1, <1>2, <1>3, <1>4, <1>5, <1>6 DEF GroupGood
<1>8. ObjectGood(g, f, R, Z)
  BY <1>1, <1>4, <1>7 DEF ObjectGood
<1>9. (LeafEnded(h[f]) => LeafEnded(g[f])) /\ (Leaves(h[f]) => Leaves(g[f]))
  BY <1>4 DEF LeafEnded, Leaves, EndSet
<1>10. QED
  BY <1>8, <1>9, OneSetGood DEF EndSet

(* A father's children that are leaves with a length have returned, and a  *)
(* child that is a group has none.                                         *)
LEMMA LengthOfChild ==
  ASSUME NEW h, NEW M, NEW R, NEW Z, NEW K, Joined(h, M), Good(h, M, R, Z, K), NEW f \in In(h, M),
         NEW c \in ToSet(h[f].childs)
  PROVE  /\ h[c].type = "leaf" /\ h[c].len # "more" => Thread(c) \in R
         /\ h[c].len = "none" => h[c].type = "leaf" /\ Thread(c) \in Z
<1>1. ObjectGood(h, c, R, Z)
  BY DEF Joined, Good, AllGood
<1>2. h[c].type # "leaf" => h[c].len # "none"
  BY <1>1 DEF ObjectGood, GroupGood
<1>3. QED
  BY <1>1, <1>2, EndedLeaf

(* setNodeLength of n, a leaf that has returned, child of the group f.     *)
EndReady(h, M, R, Z, K, f, n) ==
  /\ HeapTyped(h) /\ MapTyped(h, M) /\ Joined(h, M) /\ Good(h, M, R, Z, K)
  /\ f \in In(h, M) /\ h[f].type \in Groups /\ f \notin ToSet(h[f].childs) /\ n \in ToSet(h[f].childs)

LEMMA EndReadyFacts ==
  ASSUME NEW h, NEW M, NEW R, NEW Z, NEW K, NEW f, NEW n, EndReady(h, M, R, Z, K, f, n)
  PROVE  LET s == h[f].childs
         IN /\ f \in DOMAIN h /\ f # Null /\ n \in DOMAIN h /\ h[n].father = f
            /\ s \in Seq(Names) /\ \A i \in DOMAIN s : s[i] \in ToSet(s) /\ s[i] \in DOMAIN h
            /\ \A c \in ToSet(s) : /\ h[c].len \in Lengths /\ c # f
                                   /\ h[c].type = "leaf" /\ h[c].len # "more" => Thread(c) \in R
                                   /\ h[c].len = "none" => h[c].type = "leaf" /\ Thread(c) \in Z
            /\ GroupGood(h, f, R, Z)
<1>1. f \in DOMAIN h /\ f # Null /\ h[f].childs \in Seq(Names)
  BY Fields, NullIsNoName DEF EndReady, In
<1>2. \A c \in ToSet(h[f].childs) : c \in DOMAIN h /\ h[c].father = f /\ h[c].len \in Lengths
  BY Fields DEF EndReady, Joined, In
<1>3. GroupGood(h, f, R, Z)
  BY DEF EndReady, Good, AllGood, ObjectGood, Groups
<1>4. \A c \in ToSet(h[f].childs) : /\ h[c].type = "leaf" /\ h[c].len # "more" => Thread(c) \in R
                                    /\ h[c].len = "none" => h[c].type = "leaf" /\ Thread(c) \in Z
  BY LengthOfChild DEF EndReady
<1>5. QED
  BY <1>1, <1>2, <1>3, <1>4 DEF EndReady, ToSet

(* Counting those that have ended, A, and those that have set NONE, B.     *)
Size(s) == Len(s)

LEMMA EndCounts ==
  ASSUME NEW s \in Seq(Names), NEW A \in SUBSET DOMAIN s, NEW B \in SUBSET DOMAIN s,
         \A i \in A : i \notin B
  PROVE  /\ Cardinality(A) \in Nat /\ Cardinality(B) \in Nat
         /\ Cardinality(A) > 0 <=> A # {}
         /\ Cardinality(B) = Size(s) <=> B = DOMAIN s
         /\ Cardinality(A) + Cardinality(B) = Size(s) <=> (\A i \in DOMAIN s : i \in A \/ i \in B)
<1>1. A \cap B = {}
  OBVIOUS
<1>2. /\ Cardinality(A) \in Nat /\ Cardinality(B) \in Nat
      /\ Cardinality(A) > 0 <=> A # {}
      /\ Cardinality(B) = Size(s) <=> B = DOMAIN s
      /\ Cardinality(A) + Cardinality(B) = Size(s) <=> A \cup B = DOMAIN s
  BY <1>1, Counting DEF Size
<1>3. A \cup B = DOMAIN s <=> \A i \in DOMAIN s : i \in A \/ i \in B
  OBVIOUS
<1>4. QED
  BY <1>2, <1>3

(* What an end does to f.                                                  *)
LEMMA EndSets ==
  ASSUME NEW h, NEW M, NEW R, NEW Z, NEW K, NEW f, NEW n, EndReady(h, M, R, Z, K, f, n),
         NEW hasEmpty \in BOOLEAN, h[f].hasEmpty => hasEmpty, NEW g, OneSet(h, f, g),
         g[f].len = h[f].len, g[f].newType = h[f].newType, g[f].hasEmpty = hasEmpty, HeapTyped(g)
  PROVE  LET k == [g EXCEPT ![f].len = "empty", ![f].newType = "leaf"]
         IN /\ EndSet(h, f, R, g)
            /\ /\ \A c \in ToSet(h[f].childs) : Thread(c) \in R
               /\ h[f].type = "and" => hasEmpty /\ \A c \in ToSet(h[f].childs) : LeafEnded(h[c])
               => EndSet(h, f, R, k)
<1>. DEFINE k == [g EXCEPT ![f].len = "empty", ![f].newType = "leaf"]
<1>1. f \in DOMAIN h /\ DOMAIN g = DOMAIN h
  BY EndReadyFacts DEF OneSet
<1>2. g[f] \in Objects
  BY <1>1 DEF HeapTyped
<1>3. /\ DOMAIN k = DOMAIN h /\ \A m \in DOMAIN h \ {f} : k[m] = g[m]
      /\ k[f] = [g[f] EXCEPT !.len = "empty", !.newType = "leaf"]
  BY <1>1
<1>. HIDE DEF k
<1>4. /\ k[f].type = g[f].type /\ k[f].father = g[f].father /\ k[f].childs = g[f].childs
      /\ k[f].hasEmpty = hasEmpty /\ k[f].len = "empty" /\ k[f].newType = "leaf"
  BY <1>2, <1>3 DEF Objects
<1>5. OneSet(h, f, k)
  BY <1>3, <1>4 DEF OneSet
<1>6. QED
  BY <1>4, <1>5 DEF EndSet, k

(* What setAndLen does to f, when no NONE goes up.                         *)
AndEnd(h, f) ==
  LET empties == Number(h[f].childs, LAMBDA c : IsEmptyLeaf(h[c]))
      nones == Number(h[f].childs, LAMBDA c : h[c].len = "none")
      hasEmpty == h[f].hasEmpty \/ empties > 0
      h2 == [h EXCEPT ![f].hasEmpty = hasEmpty]
  IN IF empties + (IF hasEmpty THEN nones ELSE 0) = Len(h[f].childs)
     THEN Result([h2 EXCEPT ![f].len = "empty", ![f].newType = "leaf"], f, prjNode)
     ELSE Result(h2, changedNode, prjNode)

LEMMA AndStays ==
  ASSUME NEW h, NEW M, NEW R, NEW Z, NEW K, NEW f, NEW n, EndReady(h, M, R, Z, K, f, n),
         h[f].type = "and", h[n].len = "none" => Thread(n) \in Z,
         NEW top \in Nat, NEW D \in [Owners -> 0 .. top], Deep(h, D)
  PROVE  setAndLen(h, n) = AndEnd([m \in DOMAIN h |-> h[m]], f)
<1>. DEFINE up == [c \in DOMAIN h |->
                     {e \in {h[c].father} \cap DOMAIN h :
                        /\ h[e].type = "and" /\ ~h[e].hasEmpty
                        /\ h[n].len = "none"
                        /\ \A d \in ToSet(h[e].childs) : d = c \/ h[d].len = "none"}]
            Nones == Reach(up)[n] \ {n}
            h1 == [m \in DOMAIN h |-> IF m \in Nones THEN [h[m] EXCEPT !.len = "none"] ELSE h[m]]
            last == CHOOSE m \in Reach(up)[n] : h[m].father \notin Nones
            e == h[last].father
            s == h[f].childs
            depth == [m \in DOMAIN h |-> top - D[Thread(m)]]
<1>1. setAndLen(h, n) =
        IF e = Null \/ h[e].type # "and" THEN Result(h1, changedNode, prjNode) ELSE AndEnd(h1, e)
  BY Zenon DEF setAndLen, AndEnd
<1>2. /\ f \in DOMAIN h /\ f # Null /\ n \in DOMAIN h /\ h[n].father = f /\ n \in ToSet(s)
      /\ \A c \in ToSet(s) : h[c].len = "none" => Thread(c) \in Z
      /\ GroupGood(h, f, R, Z) /\ HeapTyped(h)
  <2>1. n \in ToSet(s) /\ HeapTyped(h)
    BY DEF EndReady
  <2>. HIDE DEF h1, last, Nones, up, depth
  <2>2. QED
    BY <2>1, EndReadyFacts
<1>. HIDE DEF s
(* A branch of the and has a length: no NONE goes up.                      *)
<1>3. up[n] = {}
  <2>1. SUFFICES ASSUME ~h[f].hasEmpty, h[n].len = "none",
                        \A d \in ToSet(s) : d = n \/ h[d].len = "none"
                 PROVE  FALSE
    BY <1>2 DEF s
  <2>2. HasLen("and", ToSet(s), Z)
    BY <1>2, <2>1 DEF GroupGood, s
  <2>3. PICK c \in ToSet(s) : Thread(c) \notin Z
    BY <2>2 DEF HasLen
  <2>4. QED
    BY <1>2, <2>1, <2>3
<1>4. Reach(up)[n] = {n}
  <2>1. /\ \A m \in DOMAIN h : up[m] \subseteq {h[m].father} \cap DOMAIN h
        /\ up \in [DOMAIN h -> SUBSET DOMAIN h]
    OBVIOUS
  <2>. HIDE DEF up
  <2>2. /\ \A m \in DOMAIN h : m \in Names /\ Thread(m) \in Owners /\ D[Thread(m)] \in 0 .. top
        /\ Null \notin DOMAIN h
    <3>1. \A m \in DOMAIN h : m \in Names /\ Thread(m) \in Owners
      BY <1>2, Fields
    <3>2. QED
      BY <3>1, NullIsNoName
  <2>3. \A m \in DOMAIN h : h[m].father \in DOMAIN h => D[Thread(h[m].father)] < D[Thread(m)]
    BY <2>2 DEF Deep
  <2>4. Descends(DOMAIN h, up, depth, top)
    <3>1. depth \in [DOMAIN h -> 0 .. top]
      BY <2>2
    <3>2. ASSUME NEW m \in DOMAIN h, NEW c \in up[m] PROVE depth[m] < depth[c]
      <4>1. c = h[m].father /\ c \in DOMAIN h
        BY <2>1
      <4>2. QED
        BY <2>2, <2>3, <4>1
    <3>3. QED
      BY <2>1, <3>1, <3>2 DEF Descends
  <2>. HIDE DEF depth
  <2>5. Reach(up)[n] = {n} \cup UNION {Reach(up)[c] : c \in up[n]}
    BY <1>2, <2>4, ReachEquation
  <2>6. QED
    BY <1>3, <2>5
<1>. HIDE DEF up
<1>5. Nones = {} /\ last = n /\ e = f
  <2>1. Nones = {}
    BY <1>4
  <2>2. last = n
    BY <1>4, <2>1
  <2>3. QED
    BY <1>2, <2>1, <2>2
<1>6. h1 = [m \in DOMAIN h |-> h[m]]
  BY <1>5
<1>. HIDE DEF Nones, last, h1
<1>7. QED
  BY <1>1, <1>2, <1>5, <1>6

LEMMA AndEnds ==
  ASSUME NEW h, NEW M, NEW R, NEW Z, NEW K, NEW f, NEW n, EndReady(h, M, R, Z, K, f, n),
         h[f].type = "and", NEW h1, h1 = [m \in DOMAIN h |-> h[m]]
  PROVE  EndSet(h, f, R, AndEnd(h1, f).node) /\ AndEnd(h1, f).prjNode = prjNode
<1>. DEFINE empties == Number(h1[f].childs, LAMBDA c : IsEmptyLeaf(h1[c]))
            nones == Number(h1[f].childs, LAMBDA c : h1[c].len = "none")
            hasEmpty == h1[f].hasEmpty \/ empties > 0
            h2 == [h1 EXCEPT ![f].hasEmpty = hasEmpty]
            k == [h2 EXCEPT ![f].len = "empty", ![f].newType = "leaf"]
            r2 == Result(k, f, prjNode)
            r3 == Result(h2, changedNode, prjNode)
            s == h[f].childs
            A == {i \in DOMAIN s : IsEmptyLeaf(h[s[i]])}
            B == {i \in DOMAIN s : h[s[i]].len = "none"}
<1>1. AndEnd(h1, f) = IF empties + (IF hasEmpty THEN nones ELSE 0) = Len(h1[f].childs) THEN r2 ELSE r3
  BY Zenon DEF AndEnd
<1>2. /\ f \in DOMAIN h /\ n \in ToSet(s)
      /\ s \in Seq(Names) /\ \A i \in DOMAIN s : s[i] \in ToSet(s) /\ s[i] \in DOMAIN h
      /\ \A c \in ToSet(s) : /\ h[c].type = "leaf" /\ h[c].len # "more" => Thread(c) \in R
                             /\ h[c].len = "none" => h[c].type = "leaf"
      /\ HeapTyped(h)
  <2>1. n \in ToSet(s) /\ HeapTyped(h)
    BY DEF EndReady
  <2>. HIDE DEF h2, k, r2, r3, empties, nones, hasEmpty, A, B
  <2>2. QED
    BY <2>1, EndReadyFacts
<1>9. /\ Cardinality(A) \in Nat /\ Cardinality(B) \in Nat
      /\ Cardinality(A) > 0 <=> A # {}
      /\ Cardinality(A) + Cardinality(B) = Size(s) <=> (\A i \in DOMAIN s : i \in A \/ i \in B)
  <2>1. A \in SUBSET DOMAIN s /\ B \in SUBSET DOMAIN s /\ \A i \in A : i \notin B
    BY DEF IsEmptyLeaf
  <2>2. s \in Seq(Names)
    BY <1>2
  <2>. HIDE DEF A, B, s, h2, k, r2, r3, empties, nones, hasEmpty
  <2>3. QED
    BY <2>1, <2>2, EndCounts
<1>. HIDE DEF s
<1>6. DOMAIN h1 = DOMAIN h /\ \A m \in DOMAIN h : h1[m] = h[m]
  OBVIOUS
<1>7. h1[f] = h[f] /\ h1[f].childs = s /\ s = h[f].childs
  BY <1>2, <1>6 DEF s
<1>8. empties = Cardinality(A) /\ nones = Cardinality(B)
  <2>1. \A i \in DOMAIN s : h1[s[i]] = h[s[i]]
    BY <1>2, <1>6
  <2>2. empties = Cardinality({i \in DOMAIN s : IsEmptyLeaf(h1[s[i]])}) /\ nones = Cardinality({i \in DOMAIN s : h1[s[i]].len = "none"})
    BY <1>7 DEF Number
  <2>3. {i \in DOMAIN s : IsEmptyLeaf(h1[s[i]])} = A /\ {i \in DOMAIN s : h1[s[i]].len = "none"} = B
    BY <2>1
  <2>. HIDE DEF empties, nones, A, B
  <2>4. QED
    BY <2>2, <2>3
<1>10. hasEmpty \in BOOLEAN /\ (h[f].hasEmpty => hasEmpty) /\ (empties > 0 => hasEmpty)
  BY <1>7
<1>11. empties + (IF hasEmpty THEN nones ELSE 0) = Len(s) => hasEmpty /\ \A i \in DOMAIN s : i \in A \/ i \in B
  <2>1. Len(s) \in Nat /\ Len(s) # 0
    BY <1>2 DEF ToSet
  <2>2. Size(s) = Len(s)
    BY DEF Size
  <2>. DEFINE l == Len(s)
  <2>. HIDE DEF hasEmpty, empties, nones, A, B, l
  <2>3. empties + (IF hasEmpty THEN nones ELSE 0) = l => hasEmpty /\ \A i \in DOMAIN s : i \in A \/ i \in B
    BY <1>8, <1>9, <1>10, <2>1, <2>2 DEF l
  <2>4. QED
    BY <2>3 DEF l
<1>12. OneSet(h, f, h2) /\ h2[f].len = h[f].len /\ h2[f].newType = h[f].newType /\ (h2[f].hasEmpty <=> hasEmpty)
       /\ HeapTyped(h2)
  <2>1. /\ DOMAIN h2 = DOMAIN h /\ \A m \in DOMAIN h \ {f} : h2[m] = h[m]
        /\ h2[f] = [h[f] EXCEPT !.hasEmpty = hasEmpty]
    BY <1>2, <1>6
  <2>2. h[f] \in Objects
    BY <1>2 DEF HeapTyped
  <2>. HIDE DEF h2, hasEmpty
  <2>3. h2[f] \in Objects /\ h2[f].len = h[f].len /\ h2[f].newType = h[f].newType /\ (h2[f].hasEmpty <=> hasEmpty)
        /\ h2[f].type = h[f].type /\ h2[f].father = h[f].father /\ h2[f].childs = h[f].childs
    BY <1>10, <2>1, <2>2 DEF Objects
  <2>4. QED
    BY <1>2, <2>1, <2>3 DEF OneSet, HeapTyped
<1>13. (\A i \in DOMAIN s : i \in A \/ i \in B) => \A c \in ToSet(s) : Thread(c) \in R /\ LeafEnded(h[c])
  BY <1>2 DEF ToSet, IsEmptyLeaf, LeafEnded
<1>. HIDE DEF A, B, hasEmpty, h2, empties, nones, k
<1>14. /\ EndSet(h, f, R, h2)
       /\ /\ \A c \in ToSet(s) : Thread(c) \in R
          /\ h[f].type = "and" => hasEmpty /\ \A c \in ToSet(s) : LeafEnded(h[c])
          => EndSet(h, f, R, k)
  <2>1. h2[f].hasEmpty = hasEmpty
    <3>1. h2[f].hasEmpty \in BOOLEAN
      BY <1>2, <1>12, Fields DEF OneSet
    <3>2. QED
      BY <1>10, <1>12, <3>1
  <2>2. QED
    BY <1>7, <1>10, <1>12, <2>1, EndSets DEF k
<1>15. AndEnd(h1, f) = r3 \/ (AndEnd(h1, f) = r2 /\ EndSet(h, f, R, k))
  BY <1>1, <1>7, <1>11, <1>13, <1>14
<1>16. QED
  BY <1>14, <1>15, ResultFields

(* Nothing changes, or f has ended.                                        *)
LEMMA EndOrNot ==
  ASSUME NEW h, NEW M, NEW R, NEW Z, NEW K, NEW f, NEW n, EndReady(h, M, R, Z, K, f, n),
         h[f].type # "and"
  PROVE  /\ EndSet(h, f, R, h)
         /\ (\A c \in ToSet(h[f].childs) : Thread(c) \in R)
            => EndSet(h, f, R, [h EXCEPT ![f].len = "empty", ![f].newType = "leaf"])
<1>1. f \in DOMAIN h /\ HeapTyped(h)
  BY EndReadyFacts DEF EndReady
<1>2. h[f].hasEmpty \in BOOLEAN
  BY <1>1, Fields
<1>3. OneSet(h, f, h)
  BY DEF OneSet
<1>4. QED
  BY <1>1, <1>2, <1>3, EndSets

LEMMA PalEnds ==
  ASSUME NEW h, NEW M, NEW R, NEW Z, NEW K, NEW f, NEW n, EndReady(h, M, R, Z, K, f, n),
         h[f].type = "pal"
  PROVE  EndSet(h, f, R, setPalLen(h, f).node) /\ setPalLen(h, f).prjNode = prjNode
<1>. DEFINE s == h[f].childs
            empties == Number(s, LAMBDA c : IsEmptyLeaf(h[c]))
            nones == Number(s, LAMBDA c : h[c].len = "none")
            A == {i \in DOMAIN s : IsEmptyLeaf(h[s[i]])}
            B == {i \in DOMAIN s : h[s[i]].len = "none"}
            r1 == Result([h EXCEPT ![f].len = "none"], changedNode, prjNode)
            r2 == Result([h EXCEPT ![f].len = "empty", ![f].newType = "leaf"], f, prjNode)
            r3 == Result(h, changedNode, prjNode)
<1>1. setPalLen(h, f) = IF nones = Len(s) THEN r1 ELSE IF empties + nones = Len(s) THEN r2 ELSE r3
  BY Zenon DEF setPalLen
<1>2. n \in ToSet(s)
  BY DEF EndReady
<1>. HIDE DEF r1, r2, r3, empties, nones, A, B
<1>3. /\ s \in Seq(Names) /\ \A i \in DOMAIN s : s[i] \in ToSet(s)
      /\ \A c \in ToSet(s) : /\ h[c].type = "leaf" /\ h[c].len # "more" => Thread(c) \in R
                             /\ h[c].len = "none" => Thread(c) \in Z
      /\ GroupGood(h, f, R, Z)
  BY EndReadyFacts
<1>4. \A c \in ToSet(s) : Thread(c) \notin Z
  BY <1>3 DEF GroupGood, HasLen
<1>5. B = {}
  BY <1>3, <1>4 DEF B
<1>6. empties = Cardinality(A) /\ nones = Cardinality(B)
  BY DEF Number, empties, nones, A, B
<1>7. DOMAIN s # {} /\ A \in SUBSET DOMAIN s /\ B \in SUBSET DOMAIN s /\ \A i \in A : i \notin B
  BY <1>2, <1>5 DEF ToSet, A
<1>. HIDE DEF s
<1>8. /\ Cardinality(B) = Size(s) <=> B = DOMAIN s
      /\ Cardinality(A) + Cardinality(B) = Size(s) <=> (\A i \in DOMAIN s : i \in A \/ i \in B)
  BY <1>3, <1>7, EndCounts
<1>9. Size(s) = Len(s)
  BY DEF Size
<1>. DEFINE l == Len(s)
<1>. HIDE DEF l
<1>10. nones # l /\ (empties + nones = l => \A i \in DOMAIN s : i \in A)
  BY <1>5, <1>6, <1>7, <1>8, <1>9 DEF l
<1>11. (\A i \in DOMAIN s : i \in A) => \A c \in ToSet(s) : Thread(c) \in R
  BY <1>3 DEF ToSet, A, IsEmptyLeaf
<1>12. setPalLen(h, f) = r3 \/ (setPalLen(h, f) = r2 /\ \A c \in ToSet(s) : Thread(c) \in R)
  BY <1>1, <1>10, <1>11 DEF l
<1>13. EndSet(h, f, R, h)
       /\ ((\A c \in ToSet(s) : Thread(c) \in R)
           => EndSet(h, f, R, [h EXCEPT ![f].len = "empty", ![f].newType = "leaf"]))
  BY EndOrNot DEF s
<1>14. QED
  BY <1>12, <1>13, ResultFields DEF r2, r3

LEMMA PrjEnds ==
  ASSUME NEW h, NEW M, NEW R, NEW Z, NEW K, NEW f, NEW n, EndReady(h, M, R, Z, K, f, n),
         h[f].type = "prj"
  PROVE  EndSet(h, f, R, setPrjLen(h, f, n).node) /\ setPrjLen(h, f, n).prjNode \in {prjNode, f}
<1>. DEFINE k == [h EXCEPT ![f].len = "empty", ![f].newType = "leaf"]
            r1 == Result(k, changedNode, prjNode)
            r2 == Result(h, changedNode, f)
            r3 == Result(h, changedNode, prjNode)
            ended == \A c \in ToSet(h[f].childs) : h[c].len # "more" /\ h[c].type = "leaf"
<1>1. setPrjLen(h, f, n) \in {r2, r3} \/ (setPrjLen(h, f, n) = r1 /\ ended)
  BY DEF setPrjLen
<1>. HIDE DEF k, r1, r2, r3
<1>2. ended => \A c \in ToSet(h[f].childs) : Thread(c) \in R
  BY EndReadyFacts
<1>3. EndSet(h, f, R, h) /\ ((\A c \in ToSet(h[f].childs) : Thread(c) \in R) => EndSet(h, f, R, k))
  BY EndOrNot DEF k
<1>. HIDE DEF ended
<1>4. CASE setPrjLen(h, f, n) = r1 /\ ended
  BY <1>2, <1>3, <1>4, ResultFields DEF r1
<1>5. CASE setPrjLen(h, f, n) \in {r2, r3}
  BY <1>3, <1>5, ResultFields DEF r2, r3
<1>6. QED
  BY <1>1, <1>4, <1>5

LEMMA LengthGood ==
  ASSUME NEW h, NEW M, NEW R, NEW Z, NEW K, HeapTyped(h), MapTyped(h, M), Joined(h, M), Good(h, M, R, Z, K),
         NEW n \in In(h, M), h[n].type = "leaf", h[n].newType = "leaf", h[n].len = "more", Thread(n) \in R,
         NEW len \in {"empty", "none"}, len = "none" => Thread(n) \in Z,
         NEW f \in In(h, M), h[n].father = f, n \in ToSet(h[f].childs), h[f].type \in Groups,
         NEW top \in Nat, NEW D \in [Owners -> 0 .. top], Deep(h, D)
  PROVE  LET r == setNodeLength(h, n, len)
         IN /\ Good(r.node, M, R, Z, K)
            /\ DOMAIN r.node = DOMAIN h
            /\ \A m \in DOMAIN h : r.node[m].type = h[m].type /\ r.node[m].childs = h[m].childs
            /\ \A m \in DOMAIN h : h[m].type = "leaf" => r.node[m].newType = h[m].newType
            /\ r.prjNode = prjNode \/ (r.prjNode = f /\ h[f].type = "prj")
<1>. DEFINE k == [h EXCEPT ![n].len = len]
            r == setNodeLength(h, n, len)
            k1 == [m \in DOMAIN k |-> k[m]]
<1>1. /\ n \in DOMAIN h /\ f \in DOMAIN h /\ f # Null /\ h[n] \in Objects /\ f # n
  <2>1. n \in DOMAIN h /\ f \in DOMAIN h /\ f # n
    BY DEF In, Groups
  <2>2. QED
    BY <2>1, NullIsNoName DEF HeapTyped
<1>2. /\ DOMAIN k = DOMAIN h /\ \A m \in DOMAIN h \ {n} : k[m] = h[m]
      /\ k[n] = [h[n] EXCEPT !.len = len]
  BY <1>1
<1>. HIDE DEF k
<1>3. /\ k[n] \in Objects /\ k[n].type = "leaf" /\ k[n].newType = "leaf" /\ k[n].father = f
      /\ k[n].childs = h[n].childs /\ k[n].len = len /\ k[n].hasEmpty = h[n].hasEmpty
  BY <1>1, <1>2 DEF Objects, Lengths
<1>4. HeapTyped(k) /\ OneSet(h, n, k)
  BY <1>2, <1>3 DEF HeapTyped, OneSet
<1>5. ObjectGood(k, n, R, Z)
  <2>1. LeafGood(h, n, R, Z)
    BY DEF Good, AllGood, ObjectGood
  <2>2. LeafGood(k, n, R, Z)
    BY <1>3, <2>1 DEF LeafGood
  <2>3. QED
    BY <1>3, <2>2 DEF ObjectGood
<1>6. Good(k, M, R, Z, K)
  BY <1>3, <1>4, <1>5, OneSetGood DEF LeafEnded, Leaves
<1>7. /\ In(k, M) = In(h, M) /\ MapTyped(k, M) /\ Joined(k, M) /\ Deep(k, D)
      /\ \A m \in DOMAIN h : k[m].type = h[m].type /\ k[m].newType = h[m].newType
                             /\ k[m].father = h[m].father /\ k[m].childs = h[m].childs
  <2>1. \A m \in DOMAIN h : k[m].type = h[m].type /\ k[m].newType = h[m].newType
                             /\ k[m].father = h[m].father /\ k[m].childs = h[m].childs
    BY <1>2, <1>3
  <2>2. In(k, M) = In(h, M) /\ In(h, M) \subseteq DOMAIN h
    BY <1>2 DEF In
  <2>3. MapTyped(k, M)
    BY <1>2 DEF MapTyped
  <2>4. Joined(k, M)
    BY <2>1, <2>2 DEF Joined
  <2>5. Deep(k, D)
    BY <1>2, <2>1 DEF Deep
  <2>6. QED
    BY <2>1, <2>2, <2>3, <2>4, <2>5
<1>8. f \notin ToSet(h[f].childs)
  <2>1. SUFFICES ASSUME f \in ToSet(h[f].childs) PROVE FALSE
    OBVIOUS
  <2>2. h[f].father = f
    BY <2>1 DEF Joined
  <2>3. D[Thread(f)] < D[Thread(f)]
    BY <1>1, <2>2 DEF Deep
  <2>4. D[Thread(f)] \in 0 .. top
    BY <1>1, Fields
  <2>5. QED
    BY <2>3, <2>4
<1>9. EndReady(k, M, R, Z, K, f, n)
  BY <1>1, <1>4, <1>6, <1>7, <1>8 DEF EndReady
<1>10. EndSet(k, f, R, r.node) /\ (r.prjNode = prjNode \/ (r.prjNode = f /\ h[f].type = "prj"))
  <2>1. CASE h[f].type = "and"
    <3>1. r = setAndLen(k, n)
      BY <1>1, <2>1 DEF setNodeLength, k
    <3>2. k[n].len = "none" => Thread(n) \in Z
      BY <1>3
    <3>3. setAndLen(k, n) = AndEnd(k1, f)
      BY <1>1, <1>7, <1>9, <2>1, <3>2, AndStays
    <3>. HIDE DEF r, k1
    <3>4. EndSet(k, f, R, AndEnd(k1, f).node) /\ AndEnd(k1, f).prjNode = prjNode
      BY <1>1, <1>7, <1>9, <2>1, AndEnds DEF k1
    <3>5. QED
      BY <3>1, <3>3, <3>4
  <2>2. CASE h[f].type = "pal"
    <3>1. r = setPalLen(k, f)
      BY <1>1, <2>2 DEF setNodeLength, k
    <3>. HIDE DEF r
    <3>2. QED
      BY <1>1, <1>7, <1>9, <2>2, <3>1, PalEnds
  <2>3. CASE h[f].type = "prj"
    <3>1. r = setPrjLen(k, f, n)
      BY <1>1, <2>3 DEF setNodeLength, k
    <3>. HIDE DEF r
    <3>2. QED
      BY <1>1, <1>7, <1>9, <2>3, <3>1, PrjEnds
  <2>4. QED
    BY <2>1, <2>2, <2>3 DEF Groups
<1>. HIDE DEF r
<1>11. Good(r.node, M, R, Z, K)
  BY <1>1, <1>4, <1>6, <1>7, <1>8, <1>10, EndSetGood DEF Groups
<1>12. /\ DOMAIN r.node = DOMAIN k /\ \A m \in DOMAIN k \ {f} : r.node[m] = k[m]
       /\ r.node[f].type = k[f].type /\ r.node[f].childs = k[f].childs
  BY <1>10 DEF EndSet, OneSet
<1>13. QED
  BY <1>1, <1>2, <1>7, <1>10, <1>11, <1>12 DEF Groups, r

-----------------------------------------------------------------------------
(* A slice creates threads below n, a leaf that has no children.           *)
Newborn(kids) == {<<k, 0>> : k \in ToSet(kids)}
GetsKids(h, n, kids, g) ==
  /\ DOMAIN g = DOMAIN h \cup Newborn(kids)
  /\ \A m \in DOMAIN h \ {n} : g[m] = h[m]
  /\ g[n].father = h[n].father /\ g[n].type = h[n].type /\ g[n].len = h[n].len
  /\ g[n].newType = h[n].newType /\ g[n].hasEmpty = h[n].hasEmpty
  /\ g[n] = [h[n] EXCEPT !.childs = g[n].childs]
  /\ g[n].childs \in Seq(Names) /\ ToSet(g[n].childs) = Newborn(kids)
  /\ kids = <<>> => g[n].childs = <<>>
  /\ \A m \in Newborn(kids) : /\ g[m].father = n /\ g[m].type = "leaf" /\ g[m].newType = "leaf"
                              /\ g[m].childs = <<>> /\ g[m].len = "more"

LEMMA LeavesAdded ==
  ASSUME NEW h, HeapTyped(h), NEW n \in DOMAIN h, h[n].childs = <<>>, NEW kids \in Seq(Threads),
         Newborn(kids) \cap DOMAIN h = {}
  PROVE  GetsKids(h, n, kids, AddLeaves(h, n, kids))
<1>. DEFINE g == AddLeaves(h, n, kids)
            new == [i \in DOMAIN kids |-> <<kids[i], 0>>]
<1>1. g = [m \in DOMAIN h \cup ToSet(new) |->
             IF m \in ToSet(new) THEN LeafNode(n, <<>>)
             ELSE IF m = n THEN [h[m] EXCEPT !.childs = @ \o new] ELSE h[m]]
  BY DEF AddLeaves
<1>2. ToSet(new) = Newborn(kids) /\ new \in Seq(Names) /\ (kids = <<>> => new = <<>>)
  <2>1. DOMAIN kids = 1 .. Len(kids) /\ Len(kids) \in Nat /\ \A i \in DOMAIN kids : kids[i] \in Threads
    OBVIOUS
  <2>2. \A i \in DOMAIN kids : <<kids[i], 0>> \in Names
    BY <2>1 DEF Names
  <2>3. new \in Seq(Names)
    BY <2>1, <2>2
  <2>4. ToSet(new) = Newborn(kids)
    BY DEF ToSet, Newborn
  <2>5. kids = <<>> => new = <<>>
    OBVIOUS
  <2>6. QED
    BY <2>3, <2>4, <2>5
<1>. HIDE DEF g, new
<1>3. /\ DOMAIN g = DOMAIN h \cup Newborn(kids)
      /\ \A m \in Newborn(kids) : g[m] = LeafNode(n, <<>>)
      /\ \A m \in DOMAIN h \ {n} : g[m] = h[m]
      /\ g[n] = [h[n] EXCEPT !.childs = @ \o new]
  BY <1>1, <1>2
<1>4. h[n] \in Objects /\ h[n].childs \o new = new
  <2>1. <<>> \o new = new
    BY <1>2
  <2>2. QED
    BY <2>1 DEF HeapTyped
<1>5. /\ g[n].father = h[n].father /\ g[n].type = h[n].type /\ g[n].len = h[n].len
      /\ g[n].newType = h[n].newType /\ g[n].hasEmpty = h[n].hasEmpty
      /\ g[n].childs = new /\ g[n] = [h[n] EXCEPT !.childs = g[n].childs]
  <2>1. g[n] = [h[n] EXCEPT !.childs = new]
    BY <1>3, <1>4
  <2>2. QED
    BY <1>4, <2>1 DEF Objects
<1>6. \A m \in Newborn(kids) : /\ g[m].father = n /\ g[m].type = "leaf" /\ g[m].newType = "leaf"
                               /\ g[m].childs = <<>> /\ g[m].len = "more"
  BY <1>3 DEF LeafNode, Node
<1>7. QED
  BY <1>2, <1>3, <1>5, <1>6 DEF GetsKids, g

(* They wait for the renewal of n, which becomes a group of them.          *)
Born(h, n, kids, make) == [AddLeaves(h, n, kids) EXCEPT ![n].newType = make]

LEMMA BornGood ==
  ASSUME NEW h, NEW M, NEW U \in SUBSET Threads, NEW R, NEW Z, NEW K,
         HeapTyped(h), MapTyped(h, M), Joined(h, M), AllNamed(h, M, U), Good(h, M, R, Z, K),
         NEW n \in In(h, M), h[n].type = "leaf", h[n].newType = "leaf", h[n].len = "more",
         Thread(n) \in Threads, Thread(n) \notin R,
         NEW kids \in Seq(Threads), ToSet(kids) \subseteq U,
         NEW make \in Groups, HasLen(make, Newborn(kids), Z),
         NEW L, L[Thread(n)] \subseteq ToSet(kids), \A t \in Threads \ {Thread(n)} : L[t] = K[t]
  PROVE  LET g == Born(h, n, kids, make)
             N == Mapped(M, kids)
         IN /\ Good(g, N, R, Z, L)
            /\ \A m \in In(g, N) : g[m].type = "leaf" /\ g[m].newType # "leaf" =>
                 m = n \/ (m \in In(h, M) /\ h[m].type = "leaf" /\ h[m].newType # "leaf")
<1>. DEFINE g1 == AddLeaves(h, n, kids)
            g == [g1 EXCEPT ![n].newType = make]
            N == Mapped(M, kids)
            new == Newborn(kids)
<1>1. n \in DOMAIN h /\ M[Thread(n)] = n /\ h[n].childs = <<>> /\ In(h, M) \subseteq DOMAIN h
  BY DEF In, Good, AllGood, ObjectGood, LeafGood
<1>2. /\ \A m \in DOMAIN h : Thread(m) \notin ToSet(kids)
      /\ \A m \in new : Thread(m) \in ToSet(kids) /\ m = <<Thread(m), 0>> /\ m # root
      /\ new \cap DOMAIN h = {}
  <2>1. \A m \in DOMAIN h : Thread(m) \notin ToSet(kids)
    BY DEF AllNamed, Named
  <2>2. \A m \in new : Thread(m) \in ToSet(kids) /\ m = <<Thread(m), 0>>
    BY DEF Newborn, Thread
  <2>3. Main \notin ToSet(kids)
    BY ProgramsAssumption
  <2>4. QED
    BY <2>1, <2>2, <2>3 DEF root, Thread
<1>3. GetsKids(h, n, kids, g1)
  BY <1>1, <1>2, LeavesAdded
<1>4. g1[n].type = h[n].type /\ n \in DOMAIN g1
  BY <1>1, <1>3 DEF GetsKids
<1>. HIDE DEF g1
<1>5. DOMAIN g = DOMAIN g1 /\ (\A m \in DOMAIN g1 \ {n} : g[m] = g1[m]) /\ g[n] = [g1[n] EXCEPT !.newType = make]
  BY <1>4
<1>. HIDE DEF g
<1>7. /\ g[n].father = h[n].father /\ g[n].type = "leaf" /\ g[n].len = "more" /\ g[n].newType = make
      /\ g[n].childs \in Seq(Names) /\ ToSet(g[n].childs) = new
  <2>1. h[n] \in Objects
    BY <1>1 DEF HeapTyped
  <2>. DEFINE s == g1[n].childs
  <2>2. s \in Seq(Names) /\ ToSet(s) = new
    BY <1>3 DEF GetsKids
  <2>3. g1[n] = [h[n] EXCEPT !.childs = s]
    BY <1>3, Zenon DEF GetsKids
  <2>. HIDE DEF s, new
  <2>4. g[n] = [h[n] EXCEPT !.childs = s, !.newType = make]
    BY <1>5, <2>1, <2>3 DEF Objects
  <2>5. g[n].father = h[n].father /\ g[n].type = h[n].type /\ g[n].len = h[n].len /\ g[n].newType = make
        /\ g[n].childs = s
    BY <2>1, <2>4 DEF Objects
  <2>6. QED
    BY <2>2, <2>5
<1>8. /\ DOMAIN g = DOMAIN h \cup new
      /\ \A m \in DOMAIN h \ {n} : g[m] = h[m]
      /\ \A m \in new : /\ g[m].father = n /\ g[m].type = "leaf" /\ g[m].newType = "leaf"
                        /\ g[m].childs = <<>> /\ g[m].len = "more"
  BY <1>1, <1>2, <1>3, <1>5 DEF GetsKids
<1>. HIDE DEF new
<1>9. /\ \A t \in DOMAIN M : N[t] = IF t \in ToSet(kids) THEN <<t, 0>> ELSE M[t]
      /\ DOMAIN M = Owners /\ ToSet(kids) \subseteq Threads
  <2>1. \A s \in Seq(Threads) : ToSet(s) \subseteq Threads
    BY DEF ToSet
  <2>2. QED
    BY <2>1 DEF Mapped, MapTyped
<1>. HIDE DEF N
<1>10. In(g, N) = In(h, M) \cup new
  <2>1. \A m \in DOMAIN h : Thread(m) \in Owners /\ N[Thread(m)] = M[Thread(m)]
    BY <1>2, <1>9, Fields
  <2>2. \A m \in new : N[Thread(m)] = m
    BY <1>2, <1>9 DEF Owners
  <2>3. QED
    BY <1>8, <2>1, <2>2 DEF In
<1>11. ASSUME NEW m \in In(g, N) PROVE ObjectGood(g, m, R, Z)
  <2>1. CASE m \in In(h, M) \ {n}
    <3>1. \A c \in ToSet(h[m].childs) : c \in DOMAIN h
      BY <1>1, <2>1 DEF Joined
    <3>2. SameGoods(h, g, m)
      BY <1>1, <1>7, <1>8, <2>1, <3>1 DEF SameGoods, Alike, LeafEnded, Leaves
    <3>3. ObjectGood(h, m, R, Z) /\ m \in DOMAIN h
      BY <1>1, <2>1 DEF Good, AllGood
    <3>4. QED
      BY <3>2, <3>3, ObjectSame
  <2>2. CASE m = n
    <3>1. LeafGood(g, m, R, Z)
      BY <1>7, <1>8, <2>2 DEF LeafGood, Groups, new
    <3>2. QED
      BY <1>7, <2>2, <3>1 DEF ObjectGood
  <2>3. CASE m \in new
    <3>1. LeafGood(g, m, R, Z)
      BY <1>8, <2>3 DEF LeafGood
    <3>2. QED
      BY <1>8, <2>3, <3>1 DEF ObjectGood
  <2>4. QED
    BY <1>10, <2>1, <2>2, <2>3
<1>12. HomeGood(g, N, R)
  <2>1. SUFFICES ASSUME NEW m \in In(g, N) \ {root}, Thread(m) \notin R
                 PROVE  g[m].father \in In(g, N) /\ m \in ToSet(g[g[m].father].childs)
    BY DEF HomeGood
  <2>2. CASE m \in In(h, M)
    <3>1. h[m].father \in In(h, M) /\ m \in ToSet(h[h[m].father].childs)
      BY <2>1, <2>2 DEF Good, HomeGood
    <3>2. h[m].father # n
      BY <1>1, <3>1 DEF ToSet
    <3>3. g[m].father = h[m].father
      BY <1>1, <1>7, <1>8, <2>2
    <3>4. QED
      BY <1>1, <1>8, <1>10, <3>1, <3>2, <3>3
  <2>3. CASE m \in new
    BY <1>7, <1>8, <1>10, <2>3
  <2>4. QED
    BY <1>10, <2>1, <2>2, <2>3
<1>13. AwaitGood(g, N, R, L)
  <2>1. SUFFICES ASSUME NEW t \in Threads, NEW k \in L[t] \ R
                 PROVE  k \in Threads /\ N[t] # Null /\ N[k] # Null /\ g[N[k]].father = N[t]
    BY DEF AwaitGood
  <2>2. CASE t = Thread(n)
    <3>1. k \in ToSet(kids) /\ k \in Threads /\ t \notin ToSet(kids)
      BY <1>1, <1>2, <1>9, <2>1, <2>2
    <3>2. N[k] = <<k, 0>> /\ N[t] = n /\ <<k, 0>> \in new
      BY <1>1, <1>9, <2>2, <3>1 DEF Owners, new, Newborn
    <3>3. n # Null /\ <<k, 0>> # Null
      BY <1>1, <3>1, NullIsNoName DEF HeapTyped, Names
    <3>4. QED
      BY <1>8, <3>1, <3>2, <3>3
  <2>3. CASE t # Thread(n)
    <3>1. k \in Threads /\ M[t] # Null /\ M[k] # Null /\ h[M[k]].father = M[t]
      BY <2>1, <2>3 DEF Good, AwaitGood
    <3>2. M[k] \in DOMAIN h /\ Thread(M[k]) = k /\ M[t] \in DOMAIN h /\ Thread(M[t]) = t
      BY <3>1 DEF MapTyped, Owners
    <3>3. N[k] = M[k] /\ N[t] = M[t]
      BY <1>2, <1>9, <3>1, <3>2 DEF Owners
    <3>4. g[M[k]].father = h[M[k]].father
      BY <1>7, <1>8, <3>2
    <3>5. QED
      BY <3>1, <3>3, <3>4
  <2>4. QED
    BY <2>2, <2>3
<1>14. \A m \in In(g, N) : g[m].type = "leaf" /\ g[m].newType # "leaf" =>
         m = n \/ (m \in In(h, M) /\ h[m].type = "leaf" /\ h[m].newType # "leaf")
  BY <1>1, <1>8, <1>10
<1>15. QED
  BY <1>11, <1>12, <1>13, <1>14 DEF Good, AllGood, g, g1, N, Born

-----------------------------------------------------------------------------
(* What is left to run is the rest of the code.                            *)
Quiet == {t \in Threads : SetsNone(prog, t)}
Await ==
  [t \in Threads |->
     IF Done(t) > 0 /\ Creates(t, Done(t)) THEN ToSet(prog.code[t][Done(t)].kids) ELSE {}]

CodeOK ==
  /\ prog \in Programs /\ todo \in [Threads -> Seq(Slices)]
  /\ \A t \in Threads :
       /\ Len(todo[t]) <= Len(prog.code[t])
       /\ \A i \in 1 .. Len(todo[t]) : todo[t][i] = prog.code[t][Done(t) + i]

(* The next slice of t, and what it makes of those.                        *)
LEMMA NextSlice ==
  ASSUME CodeOK, Orderly(prog), NEW t \in Threads, todo[t] # <<>>,
         prog' = prog, todo' = [todo EXCEPT ![t] = Tail(@)]
  PROVE  LET s == Head(todo[t])
         IN /\ s \in Slices /\ SliceOrderly(prog, s, t \in Back')
            /\ s.len = "none" => t \in Quiet
            /\ CodeOK' /\ Quiet' = Quiet
            /\ Await'[t] = IF s.make \in Groups THEN ToSet(s.kids) ELSE {}
            /\ \A u \in Threads \ {t} : Await'[u] = Await[u]
            /\ Back' = IF Len(todo[t]) = 1 THEN Back \cup {t} ELSE Back
            /\ t \in Back' <=> Len(todo[t]) = 1
            /\ t \notin Back
<1>. DEFINE s == Head(todo[t])
            c == prog.code[t]
            r == todo[t]
<1>1. /\ r \in Seq(Slices) /\ r # <<>> /\ Len(r) \in Nat /\ Len(r) > 0 /\ s = r[1] /\ s \in Slices
      /\ Tail(r) \in Seq(Slices) /\ Len(Tail(r)) = Len(r) - 1
      /\ \A i \in 1 .. Len(r) - 1 : Tail(r)[i] = r[i + 1]
  <2>1. r \in Seq(Slices)
    BY DEF CodeOK
  <2>. HIDE DEF r
  <2>2. r # <<>>
    BY DEF r
  <2>3. QED
    BY <2>1, <2>2 DEF s, r
<1>2. c \in Seq(Slices) /\ Len(c) \in Nat /\ DOMAIN c = 1 .. Len(c)
  <2>1. prog.code \in [Threads -> Seq(Slices) \ {<<>>}]
    BY ProgramsAssumption DEF CodeOK
  <2>2. c \in Seq(Slices)
    BY <2>1
  <2>. HIDE DEF c
  <2>3. QED
    BY <2>2
<1>3. Len(r) <= Len(c) /\ Done(t) = Len(c) - Len(r)
  BY DEF CodeOK, Done
<1>4. /\ \A u \in Threads : todo'[u] = IF u = t THEN Tail(r) ELSE todo[u]
      /\ todo' \in [Threads -> Seq(Slices)]
  BY <1>1 DEF CodeOK
<1>5. s = c[Done(t) + 1] /\ Done(t) + 1 \in 1 .. Len(c) /\ Done(t) + 1 = Len(c) - Len(r) + 1
  <2>1. 1 \in 1 .. Len(r)
    BY <1>1
  <2>2. r[1] = c[Done(t) + 1]
    BY <2>1 DEF CodeOK
  <2>. HIDE DEF c, r, s
  <2>3. QED
    BY <1>1, <1>2, <1>3, <2>2
<1>6. /\ Done(t)' = Done(t) + 1 /\ Done(t) \in Nat
      /\ \A u \in Threads \ {t} : Done(u)' = Done(u)
  <2>1. Done(t)' = Len(c) - Len(Tail(r))
    BY <1>4 DEF Done
  <2>2. \A u \in Threads \ {t} : Done(u)' = Done(u)
    BY <1>4 DEF Done
  <2>. HIDE DEF c, r
  <2>3. QED
    BY <1>1, <1>2, <1>3, <2>1, <2>2
<1>7. Back' = (IF Len(r) = 1 THEN Back \cup {t} ELSE Back) /\ (t \in Back' <=> Len(r) = 1) /\ t \notin Back
  <2>1. Tail(r) = <<>> <=> Len(r) = 1
    <3>. HIDE DEF r
    <3>1. \A q \in Seq(Slices) : q = <<>> <=> Len(q) = 0
      OBVIOUS
    <3>. DEFINE q == Tail(r)
    <3>2. q \in Seq(Slices) /\ Len(q) = Len(r) - 1 /\ Len(r) \in Nat
      BY <1>1
    <3>. HIDE DEF q
    <3>3. q = <<>> <=> Len(q) = 0
      BY <3>1, <3>2
    <3>4. Len(q) = 0 <=> Len(r) = 1
      BY <3>2
    <3>5. QED
      BY <3>3, <3>4 DEF q
  <2>2. Back' = {u \in Threads : (IF u = t THEN Tail(r) ELSE todo[u]) = <<>>}
    BY <1>4 DEF Back
  <2>3. QED
    BY <2>1, <2>2 DEF Back
<1>8. CodeOK'
  <2>1. ASSUME NEW u \in Threads
        PROVE  /\ Len(todo'[u]) <= Len(prog.code[u])
               /\ \A i \in 1 .. Len(todo'[u]) : todo'[u][i] = prog.code[u][Done(u)' + i]
    <3>1. CASE u # t
      BY <1>4, <1>6, <3>1 DEF CodeOK
    <3>2. CASE u = t
      <4>1. \A i \in 1 .. Len(r) : r[i] = c[Done(t) + i]
        BY DEF CodeOK
      <4>. HIDE DEF r, c
      <4>2. Len(Tail(r)) <= Len(c)
        BY <1>1, <1>2, <1>3
      <4>3. ASSUME NEW i \in 1 .. Len(Tail(r)) PROVE Tail(r)[i] = c[Done(t)' + i]
        <5>1. i \in 1 .. Len(r) - 1 /\ i + 1 \in 1 .. Len(r) /\ Done(t) + (i + 1) = Done(t)' + i
          BY <1>1, <1>6
        <5>2. QED
          BY <1>1, <4>1, <5>1
      <4>4. QED
        BY <1>4, <3>2, <4>2, <4>3 DEF c
    <3>3. QED
      BY <3>1, <3>2
  <2>2. prog' \in Programs
    BY DEF CodeOK
  <2>3. QED
    BY <1>4, <2>1, <2>2 DEF CodeOK
<1>9. Quiet' = Quiet /\ (s.len = "none" => t \in Quiet)
  BY <1>2, <1>5 DEF Quiet, SetsNone
<1>10. SliceOrderly(prog, s, t \in Back')
  <2>1. SliceOrderly(prog, c[Done(t) + 1], Done(t) + 1 = Len(c))
    BY <1>2, <1>5 DEF Orderly
  <2>2. Done(t) + 1 = Len(c) <=> Len(r) = 1
    <3>. HIDE DEF r, c
    <3>1. QED
      BY <1>1, <1>2, <1>5
  <2>3. QED
    BY <1>5, <1>7, <2>1, <2>2 DEF SliceOrderly
<1>11. /\ Await'[t] = IF s.make \in Groups THEN ToSet(s.kids) ELSE {}
       /\ \A u \in Threads \ {t} : Await'[u] = Await[u]
  <2>1. Await'[t] = IF Done(t)' > 0 /\ c[Done(t)'].make \in Groups THEN ToSet(c[Done(t)'].kids) ELSE {}
    BY DEF Await, Creates
  <2>2. \A u \in Threads \ {t} : Await'[u] = Await[u]
    BY <1>6 DEF Await, Creates
  <2>. HIDE DEF s, c, r
  <2>3. QED
    BY <1>5, <1>6, <2>1, <2>2
<1>12. QED
  BY <1>1, <1>7, <1>8, <1>9, <1>10, <1>11

(* The same when nobody runs.                                              *)
LEMMA NoSlice ==
  ASSUME UNCHANGED <<prog, todo>>
  PROVE  Quiet' = Quiet /\ Await' = Await /\ Back' = Back /\ (CodeOK => CodeOK')
BY DEF Quiet, Await, Back, CodeOK, Done, Creates

-----------------------------------------------------------------------------
(***************************************************************************)
(* What holds in every state of an orderly statement.  Pending are the     *)
(* leaves that have created a group and are not yet renewed: the call on   *)
(* top is the one that does it.                                            *)
(***************************************************************************)
TreeGood == Good(node, threadIDToNode, Back, Quiet, Await)

Pending(h, M) == {n \in In(h, M) : h[n].type = "leaf" /\ h[n].newType # "leaf"}

(* The caller x, when what it has executed returns, renews n.              *)
Renews(x, n, h) ==
  \/ x.op = "update" /\ x.node = n
  \/ x.op = "child" /\ h[x.node].childs[x.i] = n
  \/ x.op = "prjp" /\ h[x.node].childs[2] = n
  \/ x.op = "prjran" /\ h[x.node].childs[1] = n

LeafCalled(s, h, M) ==
  s # <<>> /\ Head(s).op = "excute" /\ Head(s).node \in In(h, M) /\ h[Head(s).node].type = "leaf" =>
    Len(s) >= 2 /\ Renews(s[2], Head(s).node, h)

(* Frames of PrjNode::excute are about a prj.                              *)
PrjOps == {"prj", "prjp", "prjq", "prjran"}
PrjCalls(s, h) ==
  \A i \in 1 .. Len(s) : s[i].op \in PrjOps /\ s[i].node \in DOMAIN h => h[s[i].node].type = "prj"

CallsOK ==
  /\ \A i \in 2 .. Len(stack) : stack[i].op # "excute"
  /\ PrjCalls(stack, node)
  /\ LeafCalled(stack, node, threadIDToNode)
  /\ \A n \in Pending(node, threadIDToNode) : stack # <<>> /\ Renews(Top, n, node)

(* prjNode is a prj, or has been deleted for good.                         *)
PrjOK ==
  prjNode # Null =>
    /\ Named(prjNode, threadIDToNode, Unborn)
    /\ prjNode \in DOMAIN node => node[prjNode].type = "prj"

WaitInv == CodeOK /\ TreeGood /\ CallsOK /\ PrjOK /\ keepChilds = <<>> /\ Survives

LEMMA SameRecord ==
  ASSUME NEW o \in Objects, NEW s, s = o.childs
  PROVE  [o EXCEPT !.childs = s] = o
BY DEF Objects

(* The children of a leaf: none, or it is pending.                         *)
LEMMA LeafIdle ==
  ASSUME ShapeInv, WaitInv, NEW n \in In(node, threadIDToNode), node[n].type = "leaf",
         n \notin Pending(node, threadIDToNode)
  PROVE  node[n].newType = "leaf" /\ node[n].childs = <<>>
BY DEF WaitInv, TreeGood, Good, AllGood, ObjectGood, LeafGood, Pending

(* Who has not returned has a father that is a group, or pending.          *)
LEMMA FatherIsGroup ==
  ASSUME ShapeInv, WaitInv, NEW n \in In(node, threadIDToNode) \ {root}, Thread(n) \notin Back
  PROVE  LET f == node[n].father
         IN /\ f \in In(node, threadIDToNode) /\ n \in ToSet(node[f].childs)
            /\ node[f].type \in Groups \/ f \in Pending(node, threadIDToNode)
<1>. DEFINE f == node[n].father
<1>1. f \in In(node, threadIDToNode) /\ n \in ToSet(node[f].childs)
  BY DEF WaitInv, TreeGood, Good, HomeGood
<1>2. node[f].childs # <<>>
  BY <1>1 DEF ToSet
<1>3. node[f].type \in Groups \cup {"leaf"}
  BY <1>1 DEF WaitInv, TreeGood, Good, AllGood, ObjectGood
<1>. HIDE DEF f
<1>4. node[f].type = "leaf" => f \in Pending(node, threadIDToNode)
  BY <1>1, <1>2, LeafIdle
<1>5. QED
  BY <1>1, <1>3, <1>4 DEF f

(* When a leaf is executed, no other is pending.                           *)
LEMMA NonePending ==
  ASSUME WaitInv, Pending(node, threadIDToNode) # {}
  PROVE  stack # <<>> /\ Top.op \in {"update", "child", "prjp", "prjran"}
BY DEF WaitInv, CallsOK, Renews

LEMMA RunningLeaf ==
  ASSUME ShapeInv, LoopInv, WaitInv, ThreadOnTop("leaf")
  PROVE  LET n == Top.node
             f == node[n].father
         IN /\ n \in In(node, threadIDToNode) /\ n \in DOMAIN node /\ n # root
            /\ Thread(n) \in Threads /\ todo[Thread(n)] # <<>> /\ Thread(n) \notin Back
            /\ node[n].type = "leaf" /\ node[n].newType = "leaf" /\ node[n].childs = <<>>
            /\ Pending(node, threadIDToNode) = {}
            /\ f \in In(node, threadIDToNode) /\ n \in ToSet(node[f].childs) /\ node[f].type \in Groups
            /\ stack # <<>> /\ Top.op = "excute"
<1>. DEFINE n == Top.node
<1>1. /\ n \in In(node, threadIDToNode) /\ n \in DOMAIN node
      /\ Thread(n) \in Threads /\ todo[Thread(n)] # <<>> /\ stack # <<>>
  BY SliceTop DEF Groups
<1>2. node[n].type = "leaf" /\ Top.op = "excute"
  BY DEF ThreadOnTop, At, Top
<1>3. Pending(node, threadIDToNode) = {}
  BY <1>2, NonePending
<1>4. n # root
  BY <1>1, ProgramsAssumption DEF root, Thread
<1>. HIDE DEF n
<1>5. Thread(n) \notin Back
  BY <1>1 DEF Back
<1>6. QED
  BY <1>1, <1>2, <1>3, <1>4, <1>5, LeafIdle, FatherIsGroup DEF n

-----------------------------------------------------------------------------
(* A slice that creates nothing leaves the heap alone, but for a length.   *)
LEMMA NobodyAdded ==
  ASSUME NEW h, HeapTyped(h), NEW n \in DOMAIN h, h[n].childs = <<>>
  PROVE  LET g == AddLeaves(h, n, <<>>)
         IN DOMAIN g = DOMAIN h /\ \A m \in DOMAIN h : g[m] = h[m]
<1>. DEFINE g == AddLeaves(h, n, <<>>)
            new == [i \in DOMAIN <<>> |-> <<(<<>>)[i], 0>>]
<1>1. new = <<>> /\ ToSet(new) = {}
  BY DEF ToSet
<1>2. g = [m \in DOMAIN h \cup {} |->
             IF m \in {} THEN LeafNode(n, <<>>) ELSE IF m = n THEN [h[m] EXCEPT !.childs = @ \o <<>>] ELSE h[m]]
  <2>1. g = [m \in DOMAIN h \cup ToSet(new) |->
               IF m \in ToSet(new) THEN LeafNode(n, <<>>)
               ELSE IF m = n THEN [h[m] EXCEPT !.childs = @ \o new] ELSE h[m]]
    BY DEF AddLeaves
  <2>. HIDE DEF g, new
  <2>2. QED
    BY <1>1, <2>1
<1>3. h[n] \in Objects /\ h[n].childs \o <<>> = h[n].childs
  BY DEF HeapTyped
<1>4. [h[n] EXCEPT !.childs = @ \o <<>>] = h[n]
  <2>. DEFINE s == h[n].childs \o <<>>
  <2>1. s = h[n].childs
    BY <1>3
  <2>. HIDE DEF s
  <2>2. [h[n] EXCEPT !.childs = s] = h[n]
    BY <1>3, <2>1, SameRecord
  <2>3. QED
    BY <2>2 DEF s
<1>. HIDE DEF g
<1>5. DOMAIN g = DOMAIN h /\ \A m \in DOMAIN h : g[m] = h[m]
  BY <1>2, <1>4
<1>6. QED
  BY <1>5 DEF g

LEMMA NobodyMapped ==
  ASSUME NEW h, NEW M, MapTyped(h, M)
  PROVE  Mapped(M, <<>>) = M
BY DEF Mapped, MapTyped, ToSet

(* Heaps that hold the same objects.                                       *)
LEMMA EqualHeaps ==
  ASSUME NEW h, NEW M, NEW R, NEW Z, NEW K, NEW D, HeapTyped(h), MapTyped(h, M), Joined(h, M), Deep(h, D),
         Good(h, M, R, Z, K), NEW g, DOMAIN g = DOMAIN h, \A m \in DOMAIN h : g[m] = h[m]
  PROVE  /\ HeapTyped(g) /\ MapTyped(g, M) /\ Joined(g, M) /\ Deep(g, D) /\ Good(g, M, R, Z, K)
         /\ In(g, M) = In(h, M)
<1>1. In(g, M) = In(h, M) /\ In(h, M) \subseteq DOMAIN h
  BY DEF In
<1>2. HeapTyped(g) /\ MapTyped(g, M) /\ Deep(g, D)
  BY DEF HeapTyped, MapTyped, Deep
<1>3. Joined(g, M)
  BY <1>1 DEF Joined
<1>4. Good(g, M, R, Z, K)
  BY <1>1, GoodSame DEF Alike
<1>5. QED
  BY <1>1, <1>2, <1>3, <1>4

(* A slice of a leaf.                                                      *)
SliceDone(n) ==
  /\ Good(node', threadIDToNode', Back', Quiet', Await')
  /\ DOMAIN node \subseteq DOMAIN node'
  /\ \A m \in DOMAIN node' \ DOMAIN node : Thread(m) \in Unborn
  /\ \A m \in DOMAIN node : node'[m].type = node[m].type
  /\ \A m \in DOMAIN node \ {n} : node'[m].childs = node[m].childs
  /\ Pending(node', threadIDToNode') \subseteq {n}
  /\ \A t \in Owners \ Unborn : threadIDToNode'[t] = threadIDToNode[t]
  /\ prjNode' = prjNode \/ (prjNode' \in DOMAIN node /\ node[prjNode'].type = "prj")

LEMMA SliceCreates ==
  ASSUME ShapeInv, LoopInv, WaitInv, Orderly(prog), ExcuteLeaf, Head(todo[Thread(Top.node)]).make \in Groups
  PROVE  SliceDone(Top.node)
<1>. DEFINE n == Top.node
            t == Thread(n)
            s == Head(todo[t])
            h == node
            M == threadIDToNode
            g == Born(h, n, s.kids, s.make)
<1>1. ThreadOnTop("leaf") /\ RunSlice(n) /\ node' = AfterSlice(n).node /\ prog' = prog /\ node[n].len = "more"
  BY DEF ExcuteLeaf
<1>2. /\ n \in In(node, M) /\ n \in DOMAIN node /\ t \in Threads /\ todo[t] # <<>> /\ t \notin Back
      /\ node[n].type = "leaf" /\ node[n].newType = "leaf" /\ node[n].childs = <<>>
      /\ Pending(node, M) = {}
  BY <1>1, RunningLeaf
<1>3. /\ todo' = [todo EXCEPT ![t] = Tail(@)]
      /\ M' = Mapped(M, s.kids)
      /\ prjNode' = AfterSlice(n).prjNode
  BY <1>1 DEF RunSlice, Mapped
<1>4. CodeOK /\ TodoOK
  BY DEF WaitInv, ShapeInv
<1>5. /\ s \in Slices /\ SliceOrderly(prog, s, t \in Back') /\ Quiet' = Quiet
      /\ Await'[t] = ToSet(s.kids) /\ \A u \in Threads \ {t} : Await'[u] = Await[u]
      /\ t \in Back' \/ Back' = Back
  <2>. HIDE DEF n
  <2>1. QED
    BY <1>1, <1>2, <1>3, <1>4, NextSlice DEF n
<1>6. s.kids \in Seq(Threads) /\ ToSet(s.kids) \subseteq Unborn
  BY <1>1, <1>2, <1>3, <1>4, SliceIsRun
<1>7. HasLength(prog, s.make, s.kids) /\ s.len = "same" /\ Back' = Back /\ s.make # "same"
  BY <1>5 DEF SliceOrderly, Groups
<1>8. AfterSlice(n) = Result(g, changedNode, prjNode)
  BY <1>7 DEF AfterSlice, Born
<1>9. node' = g /\ prjNode' = prjNode
  BY <1>1, <1>3, <1>8, ResultFields
<1>10. HasLen(s.make, Newborn(s.kids), Quiet)
  <2>1. \A c \in ToSet(s.kids) : c \in Threads /\ <<c, 0>> \in Newborn(s.kids) /\ Thread(<<c, 0>>) = c
    BY <1>6 DEF Newborn, Thread, ToSet
  <2>2. \A m \in Newborn(s.kids) : Thread(m) \in ToSet(s.kids)
    BY DEF Newborn, Thread
  <2>3. \A c \in ToSet(s.kids) : SetsNone(prog, c) <=> c \in Quiet
    BY <2>1 DEF Quiet
  <2>. HIDE DEF s
  <2>4. QED
    BY <1>7, <2>1, <2>2, <2>3 DEF HasLen, HasLength
<1>11. /\ HeapTyped(h) /\ MapTyped(h, M) /\ Joined(h, M) /\ AllNamed(h, M, Unborn)
       /\ Unborn \subseteq Threads /\ Good(h, M, Back, Quiet, Await)
  BY ShapeFacts DEF WaitInv, TreeGood, TreeOK
<1>. HIDE DEF n, t, s, h, M, g
<1>a. n \in In(h, M) /\ h[n].type = "leaf" /\ h[n].newType = "leaf" /\ h[n].len = "more" /\ Pending(h, M) = {}
      /\ h[n].childs = <<>>
  BY <1>1, <1>2 DEF h
<1>12. /\ Good(g, Mapped(M, s.kids), Back, Quiet, Await')
       /\ \A m \in In(g, Mapped(M, s.kids)) : g[m].type = "leaf" /\ g[m].newType # "leaf" =>
            m = n \/ (m \in In(h, M) /\ h[m].type = "leaf" /\ h[m].newType # "leaf")
  <2>1. /\ HeapTyped(h) /\ MapTyped(h, M) /\ Joined(h, M) /\ AllNamed(h, M, Unborn)
        /\ Good(h, M, Back, Quiet, Await) /\ Unborn \in SUBSET Threads
        /\ Thread(n) \in Threads /\ Thread(n) \notin Back
        /\ s.kids \in Seq(Threads) /\ ToSet(s.kids) \subseteq Unborn /\ s.make \in Groups
        /\ HasLen(s.make, Newborn(s.kids), Quiet)
        /\ Await'[Thread(n)] \subseteq ToSet(s.kids)
        /\ \A u \in Threads \ {Thread(n)} : Await'[u] = Await[u]
    BY <1>2, <1>5, <1>6, <1>10, <1>11 DEF t, s, n
  <2>. DEFINE L == Await'
              kids == s.kids
              make == s.make
              B == Back
              Q == Quiet
              A == Await
              U == Unborn
  <2>. HIDE DEF L, kids, make, B, Q, A, U
  <2>2. g = Born(h, n, kids, make)
    BY DEF g, kids, make
  <2>3. /\ HeapTyped(h) /\ MapTyped(h, M) /\ Joined(h, M) /\ AllNamed(h, M, U)
        /\ Good(h, M, B, Q, A) /\ U \in SUBSET Threads
        /\ Thread(n) \in Threads /\ Thread(n) \notin B
        /\ kids \in Seq(Threads) /\ ToSet(kids) \subseteq U /\ make \in Groups
        /\ HasLen(make, Newborn(kids), Q)
        /\ L[Thread(n)] \subseteq ToSet(kids)
        /\ \A u \in Threads \ {Thread(n)} : L[u] = A[u]
    BY <2>1, Zenon DEF L, kids, make, B, Q, A, U
  <2>4. /\ Good(g, Mapped(M, kids), B, Q, L)
        /\ \A m \in In(g, Mapped(M, kids)) : g[m].type = "leaf" /\ g[m].newType # "leaf" =>
            m = n \/ (m \in In(h, M) /\ h[m].type = "leaf" /\ h[m].newType # "leaf")
    BY <1>a, <2>2, <2>3, BornGood
  <2>5. QED
    BY <2>4, Zenon DEF L, kids, B, Q
<1>13. Newborn(s.kids) \cap DOMAIN h = {} /\ \A m \in Newborn(s.kids) : Thread(m) \in Unborn
  <2>1. \A m \in Newborn(s.kids) : Thread(m) \in Unborn
    BY <1>6 DEF Newborn, Thread
  <2>2. QED
    BY <1>11, <2>1 DEF AllNamed, Named
<1>14. GetsKids(h, n, s.kids, AddLeaves(h, n, s.kids))
  BY <1>a, <1>6, <1>11, <1>13, LeavesAdded DEF In
<1>15. /\ DOMAIN g = DOMAIN h \cup Newborn(s.kids)
       /\ \A m \in DOMAIN h \ {n} : g[m] = h[m]
       /\ g[n].type = h[n].type
  <2>. DEFINE g1 == AddLeaves(h, n, s.kids)
  <2>1. n \in DOMAIN g1 /\ DOMAIN g1 = DOMAIN h \cup Newborn(s.kids) /\ (\A m \in DOMAIN h \ {n} : g1[m] = h[m])
        /\ g1[n] = [h[n] EXCEPT !.childs = g1[n].childs] /\ h[n] \in Objects
    BY <1>a, <1>11, <1>14 DEF GetsKids, In, HeapTyped
  <2>2. g = [g1 EXCEPT ![n].newType = s.make]
    BY DEF g, Born
  <2>. HIDE DEF g1
  <2>3. g[n] = [g1[n] EXCEPT !.newType = s.make] /\ DOMAIN g = DOMAIN g1 /\ \A m \in DOMAIN g1 \ {n} : g[m] = g1[m]
    BY <2>1, <2>2
  <2>4. g1[n].type = h[n].type /\ DOMAIN g1[n] = DOMAIN h[n]
    BY <2>1 DEF Objects
  <2>5. g[n].type = h[n].type
    BY <2>1, <2>3, <2>4 DEF Objects
  <2>6. QED
    BY <2>1, <2>3, <2>5
<1>16. \A u \in Owners \ Unborn : M'[u] = M[u]
  BY <1>3, <1>6, <1>11 DEF Mapped, MapTyped
<1>17. Pending(g, Mapped(M, s.kids)) \subseteq {n}
  BY <1>a, <1>12 DEF Pending
<1>18. QED
  <2>1. node' = g /\ threadIDToNode' = Mapped(M, s.kids) /\ Back' = Back /\ Quiet' = Quiet /\ prjNode' = prjNode
    BY <1>3, <1>5, <1>7, <1>9 DEF M
  <2>2. \A u \in Owners \ Unborn : threadIDToNode'[u] = threadIDToNode[u]
    BY <1>16 DEF M
  <2>3. h = node /\ n = Top.node
    BY DEF h, n
  <2>4. QED
    BY <1>12, <1>13, <1>15, <1>17, <2>1, <2>2, <2>3 DEF SliceDone

LEMMA SliceRuns ==
  ASSUME ShapeInv, LoopInv, WaitInv, Orderly(prog), ExcuteLeaf, Head(todo[Thread(Top.node)]).make \notin Groups
  PROVE  SliceDone(Top.node) /\ Pending(node', threadIDToNode') = {}
<1>. DEFINE n == Top.node
            t == Thread(n)
            s == Head(todo[t])
            f == node[n].father
            M == threadIDToNode
            h == AddLeaves(node, n, <<>>)
            r == setNodeLength(h, n, s.len)
<1>1. ThreadOnTop("leaf") /\ RunSlice(n) /\ node' = AfterSlice(n).node /\ prog' = prog /\ node[n].len = "more"
  BY DEF ExcuteLeaf
<1>2. /\ n \in In(node, M) /\ n \in DOMAIN node /\ t \in Threads /\ todo[t] # <<>> /\ t \notin Back
      /\ node[n].type = "leaf" /\ node[n].newType = "leaf" /\ node[n].childs = <<>>
      /\ Pending(node, M) = {}
      /\ f \in In(node, M) /\ n \in ToSet(node[f].childs) /\ node[f].type \in Groups
  BY <1>1, RunningLeaf
<1>3. /\ todo' = [todo EXCEPT ![t] = Tail(@)]
      /\ M' = Mapped(M, s.kids)
      /\ prjNode' = AfterSlice(n).prjNode
  BY <1>1 DEF RunSlice, Mapped
<1>4. CodeOK
  BY DEF WaitInv
<1>5. /\ s \in Slices /\ SliceOrderly(prog, s, t \in Back') /\ Quiet' = Quiet
      /\ s.len = "none" => t \in Quiet
      /\ Await'[t] = {} /\ \A u \in Threads \ {t} : Await'[u] = Await[u]
      /\ Back \subseteq Back' /\ Back' \subseteq Back \cup {t}
  <2>. HIDE DEF n
  <2>1. QED
    BY <1>1, <1>2, <1>3, <1>4, NextSlice DEF n
<1>6. s.make = "same" /\ s.kids = <<>> /\ (s.len = "same" \/ t \in Back') /\ s.len \in {"same", "empty", "none"}
  BY <1>5 DEF SliceOrderly, Slices
<1>7. /\ HeapTyped(node) /\ MapTyped(node, M) /\ Joined(node, M) /\ Deep(node, Depth)
      /\ Good(node, M, Back, Quiet, Await)
      /\ Levels \in Nat /\ Depth \in [Owners -> 0 .. Levels]
  BY ShapeFacts DEF WaitInv, TreeGood, TreeOK
<1>8. M' = M
  BY <1>3, <1>6, <1>7, NobodyMapped
<1>9. AfterSlice(n) = IF s.len = "same" THEN Result(h, changedNode, prjNode) ELSE r
  BY <1>6 DEF AfterSlice
<1>. HIDE DEF n, s, h, r, f
<1>10. DOMAIN h = DOMAIN node /\ \A m \in DOMAIN node : h[m] = node[m]
  BY <1>2, <1>7, NobodyAdded DEF h
<1>. HIDE DEF M
<1>11. /\ HeapTyped(h) /\ MapTyped(h, M) /\ Joined(h, M) /\ Deep(h, Depth) /\ Good(h, M, Back, Quiet, Await)
       /\ In(h, M) = In(node, M)
  BY <1>7, <1>10, EqualHeaps
<1>12. Good(h, M, Back', Quiet, Await')
  <2>. DEFINE S == Back'
              L == Await'
  <2>1. \A u \in Threads : L[u] \ S \subseteq Await[u] \ Back
    BY <1>5
  <2>2. n \in In(h, M) /\ h[n].type = "leaf" /\ h[n].newType = "leaf" /\ Back \subseteq S /\ S \subseteq Back \cup {Thread(n)}
    BY <1>2, <1>5, <1>10, <1>11
  <2>. HIDE DEF S, L, t
  <2>3. Good(h, M, S, Quiet, L)
    BY <1>11, <2>1, <2>2, ReturnGood
  <2>4. QED
    BY <2>3 DEF S, L
<1>13. Pending(h, M) = {}
  BY <1>2, <1>10, <1>11 DEF Pending, In
<1>14. CASE s.len = "same"
  <2>1. node' = h /\ prjNode' = prjNode
    BY <1>1, <1>3, <1>9, <1>14, ResultFields
  <2>2. QED
    BY <1>5, <1>8, <1>10, <1>12, <1>13, <2>1 DEF SliceDone, M, n
<1>15. CASE s.len # "same"
  <2>1. node' = r.node /\ prjNode' = r.prjNode
    BY <1>1, <1>3, <1>9, <1>15
  <2>2. /\ Good(r.node, M, Back', Quiet, Await')
        /\ DOMAIN r.node = DOMAIN h
        /\ \A m \in DOMAIN h : r.node[m].type = h[m].type /\ r.node[m].childs = h[m].childs
        /\ \A m \in DOMAIN h : h[m].type = "leaf" => r.node[m].newType = h[m].newType
        /\ r.prjNode = prjNode \/ (r.prjNode = f /\ h[f].type = "prj")
    <3>. DEFINE S == Back'
                L == Await'
                len == s.len
    <3>1. n \in In(h, M) /\ f \in In(h, M) /\ n \in DOMAIN node /\ f \in DOMAIN node
      BY <1>2, <1>11 DEF In
    <3>2. /\ h[n].type = "leaf" /\ h[n].newType = "leaf" /\ h[n].len = "more"
          /\ h[n].father = f /\ n \in ToSet(h[f].childs) /\ h[f].type \in Groups
      BY <1>1, <1>2, <1>10, <3>1 DEF f
    <3>3. Thread(n) \in S /\ len \in {"empty", "none"} /\ (len = "none" => Thread(n) \in Quiet)
      BY <1>5, <1>6, <1>15
    <3>4. Good(h, M, S, Quiet, L)
      BY <1>12
    <3>. HIDE DEF S, L, t, len
    <3>. DEFINE x == setNodeLength(h, n, len)
    <3>. HIDE DEF x
    <3>5. /\ Good(x.node, M, S, Quiet, L)
          /\ DOMAIN x.node = DOMAIN h
          /\ \A m \in DOMAIN h : x.node[m].type = h[m].type /\ x.node[m].childs = h[m].childs
          /\ \A m \in DOMAIN h : h[m].type = "leaf" => x.node[m].newType = h[m].newType
          /\ x.prjNode = prjNode \/ (x.prjNode = f /\ h[f].type = "prj")
      BY <1>7, <1>11, <3>1, <3>2, <3>3, <3>4, LengthGood DEF x
    <3>6. x = r
      BY DEF x, r, len
    <3>7. QED
      BY <3>5, <3>6 DEF S, L
  <2>3. Pending(r.node, M) = {}
    BY <1>13, <2>2 DEF Pending, In
  <2>4. f \in DOMAIN node
    BY <1>2 DEF In
  <2>5. QED
    BY <1>5, <1>8, <1>10, <2>1, <2>2, <2>3, <2>4 DEF SliceDone, M, n
<1>16. QED
  BY <1>14, <1>15

-----------------------------------------------------------------------------
(* The stack: what is executed is called by what renews it.                *)
NoExcute(s) == \A i \in 2 .. Len(s) : s[i].op # "excute"

LEMMA CallsFrames ==
  ASSUME IsSeq, stack # <<>>, NoExcute(stack), NEW F, NEW frames \in Seq(F), Do(frames),
         \A i \in 2 .. Len(frames) : frames[i].op # "excute"
  PROVE  /\ NoExcute(stack') /\ Len(stack') \in Nat /\ Len(frames) \in Nat
         /\ stack' # <<>> => Head(stack') = stack'[1]
         /\ frames = <<>> => (stack' # <<>> => Head(stack').op # "excute" /\ Len(stack) >= 2 /\ Head(stack') = stack[2])
         /\ frames # <<>> => stack' # <<>> /\ Head(stack') = frames[1]
         /\ Len(frames) >= 2 => Len(stack') >= 2 /\ stack'[2] = frames[2]
<1>. DEFINE S == ToSet(stack)
            new == frames \o Tail(stack)
            k == Len(frames)
<1>1. stack \in Seq(S) /\ stack' = new
  BY DEF IsSeq, Do
<1>. HIDE DEF S
<1>2. /\ new \in Seq(ToSet(new))
      /\ k \in Nat /\ Len(stack) \in Nat /\ Len(stack) > 0
      /\ Len(new) = k + Len(stack) - 1
      /\ \A i \in 1 .. k : new[i] = frames[i]
      /\ \A i \in k + 1 .. Len(new) : new[i] = stack[i - k + 1]
  BY <1>1, Pushed
<1>. HIDE DEF new, k
<1>3. Len(new) \in Nat
  BY <1>2
<1>4. new # <<>> => Head(new) = new[1] /\ Len(new) > 0
  <2>1. \A X : \A q \in Seq(X) : q # <<>> => Head(q) = q[1] /\ Len(q) > 0
    OBVIOUS
  <2>2. QED
    BY <1>2, <2>1
<1>5. NoExcute(new)
  <2>1. SUFFICES ASSUME NEW i \in 2 .. Len(new) PROVE new[i].op # "excute"
    BY DEF NoExcute
  <2>2. CASE i \in 1 .. k
    <3>1. i \in 2 .. k
      BY <1>2, <1>3, <2>2
    <3>2. QED
      BY <1>2, <2>2, <3>1 DEF k
  <2>3. CASE i \notin 1 .. k
    <3>1. i \in k + 1 .. Len(new) /\ i - k + 1 \in 2 .. Len(stack)
      BY <1>2, <1>3, <2>3
    <3>2. QED
      BY <1>2, <3>1 DEF NoExcute
  <2>4. QED
    BY <2>2, <2>3
<1>6. frames # <<>> => k > 0
  <2>1. \A q \in Seq(F) : q # <<>> => Len(q) > 0
    OBVIOUS
  <2>2. QED
    BY <2>1 DEF k
<1>7. frames # <<>> => new # <<>> /\ Head(new) = frames[1]
  <2>1. SUFFICES ASSUME frames # <<>> PROVE new # <<>> /\ Head(new) = frames[1]
    OBVIOUS
  <2>2. Len(new) > 0 /\ 1 \in 1 .. k
    BY <1>2, <1>3, <1>6, <2>1
  <2>3. new # <<>>
    BY <2>2
  <2>4. QED
    BY <1>2, <1>4, <2>2, <2>3
<1>8. frames = <<>> => (new # <<>> => Head(new).op # "excute" /\ Len(stack) >= 2 /\ Head(new) = stack[2])
  <2>1. SUFFICES ASSUME frames = <<>>, new # <<>>
                 PROVE  Head(new).op # "excute" /\ Len(stack) >= 2 /\ Head(new) = stack[2]
    OBVIOUS
  <2>2. k = 0
    BY <2>1 DEF k
  <2>3. Len(new) > 0 /\ Head(new) = new[1]
    BY <1>4, <2>1
  <2>4. 1 \in k + 1 .. Len(new) /\ 1 - k + 1 = 2 /\ 2 \in 2 .. Len(stack)
    BY <1>2, <1>3, <2>2, <2>3
  <2>5. new[1] = stack[1 - k + 1]
    BY <1>2, <2>4
  <2>6. QED
    BY <2>3, <2>4, <2>5 DEF NoExcute
<1>9. k >= 2 => Len(new) >= 2 /\ new[2] = frames[2]
  <2>1. SUFFICES ASSUME k >= 2 PROVE Len(new) >= 2 /\ new[2] = frames[2]
    OBVIOUS
  <2>2. 2 \in 1 .. k /\ Len(new) >= 2
    BY <1>2, <2>1
  <2>3. QED
    BY <1>2, <2>2
<1>10. QED
  BY <1>1, <1>2, <1>3, <1>4, <1>5, <1>7, <1>8, <1>9 DEF k

(* An object that stays keeps its type.                                    *)
TypesStay == \A m \in DOMAIN node : m \in DOMAIN node' => node'[m].type = node[m].type

LEMMA PrjCallsKept ==
  ASSUME ShapeInv, LoopInv, WaitInv, stack # <<>>, NEW F, NEW frames \in Seq(F), Do(frames),
         TypesStay, PrjCalls(frames, node')
  PROVE  PrjCalls(stack', node')
<1>. DEFINE S == ToSet(stack)
            new == frames \o Tail(stack)
            k == Len(frames)
<1>1. stack \in Seq(S) /\ stack' = new
  BY DEF LoopInv, StackShape, IsSeq, Do
<1>. HIDE DEF S
<1>2. /\ k \in Nat /\ Len(stack) \in Nat /\ Len(new) = k + Len(stack) - 1
      /\ \A i \in 1 .. k : new[i] = frames[i]
      /\ \A i \in k + 1 .. Len(new) : new[i] = stack[i - k + 1]
  BY <1>1, Pushed
<1>3. \A j \in 1 .. Len(stack) :
        stack[j].op \in PrjOps => stack[j].node \in DOMAIN node /\ node[stack[j].node].type = "prj"
  <2>1. \A j \in 1 .. Len(stack) : stack[j].op \in PrjOps => Walks(stack[j])
    BY DEF PrjOps, Walks
  <2>2. \A j \in 1 .. Len(stack) : Walks(stack[j]) => stack[j].node \in DOMAIN node
    BY DEF ShapeInv, StackOK, StackGood, WalkOK, In
  <2>3. QED
    BY <2>1, <2>2 DEF WaitInv, CallsOK, PrjCalls
<1>. HIDE DEF new, k
<1>4. ASSUME NEW i \in 1 .. Len(new), new[i].op \in PrjOps, new[i].node \in DOMAIN node'
      PROVE  node'[new[i].node].type = "prj"
  <2>1. CASE i \in 1 .. k
    BY <1>2, <1>4, <2>1 DEF PrjCalls, k
  <2>2. CASE i \notin 1 .. k
    <3>1. i \in k + 1 .. Len(new) /\ i - k + 1 \in 1 .. Len(stack)
      BY <1>2, <2>2
    <3>2. new[i] = stack[i - k + 1]
      BY <1>2, <3>1
    <3>3. QED
      BY <1>3, <1>4, <3>1, <3>2 DEF TypesStay
  <2>3. QED
    BY <2>1, <2>2
<1>5. QED
  BY <1>1, <1>4 DEF PrjCalls

(* A step after which no leaf is pending.                                  *)
LEMMA CallsKept ==
  ASSUME ShapeInv, LoopInv, WaitInv, stack # <<>>, NEW F, NEW frames \in Seq(F), Do(frames),
         \A i \in 2 .. Len(frames) : frames[i].op # "excute",
         TypesStay, PrjCalls(frames, node'), Pending(node', threadIDToNode') = {},
         frames # <<>> /\ frames[1].op = "excute" =>
           /\ Len(frames) >= 2
           /\ \/ frames[1].node \in In(node', threadIDToNode') => node'[frames[1].node].type # "leaf"
              \/ Renews(frames[2], frames[1].node, node')
  PROVE  CallsOK'
<1>1. NoExcute(stack) /\ IsSeq
  BY DEF WaitInv, CallsOK, NoExcute, LoopInv, StackShape
<1>2. /\ NoExcute(stack')
      /\ frames = <<>> => (stack' # <<>> => Head(stack').op # "excute")
      /\ frames # <<>> => Head(stack') = frames[1]
      /\ Len(frames) >= 2 => Len(stack') >= 2 /\ stack'[2] = frames[2]
  BY <1>1, CallsFrames
<1>3. LeafCalled(stack', node', threadIDToNode')
  BY <1>2 DEF LeafCalled
<1>4. PrjCalls(stack', node')
  BY PrjCallsKept
<1>5. QED
  BY <1>2, <1>3, <1>4 DEF CallsOK, NoExcute

LEMMA ExcuteLeafWaits ==
  ASSUME ShapeInv, LoopInv, WaitInv, Orderly(prog), ExcuteLeaf, ShapeInv'
  PROVE  WaitInv'
<1>. DEFINE n == Top.node
<1>1. SliceDone(n)
  BY SliceCreates, SliceRuns
<1>2. ThreadOnTop("leaf") /\ RunSlice(n) /\ prog' = prog /\ keepChilds' = keepChilds /\ process' = process
  BY DEF ExcuteLeaf
<1>3. /\ n \in In(node, threadIDToNode) /\ Thread(n) \in Threads /\ todo[Thread(n)] # <<>>
      /\ stack # <<>> /\ Top.op = "excute" /\ node[n].type = "leaf"
  BY <1>2, RunningLeaf
<1>4. todo' = [todo EXCEPT ![Thread(n)] = Tail(@)] /\ Do(<<>>)
  BY <1>2 DEF RunSlice, Pop
<1>. HIDE DEF n
<1>5. CodeOK'
  BY <1>2, <1>3, <1>4, NextSlice DEF WaitInv
<1>6. Unborn' \subseteq Unborn /\ Unborn \subseteq Threads
  <2>1. TodoOK
    BY DEF ShapeInv
  <2>2. QED
    BY <1>2, <1>3, <1>4, <2>1, SliceIsRun, ShapeFacts
<1>7. TreeGood'
  BY <1>1 DEF SliceDone, TreeGood
<1>8. CallsOK'
  <2>1. NoExcute(stack) /\ IsSeq /\ LeafCalled(stack, node, threadIDToNode)
    BY DEF WaitInv, CallsOK, NoExcute, LoopInv, StackShape
  <2>2. /\ NoExcute(stack')
        /\ stack' # <<>> => Head(stack').op # "excute" /\ Len(stack) >= 2 /\ Head(stack') = stack[2]
    <3>1. <<>> \in Seq({}) /\ \A i \in 2 .. Len(<<>>) : <<>>[i].op # "excute"
      OBVIOUS
    <3>2. QED
      BY <1>3, <1>4, <2>1, <3>1, CallsFrames
  <2>3. LeafCalled(stack', node', threadIDToNode')
    BY <2>2 DEF LeafCalled
  <2>4. Len(stack) >= 2 /\ Renews(stack[2], n, node)
    BY <1>3, <2>1 DEF LeafCalled, n, Top
  <2>5. Renews(stack[2], n, node')
    <3>. DEFINE x == stack[2]
    <3>1. CASE x.op = "update"
      BY <2>4, <3>1 DEF Renews
    <3>2. CASE x.op # "update"
      <4>1. Walks(x) /\ 2 \in 1 .. Len(stack) /\ 1 \in 1 .. 2 - 1
        <5>1. Walks(x)
          BY <2>4, <3>2 DEF Renews, Walks
        <5>2. \A q : q \in Nat /\ q >= 2 => 2 \in 1 .. q
          OBVIOUS
        <5>3. Len(stack) \in Nat
          BY <2>1 DEF IsSeq
        <5>4. QED
          BY <2>4, <5>1, <5>2, <5>3
      <4>2. WalkOK(x, node, threadIDToNode) /\ Under(x, stack[1], Depth)
        BY <4>1 DEF ShapeInv, StackOK, StackGood
      <4>3. stack[1] = Top
        BY <1>3, <2>1 DEF IsSeq, Top
      <4>4. x.node \in DOMAIN node /\ Depth[Thread(x.node)] < Depth[Thread(n)]
        BY <4>2, <4>3 DEF WalkOK, Under, In, n
      <4>5. Thread(x.node) \in Owners /\ Depth \in [Owners -> Nat]
        BY <4>4, ShapeFacts, Fields
      <4>6. x.node # n
        BY <4>4, <4>5
      <4>7. node'[x.node].childs = node[x.node].childs
        BY <1>1, <4>4, <4>6 DEF SliceDone
      <4>8. QED
        BY <2>4, <4>7 DEF Renews
    <3>3. QED
      BY <3>1, <3>2
  <2>6. Len(stack) >= 2 => stack' # <<>>
    <3>1. stack' = Tail(stack)
      <4>1. stack' = <<>> \o Tail(stack)
        BY <1>4 DEF Do
      <4>2. \A S : \A q \in Seq(S) : q # <<>> => <<>> \o Tail(q) = Tail(q)
        OBVIOUS
      <4>3. QED
        BY <1>3, <2>1, <4>1, <4>2 DEF IsSeq
    <3>2. \A S : \A q \in Seq(S) : q # <<>> => Len(Tail(q)) = Len(q) - 1 /\ Len(q) \in Nat
      OBVIOUS
    <3>3. Len(stack') = Len(stack) - 1 /\ Len(stack) \in Nat
      BY <1>3, <2>1, <3>1, <3>2 DEF IsSeq
    <3>4. stack' = <<>> => Len(stack') = 0
      OBVIOUS
    <3>5. QED
      BY <3>3, <3>4
  <2>7. \A m \in Pending(node', threadIDToNode') : stack' # <<>> /\ Renews(Head(stack'), m, node')
    BY <1>1, <2>2, <2>4, <2>5, <2>6 DEF SliceDone
  <2>8. PrjCalls(stack', node')
    <3>1. TypesStay
      BY <1>1 DEF SliceDone, TypesStay
    <3>2. PrjCalls(<<>>, node') /\ <<>> \in Seq({})
      BY DEF PrjCalls
    <3>3. QED
      BY <1>3, <1>4, <3>1, <3>2, PrjCallsKept
  <2>9. QED
    BY <2>2, <2>3, <2>7, <2>8 DEF CallsOK, NoExcute, Top
<1>9. PrjOK'
  <2>1. SUFFICES ASSUME prjNode' # Null
                 PROVE  /\ Named(prjNode', threadIDToNode', Unborn')
                        /\ prjNode' \in DOMAIN node' => node'[prjNode'].type = "prj"
    BY DEF PrjOK
  <2>2. CASE prjNode' = prjNode
    <3>1. Named(prjNode, threadIDToNode, Unborn) /\ (prjNode \in DOMAIN node => node[prjNode].type = "prj")
      BY <2>1, <2>2 DEF WaitInv, PrjOK
    <3>2. prjNode \in Names
      BY <2>1, <2>2 DEF ShapeInv, GlobalsOK
    <3>3. Thread(prjNode) \in Owners \ Unborn
      BY <3>1, <3>2, ThreadOfName DEF Named
    <3>4. QED
      BY <1>1, <1>6, <2>2, <3>1, <3>3 DEF SliceDone, Named
  <2>3. CASE prjNode' \in DOMAIN node /\ node[prjNode'].type = "prj"
    <3>1. prjNode' \in DOMAIN node' /\ node'[prjNode'].type = "prj"
      BY <1>1, <2>3 DEF SliceDone
    <3>2. AllNamed(node', threadIDToNode', Unborn')
      BY DEF ShapeInv, TreeOK
    <3>3. QED
      BY <3>1, <3>2 DEF AllNamed
  <2>4. QED
    BY <1>1, <2>2, <2>3 DEF SliceDone
<1>10. keepChilds' = <<>> /\ Survives'
  BY <1>2 DEF WaitInv, Survives
<1>11. QED
  BY <1>5, <1>7, <1>8, <1>9, <1>10 DEF WaitInv

-----------------------------------------------------------------------------
(* What is executed is called by what renews it, or is a group.            *)
CallsGood(frames, h, M) ==
  /\ \A i \in 2 .. Len(frames) : frames[i].op # "excute"
  /\ PrjCalls(frames, h)
  /\ frames # <<>> /\ frames[1].op = "excute" =>
       /\ Len(frames) >= 2
       /\ \/ frames[1].node \in In(h, M) => h[frames[1].node].type # "leaf"
          \/ Renews(frames[2], frames[1].node, h)

Caller(x, h) ==
  x.op # "excute" /\ (x.op \in PrjOps /\ x.node \in DOMAIN h => h[x.node].type = "prj")

LEMMA FewCalls ==
  ASSUME NEW h, NEW M
  PROVE  /\ CallsGood(<<>>, h, M)
         /\ \A x : Caller(x, h) => CallsGood(<<x>>, h, M)
         /\ \A n, x : /\ Caller(x, h)
                      /\ (n \in In(h, M) => h[n].type # "leaf") \/ Renews(x, n, h)
                      => CallsGood(<<Excute(n), x>>, h, M)
         /\ \A n, x, y : /\ Caller(x, h) /\ Caller(y, h)
                         /\ (n \in In(h, M) => h[n].type # "leaf") \/ Renews(x, n, h)
                         => CallsGood(<<Excute(n), x, y>>, h, M)
         /\ \A x, y, z : Caller(x, h) /\ Caller(y, h) /\ Caller(z, h) =>
              CallsGood(<<x, y>>, h, M) /\ CallsGood(<<x, y, z>>, h, M)
<1>1. CallsGood(<<>>, h, M)
  BY DEF CallsGood, PrjCalls, Caller
<1>2. ASSUME NEW x, Caller(x, h) PROVE CallsGood(<<x>>, h, M)
  BY <1>2 DEF CallsGood, PrjCalls, Caller
<1>3. ASSUME NEW n, NEW x, Caller(x, h), (n \in In(h, M) => h[n].type # "leaf") \/ Renews(x, n, h)
      PROVE  CallsGood(<<Excute(n), x>>, h, M)
  <2>. DEFINE e == Excute(n)
  <2>1. e.node = n
    BY DEF Excute, Frame
  <2>2. e.op \notin PrjOps
    BY DEF Excute, Frame, PrjOps
  <2>. HIDE DEF e
  <2>3. CallsGood(<<e, x>>, h, M)
    BY <1>3, <2>1, <2>2 DEF CallsGood, PrjCalls, Caller
  <2>4. QED
    BY <2>3 DEF e
<1>4. ASSUME NEW n, NEW x, NEW y, Caller(x, h), Caller(y, h),
             (n \in In(h, M) => h[n].type # "leaf") \/ Renews(x, n, h)
      PROVE  CallsGood(<<Excute(n), x, y>>, h, M)
  <2>. DEFINE e == Excute(n)
  <2>1. e.node = n
    BY DEF Excute, Frame
  <2>2. e.op \notin PrjOps
    BY DEF Excute, Frame, PrjOps
  <2>. HIDE DEF e
  <2>3. CallsGood(<<e, x, y>>, h, M)
    BY <1>4, <2>1, <2>2 DEF CallsGood, PrjCalls, Caller
  <2>4. QED
    BY <2>3 DEF e
<1>5. ASSUME NEW x, NEW y, NEW z, Caller(x, h), Caller(y, h), Caller(z, h)
      PROVE  CallsGood(<<x, y>>, h, M) /\ CallsGood(<<x, y, z>>, h, M)
  BY <1>5 DEF CallsGood, PrjCalls, Caller
<1>6. QED
  BY <1>1, <1>2, <1>3, <1>4, <1>5

(* The objects of the threads are those there were, or newer ones.         *)
OnlyNewer(h, M, g, N, U) ==
  /\ \A t \in Owners : N[t] # Null => M[t] # Null /\ M[t][2] <= N[t][2]
  /\ \A m \in DOMAIN g : (m \in DOMAIN h /\ g[m].type = h[m].type) \/ ~Named(m, M, U)
Newer == OnlyNewer(node, threadIDToNode, node', threadIDToNode', Unborn)

LEMMA PrjKept ==
  ASSUME ShapeInv, ShapeInv', PrjOK, UNCHANGED <<prog, todo>>, prjNode' \in {prjNode, Null}, Newer
  PROVE  PrjOK'
<1>1. SUFFICES ASSUME prjNode # Null, prjNode' = prjNode
               PROVE  /\ Named(prjNode, threadIDToNode', Unborn')
                      /\ prjNode \in DOMAIN node' => node'[prjNode].type = "prj"
  BY DEF PrjOK
<1>2. Named(prjNode, threadIDToNode, Unborn) /\ (prjNode \in DOMAIN node => node[prjNode].type = "prj")
  BY <1>1 DEF PrjOK
<1>3. prjNode \in Names /\ Thread(prjNode) \in Owners /\ prjNode[2] \in Nat
  BY <1>1, ThreadOfName DEF ShapeInv, GlobalsOK
<1>4. Unborn' = Unborn
  BY SliceStays
<1>5. Named(prjNode, threadIDToNode', Unborn)
  <2>. DEFINE t == Thread(prjNode)
  <2>1. t \in Owners
    BY <1>3
  <2>2. SUFFICES ASSUME threadIDToNode'[t] # Null PROVE prjNode[2] <= threadIDToNode'[t][2]
    BY <1>2 DEF Named
  <2>3. threadIDToNode[t] # Null /\ threadIDToNode[t][2] <= threadIDToNode'[t][2]
    BY <2>1, <2>2 DEF Newer, OnlyNewer
  <2>4. prjNode[2] <= threadIDToNode[t][2]
    BY <1>2, <2>3 DEF Named
  <2>5. threadIDToNode[t] \in Names /\ threadIDToNode'[t] \in Names
    BY <2>1, <2>2, <2>3 DEF ShapeInv, TreeOK, MapTyped
  <2>6. threadIDToNode[t][2] \in Nat /\ threadIDToNode'[t][2] \in Nat
    BY <2>5, ThreadOfName
  <2>7. \A a, b, c \in Nat : a <= b /\ b <= c => a <= c
    OBVIOUS
  <2>8. QED
    BY <1>3, <2>3, <2>4, <2>6, <2>7
<1>6. prjNode \in DOMAIN node' => node'[prjNode].type = "prj"
  BY <1>2 DEF Newer, OnlyNewer
<1>7. QED
  BY <1>4, <1>5, <1>6

LEMMA NewerTypes ==
  ASSUME ShapeInv, Newer
  PROVE  TypesStay
<1>1. AllNamed(node, threadIDToNode, Unborn)
  BY DEF ShapeInv, TreeOK
<1>2. QED
  BY <1>1 DEF AllNamed, Newer, OnlyNewer, TypesStay

LEMMA TopPrj ==
  ASSUME ShapeInv, LoopInv, WaitInv, stack # <<>>, Top.op \in PrjOps
  PROVE  Walks(Top) /\ Top.node \in DOMAIN node /\ node[Top.node].type = "prj"
<1>1. Walks(Top)
  BY DEF PrjOps, Walks
<1>2. Top.node \in DOMAIN node
  BY <1>1, TopWalks
<1>3. 1 \in 1 .. Len(stack) /\ stack[1] = Top
  <2>1. stack \in Seq(ToSet(stack))
    BY DEF LoopInv, StackShape, IsSeq
  <2>2. \A S : \A s \in Seq(S) : s # <<>> => 1 \in 1 .. Len(s) /\ s[1] = Head(s)
    OBVIOUS
  <2>3. QED
    BY <2>1, <2>2 DEF Top
<1>4. QED
  BY <1>1, <1>2, <1>3 DEF WaitInv, CallsOK, PrjCalls

(* A step that runs no slice.                                              *)
LEMMA StepWaits ==
  ASSUME ShapeInv, ShapeInv', LoopInv, WaitInv, stack # <<>>, UNCHANGED <<prog, todo>>,
         keepChilds' = <<>>, prjNode' \in {prjNode, Null}, process' # "killed", Newer,
         Good(node', threadIDToNode', Back, Quiet, Await), Pending(node', threadIDToNode') = {},
         NEW F, NEW frames \in Seq(F), Do(frames), CallsGood(frames, node', threadIDToNode')
  PROVE  WaitInv'
<1>1. CodeOK' /\ Quiet' = Quiet /\ Await' = Await /\ Back' = Back
  BY NoSlice DEF WaitInv
<1>2. TreeGood'
  BY <1>1 DEF TreeGood
<1>3. CallsOK'
  BY NewerTypes, CallsKept DEF CallsGood
<1>4. PrjOK'
  BY PrjKept DEF WaitInv
<1>5. QED
  BY <1>1, <1>2, <1>3, <1>4 DEF WaitInv, Survives

(* A step that leaves the objects alone, but for extQ and hasExtQ.         *)
QOnly(h, g) ==
  /\ DOMAIN g = DOMAIN h
  /\ \A m \in DOMAIN h : Alike(h[m], g[m]) /\ g[m].father = h[m].father
                         /\ g[m].childs = h[m].childs /\ g[m].hasEmpty = h[m].hasEmpty

LEMMA QuietHeap ==
  ASSUME ShapeInv, WaitInv, QOnly(node, node'), threadIDToNode' = threadIDToNode
  PROVE  /\ Newer /\ Good(node', threadIDToNode', Back, Quiet, Await)
         /\ In(node', threadIDToNode') = In(node, threadIDToNode)
         /\ Pending(node', threadIDToNode') = Pending(node, threadIDToNode)
<1>1. /\ HeapTyped(node) /\ MapTyped(node, threadIDToNode) /\ Joined(node, threadIDToNode)
      /\ Good(node, threadIDToNode, Back, Quiet, Await)
  BY DEF ShapeInv, TreeOK, WaitInv, TreeGood
<1>2. In(node', threadIDToNode') = In(node, threadIDToNode) /\ In(node, threadIDToNode) \subseteq DOMAIN node
  BY DEF In, QOnly
<1>3. Good(node', threadIDToNode', Back, Quiet, Await)
  <2>. DEFINE B == Back
              Q == Quiet
              A == Await
              g == node'
  <2>1. /\ DOMAIN g = DOMAIN node
        /\ \A n \in In(node, threadIDToNode) : /\ Alike(node[n], g[n]) /\ g[n].father = node[n].father
                                              /\ g[n].childs = node[n].childs /\ g[n].hasEmpty = node[n].hasEmpty
    BY <1>2 DEF QOnly
  <2>2. Good(node, threadIDToNode, B, Q, A)
    BY <1>1
  <2>. HIDE DEF B, Q, A, g
  <2>3. Good(g, threadIDToNode, B, Q, A)
    BY <1>1, <2>1, <2>2, GoodSame
  <2>4. QED
    BY <2>3 DEF B, Q, A, g
<1>4. Pending(node', threadIDToNode') = Pending(node, threadIDToNode)
  BY <1>2 DEF Pending, QOnly, Alike
<1>5. Newer
  <2>1. \A t \in Owners : threadIDToNode[t] # Null => threadIDToNode[t][2] <= threadIDToNode[t][2]
    <3>1. \A t \in Owners : threadIDToNode[t] # Null => threadIDToNode[t][2] \in Nat
      BY <1>1, ThreadOfName DEF MapTyped
    <3>2. \A a \in Nat : a <= a
      OBVIOUS
    <3>3. QED
      BY <3>1, <3>2
  <2>2. QED
    BY <2>1 DEF Newer, OnlyNewer, QOnly, Alike
<1>6. QED
  BY <1>2, <1>3, <1>4, <1>5

LEMMA SameIsQOnly == node' = node => QOnly(node, node')
BY DEF QOnly, Alike

LEMMA QuietStep ==
  ASSUME ShapeInv, ShapeInv', LoopInv, WaitInv, stack # <<>>, UNCHANGED <<prog, todo, threadIDToNode>>,
         keepChilds' = <<>>, prjNode' \in {prjNode, Null}, process' # "killed", QOnly(node, node'),
         Pending(node, threadIDToNode) = {},
         NEW F, NEW frames \in Seq(F), Do(frames), CallsGood(frames, node', threadIDToNode')
  PROVE  WaitInv'
<1>1. /\ Newer /\ Good(node', threadIDToNode', Back, Quiet, Await)
      /\ Pending(node', threadIDToNode') = {}
  BY QuietHeap
<1>2. QED
  BY <1>1, StepWaits

LEMMA NoCalls ==
  ASSUME NEW h, NEW M, NEW F, \A x \in F : Caller(x, h), NEW frames \in Seq(F)
  PROVE  CallsGood(frames, h, M)
<1>1. \A i \in 1 .. Len(frames) : frames[i] \in F
  OBVIOUS
<1>2. Len(frames) \in Nat /\ (frames # <<>> => Len(frames) > 0)
  OBVIOUS
<1>3. QED
  BY <1>1, <1>2 DEF CallsGood, PrjCalls, Caller

LEMMA ExtQSet ==
  ASSUME NEW h, HeapTyped(h), NEW f
  PROVE  \A x \in BOOLEAN : QOnly(h, [h EXCEPT ![f].extQ = x]) /\ QOnly(h, [h EXCEPT ![f].hasExtQ = x])
<1>1. ASSUME NEW o \in Objects, NEW x \in BOOLEAN
      PROVE  LET p == [o EXCEPT !.extQ = x]
                 r == [o EXCEPT !.hasExtQ = x]
             IN /\ Alike(o, p) /\ p.father = o.father /\ p.childs = o.childs /\ p.hasEmpty = o.hasEmpty
                /\ Alike(o, r) /\ r.father = o.father /\ r.childs = o.childs /\ r.hasEmpty = o.hasEmpty
  BY DEF Objects, Alike
<1>2. ASSUME NEW x \in BOOLEAN, NEW m \in DOMAIN h
      PROVE  LET p == [h EXCEPT ![f].extQ = x][m]
                 r == [h EXCEPT ![f].hasExtQ = x][m]
             IN /\ Alike(h[m], p) /\ p.father = h[m].father /\ p.childs = h[m].childs /\ p.hasEmpty = h[m].hasEmpty
                /\ Alike(h[m], r) /\ r.father = h[m].father /\ r.childs = h[m].childs /\ r.hasEmpty = h[m].hasEmpty
  <2>1. h[m] \in Objects
    BY DEF HeapTyped
  <2>2. CASE m = f
    BY <1>1, <2>1, <2>2
  <2>3. CASE m # f
    BY <2>3 DEF Alike
  <2>4. QED
    BY <2>2, <2>3
<1>3. QED
  BY <1>2 DEF QOnly

(* Where no leaf is pending.                                               *)
LEMMA OpPending ==
  ASSUME WaitInv, Top.op \notin {"update", "child", "prjp", "prjran"}
  PROVE  Pending(node, threadIDToNode) = {}
BY NonePending

LEMMA PoppedWaits ==
  ASSUME ShapeInv, ShapeInv', LoopInv, WaitInv, ExcuteNothing \/ UpdateNothing \/ Unchanged \/ KeepsDone
  PROVE  WaitInv'
<1>1. /\ stack # <<>> /\ UNCHANGED <<prog, todo, threadIDToNode>> /\ node' = node
      /\ prjNode' = prjNode /\ process' = process /\ Do(<<>>)
  BY DEF ExcuteNothing, UpdateNothing, Unchanged, KeepsDone, At, Pop, globals
<1>2. keepChilds' = <<>> /\ process' # "killed"
  BY <1>1 DEF ExcuteNothing, UpdateNothing, Unchanged, KeepsDone, WaitInv, Survives, globals
<1>3. Pending(node, threadIDToNode) = {}
  <2>1. CASE ~UpdateNothing
    <3>1. Top.op \notin {"update", "child", "prjp", "prjran"}
      BY <2>1 DEF ExcuteNothing, Unchanged, KeepsDone, At, Top
    <3>2. QED
      BY <3>1, OpPending
  <2>2. CASE UpdateNothing
    <3>1. Top.op = "update" /\ Top.node \in DOMAIN node /\ (Top.node = root \/ ~Changed(Top.node))
      BY <2>2 DEF UpdateNothing, At, Top
    <3>2. ASSUME NEW n \in Pending(node, threadIDToNode) PROVE FALSE
      <4>1. Renews(Top, n, node) /\ node[n].type = "leaf" /\ node[n].newType # "leaf" /\ n \in DOMAIN node
        BY <3>2 DEF WaitInv, CallsOK, Pending, In
      <4>2. Top.node = n
        BY <3>1, <4>1 DEF Renews
      <4>3. n = root
        BY <3>1, <4>1, <4>2 DEF Changed
      <4>4. node[n].type \in Groups
        BY <4>1, <4>3 DEF ShapeInv, TreeOK, RootStays, root, Thread
      <4>5. QED
        BY <4>1, <4>4 DEF Groups
    <3>3. QED
      BY <3>2
  <2>3. QED
    BY <2>1, <2>2
<1>4. QOnly(node, node') /\ CallsGood(<<>>, node', threadIDToNode') /\ <<>> \in Seq({})
  BY <1>1, SameIsQOnly, FewCalls
<1>5. QED
  BY <1>1, <1>2, <1>3, <1>4, QuietStep

(* The loop of ManagerThread, and the walk.                                *)
LEMMA LoopWaits ==
  ASSUME ShapeInv, ShapeInv', LoopInv, WaitInv,
         Round \/ Reset \/ Sort \/ Sorted \/ Take \/ UpdateChanged \/ Taken
  PROVE  WaitInv'
<1>. DEFINE M == threadIDToNode'
<1>1. /\ stack # <<>> /\ UNCHANGED <<prog, todo, threadIDToNode>> /\ node' = node
      /\ prjNode' \in {prjNode, Null} /\ process' = process /\ keepChilds' = keepChilds
  BY DEF Round, Reset, Sort, Sorted, Take, UpdateChanged, Taken, At, globals
<1>2. keepChilds' = <<>> /\ process' # "killed"
  BY <1>1 DEF WaitInv, Survives
<1>3. Pending(node, threadIDToNode) = {}
  <2>1. Top.op \notin {"update", "child", "prjp", "prjran"}
    BY DEF Round, Reset, Sort, Sorted, Take, UpdateChanged, Taken, At, Top
  <2>2. QED
    BY <2>1, OpPending
<1>4. QOnly(node, node')
  BY <1>1, SameIsQOnly
<1>5. \A op, n, i : Frame(op, n, i).op = op /\ Frame(op, n, i).node = n
  BY DEF Frame
<1>6. \A n : UpdateNode(n).op = "update" /\ UpdateNode(n).node = n
  BY DEF UpdateNode, Frame
<1>7. CASE Round
  <2>. DEFINE x == Frame("reset", Null, 0)
  <2>1. Do(<<Excute(root), x>>)
    BY <1>7 DEF Round
  <2>2. Caller(x, node')
    BY <1>5 DEF Caller, PrjOps
  <2>3. root \in In(node', M) => node'[root].type # "leaf"
    <3>1. root \in DOMAIN node' => node'[root].type \in Groups
      BY <1>1 DEF ShapeInv, TreeOK, RootStays, root, Thread
    <3>2. QED
      BY <3>1 DEF Groups, In
  <2>. HIDE DEF x, M
  <2>4. CallsGood(<<Excute(root), x>>, node', M)
    BY <2>2, <2>3, FewCalls
  <2>5. <<Excute(root), x>> \in Seq({Excute(root), x})
    OBVIOUS
  <2>6. QED
    BY <1>1, <1>2, <1>3, <1>4, <2>1, <2>4, <2>5, QuietStep DEF M
<1>8. ASSUME NEW op, NEW n, NEW i, op # "excute", op \notin PrjOps, Do(<<Frame(op, n, i)>>) PROVE WaitInv'
  <2>. DEFINE x == Frame(op, n, i)
  <2>1. Caller(x, node')
    BY <1>5, <1>8 DEF Caller
  <2>2. Do(<<x>>)
    BY <1>8
  <2>. HIDE DEF x, M
  <2>3. CallsGood(<<x>>, node', M)
    BY <2>1, FewCalls
  <2>4. <<x>> \in Seq({x})
    OBVIOUS
  <2>5. QED
    BY <1>1, <1>2, <1>3, <1>4, <2>2, <2>3, <2>4, QuietStep DEF M
<1>9. CASE Reset \/ Sorted \/ Taken
  <2>1. CASE Reset
    BY <1>8, <2>1 DEF Reset, PrjOps
  <2>2. CASE Sorted
    BY <1>8, <2>2 DEF Sorted, PrjOps
  <2>3. CASE Taken
    BY <1>8, <2>3 DEF Taken, PrjOps
  <2>4. QED
    BY <1>9, <2>1, <2>2, <2>3
<1>10. CASE Sort
  <2>1. CASE prjNode = Null
    BY <1>8, <1>10, <2>1 DEF Sort, PrjOps
  <2>2. CASE prjNode # Null
    <3>. DEFINE x == Frame("sorted", Null, 0)
    <3>1. Do(<<Excute(prjNode), x>>)
      BY <1>10, <2>2 DEF Sort
    <3>2. Caller(x, node')
      BY <1>5 DEF Caller, PrjOps
    <3>3. prjNode \in In(node', M) => node'[prjNode].type # "leaf"
      BY <1>1, <2>2 DEF WaitInv, PrjOK, In
    <3>. HIDE DEF x, M
    <3>4. CallsGood(<<Excute(prjNode), x>>, node', M)
      BY <3>2, <3>3, FewCalls
    <3>5. <<Excute(prjNode), x>> \in Seq({Excute(prjNode), x})
      OBVIOUS
    <3>6. QED
      BY <1>1, <1>2, <1>3, <1>4, <3>1, <3>4, <3>5, QuietStep DEF M
  <2>3. QED
    BY <2>1, <2>2
<1>11. CASE Take
  <2>. DEFINE n == threadIDToNode[Last(prsnt)]
              x == UpdateNode(n)
              y == Frame("changed", n, Len(prsnt) - 1)
  <2>1. Do(<<Excute(n), x, y>>)
    BY <1>11 DEF Take
  <2>2. Caller(x, node') /\ Caller(y, node') /\ Renews(x, n, node')
    BY <1>5, <1>6 DEF Renews, Caller, PrjOps
  <2>. HIDE DEF x, y, M, n
  <2>3. CallsGood(<<Excute(n), x, y>>, node', M)
    BY <2>2, FewCalls
  <2>4. <<Excute(n), x, y>> \in Seq({Excute(n), x, y})
    OBVIOUS
  <2>5. QED
    BY <1>1, <1>2, <1>3, <1>4, <2>1, <2>3, <2>4, QuietStep DEF M
<1>12. CASE UpdateChanged
  <2>. DEFINE x == UpdateNode(changedNode)
              y == Frame("unchanged", Null, 0)
              z == Frame("taken", Null, Top.i)
  <2>1. Do((IF changedNode = Null THEN <<>> ELSE <<x, y>>) \o <<z>>)
    BY <1>12 DEF UpdateChanged
  <2>2. Caller(x, node') /\ Caller(y, node') /\ Caller(z, node')
    BY <1>5, <1>6 DEF Caller, PrjOps
  <2>. HIDE DEF x, y, z, M
  <2>3. Do(<<z>>) \/ Do(<<x, y>> \o <<z>>)
    <3>1. <<>> \o <<z>> = <<z>>
      OBVIOUS
    <3>2. QED
      BY <2>1, <3>1
  <2>4. <<z>> \in Seq({x, y, z}) /\ <<x, y>> \o <<z>> \in Seq({x, y, z})
    OBVIOUS
  <2>5. CallsGood(<<z>>, node', M) /\ CallsGood(<<x, y>> \o <<z>>, node', M)
    BY <2>2, <2>4, NoCalls
  <2>6. QED
    BY <1>1, <1>2, <1>3, <1>4, <2>3, <2>4, <2>5, QuietStep DEF M
<1>13. QED
  BY <1>7, <1>9, <1>10, <1>11, <1>12
-----------------------------------------------------------------------------
(* The walk: the child that a frame is about is the only one pending.      *)
CallsChild(x) == x.op \in {"child", "prjp", "prjran"}
Place(x) == IF x.op = "child" THEN x.i ELSE IF x.op = "prjp" THEN 2 ELSE 1

LEMMA WalkPending ==
  ASSUME ShapeInv, LoopInv, WaitInv, stack # <<>>, Walks(Top)
  PROVE  LET n == Top.node
             s == node[n].childs
         IN /\ n \in In(node, threadIDToNode) /\ n \in DOMAIN node
            /\ s \in Seq(Names) /\ Len(s) \in Nat
            /\ Top.op = "childs" => Top.i \in Nat \ {0}
            /\ CallsChild(Top) => /\ Place(Top) \in 1 .. Len(s)
                                  /\ Pending(node, threadIDToNode) \subseteq {s[Place(Top)]}
            /\ ~CallsChild(Top) => Pending(node, threadIDToNode) = {}
            /\ s # <<>> => node[n].type # "leaf"
<1>. DEFINE n == Top.node
            s == node[n].childs
<1>1. /\ WalkOK(Top, node, threadIDToNode) /\ n \in In(node, threadIDToNode) /\ n \in DOMAIN node
      /\ s \in Seq(Names) /\ Depth[Thread(n)] \in Nat
  BY TopWalks
<1>2. Len(s) \in Nat
  BY <1>1
<1>3. CallsChild(Top) => Place(Top) \in 1 .. Len(s)
  BY <1>1, <1>2 DEF CallsChild, Place, WalkOK
<1>4. \A m \in Pending(node, threadIDToNode) : CallsChild(Top) /\ m = s[Place(Top)]
  <2>1. \A m \in Pending(node, threadIDToNode) : Renews(Top, m, node)
    BY DEF WaitInv, CallsOK
  <2>2. Top.op # "update"
    BY DEF Walks
  <2>3. QED
    BY <2>1, <2>2 DEF Renews, CallsChild, Place
<1>5. s # <<>> => node[n].type # "leaf"
  <2>1. SUFFICES ASSUME s # <<>>, node[n].type = "leaf" PROVE FALSE
    OBVIOUS
  <2>2. n \in Pending(node, threadIDToNode)
    BY <1>1, <2>1, LeafIdle
  <2>3. CallsChild(Top) /\ n = s[Place(Top)]
    BY <1>4, <2>2
  <2>4. Place(Top) \in 1 .. Len(s)
    BY <1>3, <2>3
  <2>5. Depth[Thread(n)] < Depth[Thread(n)]
    BY <2>3, <2>4, ChildBelow
  <2>6. QED
    BY <1>1, <2>5
<1>6. Top.op = "childs" => Top.i \in Nat \ {0}
  BY <1>1 DEF WalkOK
<1>7. QED
  BY <1>1, <1>2, <1>3, <1>4, <1>5, <1>6

LEMMA WalkWaits ==
  ASSUME ShapeInv, ShapeInv', LoopInv, WaitInv,
         \/ Childs \/ Prj \/ PrjPRuns
         \/ Child /\ ~Changed(node[Top.node].childs[Top.i])
         \/ PrjRanQ /\ ~Changed(node[Top.node].childs[1])
  PROVE  WaitInv'
<1>. DEFINE n == Top.node
            s == node[n].childs
            M == threadIDToNode'
<1>1. /\ stack # <<>> /\ Walks(Top) /\ UNCHANGED <<prog, todo, threadIDToNode>>
      /\ prjNode' = prjNode /\ process' = process /\ keepChilds' = keepChilds
  BY DEF Childs, Child, Prj, PrjPRuns, PrjRanQ, At, globals, Walks, Top
<1>2. keepChilds' = <<>> /\ process' # "killed"
  BY <1>1 DEF WaitInv, Survives
<1>3. /\ n \in In(node, threadIDToNode) /\ n \in DOMAIN node
      /\ s \in Seq(Names) /\ Len(s) \in Nat
      /\ Top.op = "childs" => Top.i \in Nat \ {0}
      /\ CallsChild(Top) => /\ Place(Top) \in 1 .. Len(s)
                            /\ Pending(node, threadIDToNode) \subseteq {s[Place(Top)]}
      /\ ~CallsChild(Top) => Pending(node, threadIDToNode) = {}
  BY <1>1, WalkPending
<1>4. QOnly(node, node')
  <2>. DEFINE on == [node EXCEPT ![n].extQ = TRUE]
              off == [node EXCEPT ![n].extQ = FALSE]
  <2>1. node' = node \/ node' = on \/ node' = off
    BY DEF Childs, Child, Prj, PrjPRuns, PrjRanQ
  <2>2. QOnly(node, on) /\ QOnly(node, off)
    <3>1. HeapTyped(node) /\ TRUE \in BOOLEAN /\ FALSE \in BOOLEAN
      BY ShapeFacts
    <3>. HIDE DEF n
    <3>2. \A x \in BOOLEAN : QOnly(node, [node EXCEPT ![n].extQ = x])
      BY <3>1, ExtQSet
    <3>3. QED
      BY <3>1, <3>2, Zenon
  <2>. HIDE DEF on, off
  <2>3. QED
    BY <2>1, <2>2, SameIsQOnly
<1>5. Pending(node, threadIDToNode) = {}
  <2>1. CallsChild(Top) => ~Changed(s[Place(Top)])
    BY DEF CallsChild, Place, Childs, Child, Prj, PrjPRuns, PrjRanQ, At, Top, CurrentP
  <2>2. \A m \in Pending(node, threadIDToNode) : Changed(m)
    BY DEF Pending, Changed
  <2>3. QED
    BY <1>3, <2>1, <2>2
<1>6. \A op, m, i : Frame(op, m, i).op = op /\ Frame(op, m, i).node = m /\ Frame(op, m, i).i = i
  BY DEF Frame
<1>7. /\ n \in DOMAIN node /\ node'[n].childs = s
      /\ Top.op \in PrjOps => node'[n].type = "prj"
  BY <1>1, <1>3, <1>4, TopPrj DEF QOnly, Alike
<1>8. ASSUME Do(<<>>) PROVE WaitInv'
  <2>1. CallsGood(<<>>, node', M) /\ <<>> \in Seq({})
    BY FewCalls
  <2>2. QED
    BY <1>1, <1>2, <1>4, <1>5, <1>8, <2>1, QuietStep
<1>9. ASSUME NEW x, Caller(x, node'), Do(<<x>>) PROVE WaitInv'
  <2>. HIDE DEF M
  <2>1. CallsGood(<<x>>, node', M)
    BY <1>9, FewCalls
  <2>2. <<x>> \in Seq({x})
    OBVIOUS
  <2>3. QED
    BY <1>1, <1>2, <1>4, <1>5, <1>9, <2>1, <2>2, QuietStep DEF M
<1>10. ASSUME NEW c, NEW x, Caller(x, node'), Renews(x, c, node'), Do(<<Excute(c), x>>) PROVE WaitInv'
  <2>. HIDE DEF M
  <2>1. CallsGood(<<Excute(c), x>>, node', M)
    BY <1>10, FewCalls
  <2>2. <<Excute(c), x>> \in Seq({Excute(c), x})
    OBVIOUS
  <2>3. QED
    BY <1>1, <1>2, <1>4, <1>5, <1>10, <2>1, <2>2, QuietStep DEF M
<1>11. CASE Childs
  <2>1. CASE Top.i > Len(s)
    BY <1>8, <1>11, <2>1 DEF Childs
  <2>2. CASE ~(Top.i > Len(s))
    <3>. DEFINE x == Frame("child", n, Top.i)
    <3>1. Do(<<Excute(s[Top.i]), x>>)
      BY <1>11, <2>2 DEF Childs
    <3>2. Caller(x, node') /\ Renews(x, s[Top.i], node')
      BY <1>6, <1>7 DEF Renews, Caller, PrjOps
    <3>. HIDE DEF x
    <3>3. QED
      BY <1>10, <3>1, <3>2
  <2>3. QED
    BY <2>1, <2>2
<1>12. CASE Child /\ ~Changed(s[Top.i])
  <2>. DEFINE x == Frame("childs", n, Top.i + 1)
  <2>1. Do(<<x>>) /\ Caller(x, node')
    BY <1>6, <1>12 DEF Child, Caller, PrjOps
  <2>. HIDE DEF x
  <2>2. QED
    BY <1>9, <2>1
<1>13. CASE Prj
  <2>1. CASE Len(s) <= 1
    <3>. DEFINE x == Frame("prjq", n, 0)
    <3>1. Do(<<x>>) /\ Caller(x, node')
      BY <1>6, <1>7, <1>13, <2>1 DEF Prj, Caller, PrjOps, At, Top
    <3>. HIDE DEF x
    <3>2. QED
      BY <1>9, <3>1
  <2>2. CASE ~(Len(s) <= 1)
    <3>. DEFINE x == Frame("prjp", n, 0)
    <3>1. Do(<<Excute(s[2]), x>>)
      BY <1>13, <2>2 DEF Prj
    <3>2. Caller(x, node') /\ Renews(x, s[2], node')
      BY <1>6, <1>7, <1>13 DEF Renews, Caller, PrjOps, Prj, At, Top
    <3>. HIDE DEF x
    <3>3. QED
      BY <1>10, <3>1, <3>2
  <2>3. QED
    BY <2>1, <2>2
<1>14. CASE PrjPRuns
  <2>. DEFINE x == Frame("prjq", n, 0)
  <2>1. Do(<<x>>) /\ Caller(x, node')
    BY <1>6, <1>7, <1>14 DEF PrjPRuns, Caller, PrjOps, At, Top
  <2>. HIDE DEF x
  <2>2. QED
    BY <1>9, <2>1
<1>15. CASE PrjRanQ /\ ~Changed(s[1])
  BY <1>8, <1>15 DEF PrjRanQ, Pop
<1>16. QED
  BY <1>11, <1>12, <1>13, <1>14, <1>15
-----------------------------------------------------------------------------
(* Renewals.                                                               *)
LEMMA RenewDomain ==
  ASSUME NEW h, HeapTyped(h), NEW c \in DOMAIN h, NEW q, Successor(c) # c
  PROVE  /\ DOMAIN GetNewNode(h, c, q) = DOMAIN h \cup {Successor(c)}
         /\ GetNewNode(h, c, q)[c].type = h[c].type
<1>1. DOMAIN GetNewNode(h, c, q) = DOMAIN h \cup {Successor(c)}
  BY DEF GetNewNode
<1>2. \E s : GetNewNode(h, c, q)[c] = [h[c] EXCEPT !.childs = s]
  <2>. DEFINE s == IF h[c].newType = "leaf" THEN <<>> ELSE h[c].childs
  <2>1. GetNewNode(h, c, q)[c] = [h[c] EXCEPT !.childs = s]
    BY DEF GetNewNode
  <2>2. QED
    BY <2>1
<1>3. \A o \in Objects : \A s : [o EXCEPT !.childs = s].type = o.type
  BY DEF Objects
<1>4. h[c] \in Objects
  BY DEF HeapTyped
<1>5. QED
  BY <1>1, <1>2, <1>3, <1>4

LEMMA NobodyWaits ==
  ASSUME WaitInv
  PROVE  Waiting(stack, keepChilds) = {}
<1>1. Index(stack, <<>>) = {}
  BY DEF Index
<1>2. keepChilds = <<>>
  BY DEF WaitInv
<1>3. QED
  BY <1>1, <1>2 DEF Waiting

(* The child of a group, which has become a group or a leaf.               *)
RenewedChild(c) ==
  /\ c \in In(node, threadIDToNode) /\ c # root /\ Changed(c)
  /\ node[c].father \in In(node, threadIDToNode) /\ node[node[c].father].type # "leaf"
  /\ c \in ToSet(node[node[c].father].childs)

LEMMA RenewWaits ==
  ASSUME ShapeInv, WaitInv, NEW c, RenewedChild(c), Renew(c)
  PROVE  /\ Newer /\ Good(node', threadIDToNode', Back, Quiet, Await)
         /\ Pending(node', threadIDToNode') \subseteq Pending(node, threadIDToNode) \ {c}
         /\ node[c].father # c
         /\ node'[node[c].father].childs = Replaced(node[node[c].father].childs, c)
<1>. DEFINE new == Successor(c)
            W == Waiting(stack, keepChilds)
<1>1. /\ Unborn \in SUBSET Threads /\ Depth \in [Owners -> Nat]
      /\ TreeOK(node, threadIDToNode, Unborn, W, Depth) /\ HeapTyped(node)
  BY ShapeFacts
<1>2. c \in In(node, threadIDToNode) /\ c # root /\ c \notin W /\ c \in DOMAIN node
  BY NobodyWaits DEF RenewedChild, In
<1>3. PICK q \in BOOLEAN : node' = GetNewNode(node, c, q)
  BY DEF Renew
<1>4. threadIDToNode' = Renewed(threadIDToNode, c)
  BY DEF Renew, Renewed
<1>5. node[c].newType \in Groups \cup {"leaf"} /\ node[c].type # node[c].newType
  <2>1. ObjectGood(node, c, Back, Quiet)
    BY <1>2 DEF WaitInv, TreeGood, Good, AllGood
  <2>2. QED
    BY <2>1 DEF RenewedChild, Changed, ObjectGood, LeafGood, GroupGood
<1>6. RenewedFields(node, c, node')
  <2>1. RenewedFields(node, c, GetNewNode(node, c, q))
    <3>. HIDE DEF W
    <3>1. QED
      BY ONLY <1>1, <1>2, <1>5, q \in BOOLEAN, RenewFields
  <2>2. QED
    BY <1>3, <2>1
<1>7. In(node', threadIDToNode') = (In(node, threadIDToNode) \ {c}) \cup {new}
  <2>1. HasRenewed(node, threadIDToNode, GetNewNode(node, c, q), Renewed(threadIDToNode, c), Unborn,
                   W, Depth, c)
    <3>. HIDE DEF W
    <3>1. QED
      BY ONLY <1>1, <1>2, q \in BOOLEAN, RenewedTree
  <2>2. QED
    BY <1>3, <1>4, <2>1 DEF HasRenewed
<1>8. /\ Good(node', threadIDToNode', Back, Quiet, Await)
      /\ \A m \in In(node', threadIDToNode') : node'[m].type = "leaf" /\ node'[m].newType # "leaf" =>
           m \in In(node, threadIDToNode) \ {c} /\ node[m].type = "leaf" /\ node[m].newType # "leaf"
  <2>. DEFINE B == Back
              Q == Quiet
              A == Await
              g == node'
              N == threadIDToNode'
              h == node
              M == threadIDToNode
              U == Unborn
              D == Depth
  <2>1. D \in [Owners -> Nat] /\ U \in SUBSET Threads /\ TreeOK(h, M, U, W, D)
    BY <1>1
  <2>2. Good(h, M, B, Q, A)
    BY DEF WaitInv, TreeGood
  <2>3. /\ c \in In(h, M) /\ c # root /\ h[c].type # h[c].newType
        /\ h[c].father \in In(h, M) /\ c \in ToSet(h[h[c].father].childs) /\ h[h[c].father].type # "leaf"
    BY <1>2, <1>5 DEF RenewedChild
  <2>4. RenewedFields(h, c, g) /\ N = Renewed(M, c) /\ In(g, N) = (In(h, M) \ {c}) \cup {Successor(c)}
    BY <1>4, <1>6, <1>7
  <2>. HIDE DEF B, Q, A, g, N, h, M, W, U, D
  <2>5. /\ Good(g, N, B, Q, A)
        /\ \A m \in In(g, N) : g[m].type = "leaf" /\ g[m].newType # "leaf" =>
             m \in In(h, M) \ {c} /\ h[m].type = "leaf" /\ h[m].newType # "leaf"
    BY ONLY <2>1, <2>2, <2>3, <2>4, RenewedGood
  <2>6. QED
    BY <2>5 DEF B, Q, A, g, N, h, M
<1>9. /\ new # c /\ new \notin DOMAIN node /\ Thread(new) = Thread(c) /\ node[c].father # c
      /\ \A m \in DOMAIN node \ {c} : Alike(node[m], node'[m])
      /\ \A m \in DOMAIN node \ {c} : m = node[c].father => node'[m].childs = Replaced(node[m].childs, c)
  BY <1>6 DEF RenewedFields
<1>10. node'[node[c].father].childs = Replaced(node[node[c].father].childs, c)
  BY <1>9 DEF RenewedChild, In
<1>11. Newer
  <2>1. /\ threadIDToNode \in [Owners -> Names \cup {Null}] /\ Thread(c) \in Owners
        /\ threadIDToNode[Thread(c)] = c /\ c \in Names /\ c # Null
    BY <1>1, <1>2, Fields, NullIsNoName DEF TreeOK, MapTyped, In
  <2>2. new[2] = c[2] + 1 /\ c[2] \in Nat
    BY <2>1, ThreadOfName DEF Successor
  <2>3. ASSUME NEW t \in Owners, threadIDToNode'[t] # Null
        PROVE  threadIDToNode[t] # Null /\ threadIDToNode[t][2] <= threadIDToNode'[t][2]
    <3>1. CASE t = Thread(c)
      <4>1. threadIDToNode'[t] = new
        BY <1>4, <2>1, <3>1 DEF Renewed
      <4>2. QED
        BY <2>1, <2>2, <3>1, <4>1
    <3>2. CASE t # Thread(c)
      <4>1. threadIDToNode'[t] = threadIDToNode[t]
        BY <1>4, <2>1, <3>2 DEF Renewed
      <4>2. threadIDToNode[t] \in Names
        BY <2>1, <2>3, <4>1
      <4>3. threadIDToNode[t][2] \in Nat
        BY <4>2, ThreadOfName
      <4>4. QED
        BY <2>3, <4>1, <4>3
    <3>3. QED
      BY <3>1, <3>2
  <2>4. DOMAIN node' = DOMAIN node \cup {new} /\ node'[c].type = node[c].type
    BY <1>1, <1>2, <1>3, <1>9, RenewDomain
  <2>5. ~Named(new, threadIDToNode, Unborn)
    BY <1>9, <2>1, <2>2 DEF Named
  <2>6. \A m \in DOMAIN node : node'[m].type = node[m].type
    BY <1>9, <2>4 DEF Alike
  <2>7. QED
    BY <2>3, <2>4, <2>5, <2>6 DEF Newer, OnlyNewer
<1>12. Pending(node', threadIDToNode') \subseteq Pending(node, threadIDToNode) \ {c}
  BY <1>8 DEF Pending
<1>13. QED
  BY <1>8, <1>9, <1>10, <1>11, <1>12

LEMMA WalkRenewsWaits ==
  ASSUME ShapeInv, ShapeInv', LoopInv, WaitInv,
         \/ Child /\ Changed(node[Top.node].childs[Top.i])
         \/ PrjRenewP
         \/ PrjRanQ /\ Changed(node[Top.node].childs[1])
  PROVE  WaitInv'
<1>. DEFINE n == Top.node
            s == node[n].childs
            c == s[Place(Top)]
            M == threadIDToNode'
<1>1. /\ stack # <<>> /\ Walks(Top) /\ CallsChild(Top) /\ UNCHANGED <<prog, todo>>
      /\ prjNode' = prjNode /\ process' = process /\ keepChilds' = keepChilds
      /\ Changed(c) /\ Renew(c)
  BY DEF Child, PrjRenewP, PrjRanQ, At, globals, Walks, CallsChild, Place, Top, CurrentP
<1>2. keepChilds' = <<>> /\ process' # "killed"
  BY <1>1 DEF WaitInv, Survives
<1>3. /\ n \in In(node, threadIDToNode) /\ n \in DOMAIN node
      /\ s \in Seq(Names) /\ Len(s) \in Nat
      /\ Place(Top) \in 1 .. Len(s)
      /\ Pending(node, threadIDToNode) \subseteq {c}
      /\ s # <<>> => node[n].type # "leaf"
  BY <1>1, WalkPending
<1>4. c \in ToSet(s) /\ s # <<>> /\ DOMAIN s = 1 .. Len(s)
  BY <1>1, <1>3, ChildBelow
<1>5. node[c].father = n /\ RenewedChild(c)
  BY <1>1, <1>3, <1>4, ChildFacts DEF RenewedChild
<1>6. /\ Newer /\ Good(node', M, Back, Quiet, Await)
      /\ Pending(node', M) = {}
      /\ node'[n].childs = Replaced(s, c)
  <2>. HIDE DEF s, n, c, M
  <2>1. /\ Newer /\ Good(node', threadIDToNode', Back, Quiet, Await)
        /\ Pending(node', threadIDToNode') \subseteq Pending(node, threadIDToNode) \ {c}
        /\ node'[node[c].father].childs = Replaced(node[node[c].father].childs, c)
    BY <1>1, <1>5, RenewWaits
  <2>2. QED
    BY <1>3, <1>5, <2>1 DEF M, s
<1>7. node'[n].childs[Place(Top)] = Successor(c)
  <2>1. Replaced(s, c)[Place(Top)] = Successor(c)
    BY <1>3, <1>4, ReplacedSeq
  <2>2. QED
    BY <1>6, <2>1
<1>8. \A op, m, i : Frame(op, m, i).op = op /\ Frame(op, m, i).node = m /\ Frame(op, m, i).i = i
  BY DEF Frame
<1>9. CASE Child
  <2>. DEFINE x == Frame("childs", n, Top.i)
  <2>1. Do(<<x>>) /\ Caller(x, node')
    <3>1. Changed(node[Top.node].childs[Top.i])
      BY <1>1, <1>9 DEF Child, At, Top, Place
    <3>2. QED
      BY <1>8, <1>9, <3>1 DEF Child, Caller, PrjOps
  <2>. HIDE DEF x, M
  <2>2. CallsGood(<<x>>, node', M)
    BY <2>1, FewCalls
  <2>3. <<x>> \in Seq({x})
    OBVIOUS
  <2>4. QED
    BY <1>1, <1>2, <1>6, <2>1, <2>2, <2>3, StepWaits DEF M
<1>10. CASE PrjRenewP \/ PrjRanQ
  <2>. DEFINE x == Frame(Top.op, n, 0)
  <2>1. Do(<<Excute(Successor(c)), x>>) /\ Top.op \in {"prjp", "prjran"}
    <3>1. CASE PrjRenewP
      BY <3>1 DEF PrjRenewP, CurrentP, At, Top, Place
    <3>2. CASE PrjRanQ
      <4>1. Top.op = "prjran" /\ c = s[1]
        BY <3>2 DEF PrjRanQ, At, Top, Place
      <4>2. Changed(s[1])
        BY <1>1, <4>1
      <4>3. QED
        BY <3>2, <4>1, <4>2 DEF PrjRanQ
    <3>3. QED
      BY <1>10, <3>1, <3>2
  <2>2. Caller(x, node') /\ Renews(x, Successor(c), node')
    <3>1. node[n].type = "prj" /\ TypesStay
      BY <1>1, <1>6, <2>1, TopPrj, NewerTypes DEF PrjOps
    <3>2. n \in DOMAIN node' => node'[n].type = "prj"
      BY <1>3, <3>1 DEF TypesStay
    <3>3. QED
      BY <1>7, <1>8, <2>1, <3>2 DEF Renews, Place, Caller
  <2>. HIDE DEF x, c, M
  <2>3. CallsGood(<<Excute(Successor(c)), x>>, node', M)
    BY <2>2, FewCalls
  <2>4. <<Excute(Successor(c)), x>> \in Seq({Excute(Successor(c)), x})
    OBVIOUS
  <2>5. QED
    BY <1>1, <1>2, <1>6, <2>1, <2>3, <2>4, StepWaits DEF M
<1>11. QED
  BY <1>9, <1>10

LEMMA UpdateWaits ==
  ASSUME ShapeInv, ShapeInv', LoopInv, WaitInv, UpdateNodeRenews
  PROVE  WaitInv'
<1>. DEFINE c == Top.node
            M == threadIDToNode'
<1>1. /\ stack # <<>> /\ Top.op = "update" /\ UNCHANGED <<prog, todo>>
      /\ prjNode' = prjNode /\ process' = process /\ keepChilds' = keepChilds
      /\ c \in DOMAIN node /\ c # root /\ Changed(c) /\ Found(c) /\ Renew(c)
      /\ Do(<<Excute(Successor(c)), UpdateNode(Successor(c))>>)
  BY DEF UpdateNodeRenews, At, globals, Top
<1>2. keepChilds' = <<>> /\ process' # "killed"
  BY <1>1 DEF WaitInv, Survives
<1>3. \A m \in Pending(node, threadIDToNode) : m = c
  <2>1. \A m \in Pending(node, threadIDToNode) : Renews(Top, m, node)
    BY DEF WaitInv, CallsOK
  <2>2. QED
    BY <1>1, <2>1 DEF Renews
<1>4. c \in In(node, threadIDToNode)
  <2>. DEFINE f == node[c].father
  <2>1. TreeOK(node, threadIDToNode, Unborn, Waiting(stack, keepChilds), Depth) /\ HeapTyped(node)
    BY ShapeFacts
  <2>2. f \in DOMAIN node /\ Contains(node[f].childs, c)
    BY <1>1 DEF Found
  <2>3. node[f].childs \in Seq(Names)
    BY <2>1, <2>2, Fields
  <2>4. \E i \in 1 .. Len(node[f].childs) : node[f].childs[i] = c
    BY <2>2 DEF Contains
  <2>5. c \in ToSet(node[f].childs)
    BY <2>3, <2>4 DEF ToSet
  <2>6. QED
    BY <1>1, <2>1, <2>2, <2>5 DEF TreeOK, Held
<1>5. Thread(c) \notin Back
  <2>1. ObjectGood(node, c, Back, Quiet)
    BY <1>4 DEF WaitInv, TreeGood, Good, AllGood
  <2>2. QED
    BY <1>1, <2>1 DEF Changed, ObjectGood, LeafGood, GroupGood
<1>6. RenewedChild(c)
  <2>1. LET f == node[c].father
        IN /\ f \in In(node, threadIDToNode) /\ c \in ToSet(node[f].childs)
           /\ node[f].type \in Groups \/ f \in Pending(node, threadIDToNode)
    BY <1>1, <1>4, <1>5, FatherIsGroup
  <2>2. node[c].father # c
    <3>1. c \in DOMAIN node /\ Deep(node, Depth) /\ HeapTyped(node)
      BY <1>1, ShapeFacts DEF TreeOK
    <3>2. c # Null /\ Thread(c) \in Owners
      BY <3>1, Fields, NullIsNoName
    <3>3. Depth[Thread(c)] \in Nat
      BY <3>2, ShapeFacts
    <3>4. QED
      BY <3>1, <3>2, <3>3 DEF Deep
  <2>3. node[node[c].father].type \in Groups
    BY <1>3, <2>1, <2>2
  <2>4. QED
    BY <1>1, <1>4, <2>1, <2>3 DEF RenewedChild, Groups
<1>7. Newer /\ Good(node', M, Back, Quiet, Await) /\ Pending(node', M) = {}
  <2>. HIDE DEF c, M
  <2>1. /\ Newer /\ Good(node', threadIDToNode', Back, Quiet, Await)
        /\ Pending(node', threadIDToNode') \subseteq Pending(node, threadIDToNode) \ {c}
    BY <1>1, <1>6, RenewWaits
  <2>2. QED
    BY <1>3, <2>1 DEF M
<1>8. QED
  <2>. DEFINE x == UpdateNode(Successor(c))
  <2>1. Caller(x, node') /\ Renews(x, Successor(c), node')
    BY DEF UpdateNode, Frame, Renews, Caller, PrjOps
  <2>2. Do(<<Excute(Successor(c)), x>>)
    BY <1>1
  <2>. HIDE DEF x, c, M
  <2>3. CallsGood(<<Excute(Successor(c)), x>>, node', M)
    BY <2>1, FewCalls
  <2>4. <<Excute(Successor(c)), x>> \in Seq({Excute(Successor(c)), x})
    OBVIOUS
  <2>5. QED
    BY <1>1, <1>2, <1>7, <2>2, <2>3, <2>4, StepWaits DEF M
-----------------------------------------------------------------------------
(* isCorrectAndExit deletes threads that have returned.                    *)
LEMMA NoneKilled ==
  ASSUME NEW h, NEW gone, Delete(h, gone), Survives,
         \A m \in gone : Thread(m) = Main \/ Thread(m) \in Back
  PROVE  process' # "killed"
<1>1. ~(\E m \in gone : Thread(m) # Main /\ ~Returned(Thread(m)))
  BY DEF Back, Returned
<1>2. process' = process
  BY <1>1 DEF Delete
<1>3. QED
  BY <1>2 DEF Survives

LEMMA DeletedNewer ==
  ASSUME NEW h, NEW M, NEW U, MapTyped(h, M), HeapTyped(h), NEW g, NEW gone, DOMAIN g = DOMAIN h,
         \A m \in DOMAIN h : g[m].type = h[m].type
  PROVE  /\ OnlyNewer(h, M, Without2(g, gone), Unmapped(M, gone), U)
         /\ In(Without2(g, gone), Unmapped(M, gone)) \subseteq In(h, M)
<1>. DEFINE N == Unmapped(M, gone)
            k == Without2(g, gone)
<1>1. DOMAIN M = Owners /\ \A t \in Owners : N[t] = IF M[t] \in gone THEN Null ELSE M[t]
  BY DEF MapTyped, Unmapped
<1>2. DOMAIN k = DOMAIN h \ gone /\ \A m \in DOMAIN h \ gone : k[m] = g[m]
  BY DEF Without2
<1>3. \A t \in Owners : M[t] # Null => M[t][2] \in Nat
  BY ThreadOfName DEF MapTyped
<1>4. \A t \in Owners : N[t] # Null => M[t] # Null /\ M[t][2] <= N[t][2]
  <2>1. \A a \in Nat : a <= a
    OBVIOUS
  <2>2. QED
    BY <1>1, <1>3, <2>1
<1>5. \A m \in DOMAIN k : m \in DOMAIN h /\ k[m].type = h[m].type
  BY <1>2
<1>6. OnlyNewer(h, M, k, N, U)
  BY <1>4, <1>5 DEF OnlyNewer
<1>7. In(k, N) \subseteq In(h, M)
  <2>1. SUFFICES ASSUME NEW m \in In(k, N) PROVE m \in In(h, M)
    OBVIOUS
  <2>2. m \in DOMAIN h /\ N[Thread(m)] = m
    BY <1>5 DEF In
  <2>3. Thread(m) \in Owners /\ m # Null
    BY <2>2, Fields, NullIsNoName
  <2>4. M[Thread(m)] = m
    BY <1>1, <2>2, <2>3
  <2>5. QED
    BY <2>2, <2>4 DEF In
<1>8. QED
  BY <1>6, <1>7

(* It leaves type and the type to be alone.                                *)
LEMMA CheckedTypes ==
  ASSUME ShapeInv, WaitInv, NEW n \in Present
  PROVE  /\ HeapTyped(CheckedHeap(n)) /\ DOMAIN CheckedHeap(n) = DOMAIN node
         /\ \A m \in DOMAIN node : CheckedHeap(n)[m].type = node[m].type
         /\ \A m \in Present : CheckedHeap(n)[m].newType = node[m].newType
<1>1. /\ TreeOK(node, threadIDToNode, Unborn, Waiting(stack, keepChilds), Depth)
      /\ Levels \in Nat /\ Depth \in [Owners -> 0 .. Levels] /\ Present = In(node, threadIDToNode)
  BY ShapeFacts
<1>2. Shrunk(node, CheckedHeap(n))
  BY <1>1, CheckedTree DEF LeavesAlone
<1>3. AllGood(node, threadIDToNode, Back, Quiet)
  BY DEF WaitInv, TreeGood, Good
<1>4. \A m \in Present : Checked[m].obj.newType = node[m].newType
  <2>1. \A m \in Present : /\ KidGood(m, Checked[m])
                           /\ node[m].type # "leaf" => CheckedGood(m, Checked[m])
    BY <1>3, CheckedIsGood
  <2>2. QED
    BY <2>1 DEF KidGood, CheckedGood
<1>5. ASSUME NEW m \in Present PROVE CheckedHeap(n)[m].newType = node[m].newType
  <2>1. m \in DOMAIN node
    BY DEF Present
  <2>2. CheckedHeap(n)[m] = IF m \in Descended[n] THEN Checked[m].obj ELSE node[m]
    BY <2>1 DEF CheckedHeap
  <2>3. QED
    BY <1>4, <2>2
<1>6. QED
  BY <1>2, <1>5 DEF Shrunk

LEMMA CheckWaits ==
  ASSUME ShapeInv, WaitInv, Pending(node, threadIDToNode) = {}, NEW n \in Present,
         NEW h, HeapTyped(h), DOMAIN h = DOMAIN node, Delete(h, CheckedGone(n)),
         \A m \in DOMAIN node :
           /\ h[m].type = CheckedHeap(n)[m].type /\ h[m].father = CheckedHeap(n)[m].father
           /\ h[m].childs = CheckedHeap(n)[m].childs /\ h[m].len = CheckedHeap(n)[m].len
           /\ h[m].hasEmpty = CheckedHeap(n)[m].hasEmpty
           /\ \/ h[m].newType = CheckedHeap(n)[m].newType
              \/ m = n /\ node[n].type # "leaf" /\ h[n].newType = "leaf" /\ Checked[n].exit,
         IsP(n) /\ node[n].type # "leaf" /\ Checked[n].exit => h[n].newType = "leaf"
  PROVE  /\ Newer /\ Good(node', threadIDToNode', Back, Quiet, Await)
         /\ Pending(node', threadIDToNode') = {}
         /\ process' # "killed"
<1>. DEFINE gone == CheckedGone(n)
<1>1. /\ HeapTyped(node) /\ MapTyped(node, threadIDToNode) /\ Present = In(node, threadIDToNode)
  BY ShapeFacts DEF TreeOK
<1>2. node' = Without2(h, gone) /\ threadIDToNode' = Unmapped(threadIDToNode, gone)
  BY DEF Delete, Without2, Unmapped
<1>3. /\ Good(node', threadIDToNode', Back, Quiet, Await)
      /\ \A m \in gone : Thread(m) \in Back
  <2>. DEFINE Q == Quiet
              A == Await
  <2>1. Good(node, threadIDToNode, Back, Q, A)
    BY DEF WaitInv, TreeGood
  <2>. HIDE DEF Q, A
  <2>2. /\ Good(Without2(h, CheckedGone(n)), Unmapped(threadIDToNode, CheckedGone(n)), Back, Q, A)
        /\ \A m \in CheckedGone(n) : Thread(m) \in Back /\ Thread(m) \in Threads
    BY <2>1, CheckKeepsGood
  <2>3. QED
    BY <1>2, <2>2 DEF Q, A
<1>4. /\ \A m \in DOMAIN node : h[m].type = node[m].type
      /\ \A m \in Present : h[m].newType \in {node[m].newType, "leaf"}
  <2>1. /\ \A m \in DOMAIN node : CheckedHeap(n)[m].type = node[m].type
        /\ \A m \in Present : CheckedHeap(n)[m].newType = node[m].newType
    BY CheckedTypes
  <2>2. \A m \in Present : m \in DOMAIN node
    BY DEF Present
  <2>3. QED
    BY <2>1, <2>2
<1>5. Newer /\ In(node', threadIDToNode') \subseteq Present
  <2>1. /\ OnlyNewer(node, threadIDToNode, Without2(h, gone), Unmapped(threadIDToNode, gone), Unborn)
        /\ In(Without2(h, gone), Unmapped(threadIDToNode, gone)) \subseteq In(node, threadIDToNode)
    BY <1>1, <1>4, DeletedNewer
  <2>2. QED
    BY <1>1, <1>2, <2>1 DEF Newer
<1>6. ASSUME NEW m \in Pending(node', threadIDToNode') PROVE FALSE
  <2>1. m \in Present /\ m \in DOMAIN node' /\ node'[m].type = "leaf" /\ node'[m].newType # "leaf"
    BY <1>5 DEF Pending, In
  <2>2. node'[m] = h[m] /\ m \in DOMAIN node
    BY <1>2, <2>1 DEF Without2, Present
  <2>3. node[m].type = "leaf" /\ node[m].newType # "leaf"
    BY <1>4, <2>1, <2>2
  <2>4. m \in Pending(node, threadIDToNode)
    BY <1>1, <2>1, <2>3 DEF Pending
  <2>5. QED
    BY <2>4
<1>7. process' # "killed"
  BY <1>3, NoneKilled DEF WaitInv
<1>8. QED
  BY <1>3, <1>5, <1>6, <1>7

(* A field of n is set that isCorrectAndExit leaves alone.                 *)
LEMMA AfterCheck ==
  ASSUME NEW k, HeapTyped(k), NEW f
  PROVE  /\ \A x \in BOOLEAN : QOnly(k, [k EXCEPT ![f].hasExtQ = x]) /\ HeapTyped([k EXCEPT ![f].hasExtQ = x])
         /\ LET g == [k EXCEPT ![f].newType = "leaf"]
            IN /\ HeapTyped(g) /\ DOMAIN g = DOMAIN k
               /\ f \in DOMAIN k => g[f].newType = "leaf"
               /\ \A m \in DOMAIN k :
                    /\ g[m].type = k[m].type /\ g[m].father = k[m].father
                    /\ g[m].childs = k[m].childs /\ g[m].len = k[m].len /\ g[m].hasEmpty = k[m].hasEmpty
                    /\ m # f => g[m].newType = k[m].newType
<1>1. \A x \in BOOLEAN : QOnly(k, [k EXCEPT ![f].hasExtQ = x]) /\ HeapTyped([k EXCEPT ![f].hasExtQ = x])
  <2>1. \A x \in BOOLEAN : SameShape(k, [k EXCEPT ![f].hasExtQ = x])
    BY SameHeaps
  <2>2. ASSUME NEW x \in BOOLEAN PROVE HeapTyped([k EXCEPT ![f].hasExtQ = x])
    BY <2>1, SameIsShrunk
  <2>3. QED
    BY <2>2, ExtQSet
<1>. DEFINE g == [k EXCEPT ![f].newType = "leaf"]
<1>2. HeapTyped(g)
  <2>1. "leaf" \in Types
    BY DEF Types
  <2>2. SameShape(k, g)
    BY <2>1, SameHeaps
  <2>3. QED
    BY <2>2, SameIsShrunk
<1>. DEFINE Leaf(o) == [o EXCEPT !.newType = "leaf"]
<1>3. \A o \in Objects : LET p == Leaf(o)
                         IN /\ p.newType = "leaf" /\ p.type = o.type /\ p.father = o.father
                            /\ p.childs = o.childs /\ p.len = o.len /\ p.hasEmpty = o.hasEmpty
  BY DEF Objects
<1>4. /\ DOMAIN g = DOMAIN k /\ \A m \in DOMAIN k \ {f} : g[m] = k[m]
      /\ f \in DOMAIN k => g[f] = Leaf(k[f])
  OBVIOUS
<1>. HIDE DEF g, Leaf
<1>5. \A m \in DOMAIN k : k[m] \in Objects
  BY DEF HeapTyped
<1>6. /\ f \in DOMAIN k => g[f].newType = "leaf"
      /\ \A m \in DOMAIN k :
           /\ g[m].type = k[m].type /\ g[m].father = k[m].father
           /\ g[m].childs = k[m].childs /\ g[m].len = k[m].len /\ g[m].hasEmpty = k[m].hasEmpty
           /\ m # f => g[m].newType = k[m].newType
  <2>1. f \in DOMAIN k =>
          /\ g[f].newType = "leaf" /\ g[f].type = k[f].type /\ g[f].father = k[f].father
          /\ g[f].childs = k[f].childs /\ g[f].len = k[f].len /\ g[f].hasEmpty = k[f].hasEmpty
    BY <1>3, <1>4, <1>5
  <2>2. QED
    BY <1>4, <2>1
<1>7. QED
  BY <1>1, <1>2, <1>4, <1>6 DEF g

LEMMA OnlyChecked ==
  ASSUME ShapeInv, WaitInv, Pending(node, threadIDToNode) = {}, NEW n \in Present,
         NEW h, QOnly(CheckedHeap(n), h), HeapTyped(h), Delete(h, CheckedGone(n)),
         ~(IsP(n) /\ node[n].type # "leaf" /\ Checked[n].exit)
  PROVE  /\ Newer /\ Good(node', threadIDToNode', Back, Quiet, Await)
         /\ Pending(node', threadIDToNode') = {}
         /\ process' # "killed"
<1>. DEFINE k == CheckedHeap(n)
<1>1. DOMAIN k = DOMAIN node
  BY CheckedTypes
<1>. HIDE DEF k
<1>2. DOMAIN h = DOMAIN node /\
      \A m \in DOMAIN node :
           /\ h[m].type = k[m].type /\ h[m].father = k[m].father
           /\ h[m].childs = k[m].childs /\ h[m].len = k[m].len
           /\ h[m].hasEmpty = k[m].hasEmpty /\ h[m].newType = k[m].newType
  BY <1>1 DEF QOnly, Alike, k
<1>3. QED
  BY <1>2, CheckWaits DEF k

(* q is no p, and the root neither.                                        *)
LEMMA NoP ==
  ASSUME ShapeInv
  PROVE  /\ ~IsP(root)
         /\ \A n \in In(node, threadIDToNode) : node[n].childs # <<>> => ~IsP(node[n].childs[1])
<1>1. HeapTyped(node) /\ Joined(node, threadIDToNode) /\ Present = In(node, threadIDToNode)
  BY ShapeFacts DEF TreeOK
<1>2. ASSUME NEW f \in Present, NEW i \in 2 .. Len(node[f].childs)
      PROVE  LET c == node[f].childs[i]
             IN /\ f \in In(node, threadIDToNode) /\ c # root /\ node[c].father = f
                /\ i \in 1 .. Len(node[f].childs) /\ IsInjective(node[f].childs)
                /\ DOMAIN node[f].childs = 1 .. Len(node[f].childs)
  <2>1. f \in In(node, threadIDToNode) /\ node[f].childs \in Seq(Names)
    BY <1>1, Fields DEF In
  <2>2. i \in 1 .. Len(node[f].childs)
    BY <2>1
  <2>3. node[f].childs[i] \in ToSet(node[f].childs)
    BY <2>1, <2>2, ChildAt
  <2>4. QED
    BY <1>1, <2>1, <2>2, <2>3, ChildFacts DEF Joined
<1>3. ~IsP(root)
  BY <1>2 DEF IsP
<1>4. ASSUME NEW n \in In(node, threadIDToNode), node[n].childs # <<>>,
             NEW f \in Present, NEW i \in 2 .. Len(node[f].childs), node[f].childs[i] = node[n].childs[1]
      PROVE  FALSE
  <2>1. node[n].childs \in Seq(Names)
    BY <1>1, Fields DEF In
  <2>2. 1 \in 1 .. Len(node[n].childs)
    BY <1>4, <2>1
  <2>3. node[n].childs[1] \in ToSet(node[n].childs)
    BY <1>1, <2>2, ChildAt
  <2>4. node[node[n].childs[1]].father = n
    BY <1>1, <2>3, ChildFacts
  <2>5. n = f
    BY <1>2, <1>4, <2>4
  <2>6. i = 1
    BY <1>2, <1>4, <2>2, <2>5 DEF IsInjective
  <2>7. QED
    BY <2>6
<1>5. QED
  BY <1>3, <1>4 DEF IsP

LEMMA GroupWaits ==
  ASSUME ShapeInv, ShapeInv', LoopInv, WaitInv, ExcuteEnded \/ ExcuteGroup
  PROVE  WaitInv'
<1>. DEFINE n == Top.node
            M == threadIDToNode'
<1>1. /\ stack # <<>> /\ Top.op = "excute" /\ UNCHANGED <<prog, todo>> /\ keepChilds' = keepChilds
      /\ prjNode' = prjNode /\ n \in Present /\ n \in DOMAIN node /\ node[n].type \in Groups /\ Current(n)
  BY DEF ExcuteEnded, ExcuteGroup, GroupOnTop, At, Top, globals, Present, Current
<1>2. keepChilds' = <<>> /\ node[n].type # "leaf"
  BY <1>1 DEF WaitInv, Groups
<1>3. Pending(node, threadIDToNode) = {}
  BY <1>1, OpPending
<1>4. HeapTyped(CheckedHeap(n)) /\ DOMAIN CheckedHeap(n) = DOMAIN node
  BY <1>1, CheckedTypes
<1>5. CASE ExcuteEnded
  <2>. DEFINE k == CheckedHeap(n)
              h == [k EXCEPT ![n].newType = "leaf"]
  <2>1. Checked[n].exit /\ Delete(h, CheckedGone(n)) /\ Do(<<>>)
    BY <1>5 DEF ExcuteEnded, Pop
  <2>. HIDE DEF k
  <2>2. HeapTyped(h) /\ DOMAIN h = DOMAIN node /\ h[n].newType = "leaf"
        /\ \A m \in DOMAIN node :
             /\ h[m].type = k[m].type /\ h[m].father = k[m].father
             /\ h[m].childs = k[m].childs /\ h[m].len = k[m].len /\ h[m].hasEmpty = k[m].hasEmpty
             /\ m # n => h[m].newType = k[m].newType
    <3>1. HeapTyped(k) /\ DOMAIN k = DOMAIN node
      BY <1>4 DEF k
    <3>. HIDE DEF n
    <3>2. QED
      BY <1>1, <3>1, AfterCheck
  <2>. HIDE DEF h
  <2>3. /\ Newer /\ Good(node', threadIDToNode', Back, Quiet, Await)
        /\ Pending(node', threadIDToNode') = {}
        /\ process' # "killed"
    <3>. HIDE DEF n
    <3>1. QED
      BY <1>1, <1>2, <1>3, <2>1, <2>2, CheckWaits DEF k
  <2>4. CallsGood(<<>>, node', M) /\ <<>> \in Seq({})
    BY FewCalls
  <2>5. QED
    BY <1>1, <1>2, <2>1, <2>3, <2>4, StepWaits
<1>6. CASE ExcuteGroup
  <2>1. ~Checked[n].exit /\ Delete(CheckedHeap(n), CheckedGone(n))
    BY <1>6 DEF ExcuteGroup
  <2>2. QOnly(CheckedHeap(n), CheckedHeap(n))
    BY DEF QOnly, Alike
  <2>3. /\ Newer /\ Good(node', threadIDToNode', Back, Quiet, Await)
        /\ Pending(node', threadIDToNode') = {}
        /\ process' # "killed"
    <3>. HIDE DEF n
    <3>1. QED
      BY <1>1, <1>3, <1>4, <2>1, <2>2, OnlyChecked
  <2>. DEFINE x == IF node[n].type = "prj" THEN Frame("prj", n, 0) ELSE Frame("childs", n, 1)
  <2>4. Caller(x, node')
    <3>1. n \in DOMAIN node' => node'[n].type = node[n].type
      BY <1>1, <2>3, NewerTypes DEF TypesStay
    <3>2. QED
      BY <3>1 DEF Frame, Caller, PrjOps
  <2>5. Do(<<x>>)
    <3>1. CASE node[n].type = "prj"
      BY <1>6, <3>1 DEF ExcuteGroup
    <3>2. CASE node[n].type # "prj"
      BY <1>6, <3>2 DEF ExcuteGroup
    <3>3. QED
      BY <3>1, <3>2
  <2>. HIDE DEF x, M
  <2>6. CallsGood(<<x>>, node', M)
    BY <2>4, FewCalls
  <2>7. <<x>> \in Seq({x})
    OBVIOUS
  <2>8. QED
    BY <1>1, <1>2, <2>3, <2>5, <2>6, <2>7, StepWaits DEF M
<1>7. QED
  BY <1>5, <1>6

LEMMA StateEndsWaits ==
  ASSUME ShapeInv, ShapeInv', LoopInv, WaitInv, StateEnds
  PROVE  WaitInv'
<1>1. /\ stack # <<>> /\ Top.op = "take" /\ UNCHANGED <<prog, todo>> /\ keepChilds' = keepChilds
      /\ prjNode' = prjNode /\ Delete(CheckedHeap(root), CheckedGone(root))
  BY DEF StateEnds, At, Top, globals
<1>2. keepChilds = <<>> /\ keepChilds' = <<>>
  BY <1>1 DEF WaitInv
<1>3. Pending(node, threadIDToNode) = {}
  BY <1>1, OpPending
<1>4. root \in Present
  BY <1>1, ShapeFacts DEF ShapeInv, RootThere, TreeOK, RootStays, Present, Current, root, Thread
<1>5. HeapTyped(CheckedHeap(root)) /\ QOnly(CheckedHeap(root), CheckedHeap(root))
  BY <1>4, CheckedTypes DEF QOnly, Alike
<1>6. ~IsP(root)
  BY NoP
<1>7. /\ Newer /\ Good(node', threadIDToNode', Back, Quiet, Await)
      /\ Pending(node', threadIDToNode') = {}
      /\ process' # "killed"
  BY <1>1, <1>3, <1>4, <1>5, <1>6, OnlyChecked
<1>. DEFINE x == Frame("round", Null, 0)
            M == threadIDToNode'
<1>8. Do(<<x>>) /\ Caller(x, node')
  BY <1>2 DEF StateEnds, Frame, Caller, PrjOps
<1>. HIDE DEF x, M
<1>9. CallsGood(<<x>>, node', M)
  BY <1>8, FewCalls
<1>10. <<x>> \in Seq({x})
  OBVIOUS
<1>11. QED
  BY <1>1, <1>2, <1>7, <1>8, <1>9, <1>10, StepWaits DEF M

LEMMA PrjQWaits ==
  ASSUME ShapeInv, ShapeInv', LoopInv, WaitInv, PrjQ
  PROVE  WaitInv'
<1>. DEFINE n == Top.node
            q == node[n].childs[1]
            M == threadIDToNode'
<1>1. /\ stack # <<>> /\ Walks(Top) /\ Top.op = "prjq" /\ UNCHANGED <<prog, todo>>
      /\ prjNode' = prjNode /\ keepChilds' = keepChilds /\ node[n].childs # <<>>
  BY DEF PrjQ, At, globals, Walks, Top
<1>2. keepChilds' = <<>>
  BY <1>1 DEF WaitInv
<1>3. /\ n \in In(node, threadIDToNode) /\ n \in DOMAIN node
      /\ node[n].childs \in Seq(Names) /\ Len(node[n].childs) \in Nat
      /\ Pending(node, threadIDToNode) = {}
  BY <1>1, WalkPending DEF CallsChild
<1>4. node[n].type = "prj" /\ node[n].extQ \in BOOLEAN /\ HeapTyped(node)
  BY <1>1, <1>3, TopPrj, ShapeFacts, Fields DEF PrjOps
<1>5. 1 \in 1 .. Len(node[n].childs)
  BY <1>1, <1>3
<1>6. q \in In(node, threadIDToNode) /\ Depth[Thread(n)] < Depth[Thread(q)]
  BY <1>1, <1>5, ChildBelow
<1>7. q \in Present /\ ~IsP(q)
  BY <1>1, <1>3, <1>6, NoP, ShapeFacts
<1>8. ASSUME Do(<<>>), process' # "killed", Newer,
             Good(node', threadIDToNode', Back, Quiet, Await), Pending(node', threadIDToNode') = {}
      PROVE  WaitInv'
  <2>1. CallsGood(<<>>, node', M) /\ <<>> \in Seq({})
    BY FewCalls
  <2>2. QED
    BY <1>1, <1>2, <1>8, <2>1, StepWaits
<1>9. CASE node[n].extQ
  <2>. DEFINE x == Frame("prjran", n, 0)
              k == CheckedHeap(q)
              h == [k EXCEPT ![n].hasExtQ = node[n].extQ]
  <2>1. Delete(h, CheckedGone(q)) /\ Do(IF ~Checked[q].exit THEN <<Excute(q), x>> ELSE <<>>)
    BY <1>9 DEF PrjQ
  <2>2. HeapTyped(k)
    BY <1>7, CheckedTypes
  <2>3. QOnly(k, h) /\ HeapTyped(h)
    <3>. DEFINE b == node[n].extQ
    <3>1. b \in BOOLEAN
      BY <1>4
    <3>. HIDE DEF k, b, n
    <3>2. \A y \in BOOLEAN : QOnly(k, [k EXCEPT ![n].hasExtQ = y]) /\ HeapTyped([k EXCEPT ![n].hasExtQ = y])
      BY <2>2, AfterCheck
    <3>3. QED
      BY <3>1, <3>2, Zenon DEF b
  <2>4. SameShape(k, h)
    BY <1>4, <2>2, SameHeaps
  <2>. HIDE DEF h
  <2>5. /\ Newer /\ Good(node', threadIDToNode', Back, Quiet, Await)
        /\ Pending(node', threadIDToNode') = {}
        /\ process' # "killed"
    <3>. HIDE DEF q
    <3>1. QED
      BY <1>3, <1>7, <2>1, <2>3, OnlyChecked
  <2>6. node'[n].childs = node[n].childs
    <3>. HIDE DEF q, n
    <3>1. \A m \in In(node, threadIDToNode) :
            Depth[Thread(m)] < Depth[Thread(q)] => node'[m].childs = node[m].childs
      BY <1>6, <2>1, <2>4, HeapChecked
    <3>2. QED
      BY <1>3, <1>6, <3>1
  <2>7. CASE ~Checked[q].exit
    <3>1. Do(<<Excute(q), x>>)
      BY <2>1, <2>7
    <3>2. x.op = "prjran" /\ x.node = n
      BY DEF Frame
    <3>. HIDE DEF x
    <3>3. Caller(x, node')
      <4>1. TypesStay
        BY <2>5, NewerTypes
      <4>2. QED
        BY <1>3, <1>4, <3>2, <4>1 DEF TypesStay, Caller
    <3>4. Renews(x, q, node')
      BY <2>6, <3>2 DEF Renews
    <3>. HIDE DEF q, M
    <3>5. CallsGood(<<Excute(q), x>>, node', M)
      BY <3>3, <3>4, FewCalls
    <3>6. <<Excute(q), x>> \in Seq({Excute(q), x})
      OBVIOUS
    <3>7. QED
      BY <1>1, <1>2, <2>5, <3>1, <3>5, <3>6, StepWaits DEF M
  <2>8. CASE Checked[q].exit
    <3>1. Do(<<>>)
      BY <2>1, <2>8
    <3>2. QED
      BY <1>8, <2>5, <3>1
  <2>9. QED
    BY <2>7, <2>8
<1>10. CASE ~node[n].extQ
  <2>. DEFINE h == [node EXCEPT ![n].hasExtQ = node[n].extQ]
  <2>1. Delete(h, {}) /\ Do(<<>>)
    BY <1>10 DEF PrjQ
  <2>2. QOnly(node, h)
    <3>. DEFINE b == node[n].extQ
    <3>1. b \in BOOLEAN
      BY <1>4
    <3>. HIDE DEF b, n
    <3>2. \A y \in BOOLEAN : QOnly(node, [node EXCEPT ![n].hasExtQ = y])
      BY <1>4, ExtQSet
    <3>3. QED
      BY <3>1, <3>2, Zenon DEF b
  <2>. HIDE DEF h
  <2>3. QOnly(node, node')
    BY <2>1, <2>2 DEF Delete, QOnly
  <2>4. threadIDToNode' = threadIDToNode
    <3>1. threadIDToNode' = [t \in DOMAIN threadIDToNode |-> threadIDToNode[t]]
      BY <2>1 DEF Delete
    <3>2. threadIDToNode \in [Owners -> Names \cup {Null}]
      BY DEF ShapeInv, TreeOK, MapTyped
    <3>3. QED
      BY <3>1, <3>2
  <2>5. process' # "killed"
    BY <2>1, NoneKilled DEF WaitInv
  <2>6. QED
    BY <1>3, <1>8, <2>1, <2>3, <2>4, <2>5, QuietHeap
<1>11. QED
  BY <1>9, <1>10

-----------------------------------------------------------------------------
(* The end of a p: it is a leaf that has returned, and is deleted.         *)
LEMMA BelowLeaf ==
  ASSUME ShapeInv, NEW c \in In(node, threadIDToNode), node[c].childs = <<>>
  PROVE  Below[c] = {c}
<1>. DEFINE all == [m \in Present |-> ToSet(node[m].childs)]
            depth == [m \in Present |-> Depth[Thread(m)]]
<1>1. c \in Present /\ Descends(Present, all, depth, Levels)
  BY ShapeFacts, TreeDescends
<1>2. all[c] = {}
  BY <1>1 DEF ToSet
<1>3. Below = Reach(all)
  BY DEF Below
<1>. HIDE DEF all, depth
<1>4. Reach(all)[c] = {c} \cup UNION {Reach(all)[d] : d \in all[c]}
  BY <1>1, ReachEquation
<1>5. QED
  BY <1>2, <1>3, <1>4

LEMMA EndedP ==
  ASSUME ShapeInv, LoopInv, WaitInv, PrjNextP
  PROVE  LET n == Top.node
             s == node[n].childs
             c == s[2]
         IN /\ stack # <<>> /\ Walks(Top) /\ Top.op = "prjp"
            /\ n \in In(node, threadIDToNode) /\ n \in DOMAIN node /\ node[n].type = "prj"
            /\ s \in Seq(Names) /\ Len(s) \in Nat /\ Len(s) >= 2 /\ IsInjective(s)
            /\ c \in In(node, threadIDToNode) /\ c \in ToSet(s) /\ c # root /\ node[c].father = n
            /\ Thread(c) \in Back /\ node[c].childs = <<>>
            /\ Pending(node, threadIDToNode) = {}
<1>. DEFINE n == Top.node
            s == node[n].childs
            c == s[2]
<1>1. stack # <<>> /\ Walks(Top) /\ Top.op = "prjp" /\ ~Changed(c) /\ node[c].len = "empty"
  BY DEF PrjNextP, At, Walks, Top, CurrentP
<1>2. /\ n \in In(node, threadIDToNode) /\ n \in DOMAIN node
      /\ s \in Seq(Names) /\ Len(s) \in Nat
      /\ 2 \in 1 .. Len(s) /\ Pending(node, threadIDToNode) \subseteq {c}
  BY <1>1, WalkPending DEF CallsChild, Place
<1>3. node[n].type = "prj"
  BY <1>1, TopPrj DEF PrjOps
<1>4. c \in ToSet(s)
  BY <1>2, ChildAt
<1>5. c \in In(node, threadIDToNode) /\ c # root /\ node[c].father = n
  BY <1>2, <1>4, ChildFacts
<1>6. IsInjective(s)
  BY <1>2, ShapeFacts DEF TreeOK, Joined
<1>7. ObjectGood(node, n, Back, Quiet) /\ ObjectGood(node, c, Back, Quiet)
  BY <1>2, <1>5 DEF WaitInv, TreeGood, Good, AllGood
<1>8. Leaves(node[c])
  <2>1. 2 \in 2 .. Len(s)
    BY <1>2
  <2>2. QED
    BY <1>3, <1>7, <2>1 DEF ObjectGood, GroupGood
<1>9. node[c].type = "leaf" /\ node[c].newType = "leaf"
  BY <1>1, <1>8 DEF Leaves, Changed
<1>10. Thread(c) \in Back /\ node[c].childs = <<>>
  BY <1>1, <1>7, <1>9 DEF ObjectGood, LeafGood
<1>11. c \notin Pending(node, threadIDToNode)
  BY <1>9 DEF Pending
<1>12. Pending(node, threadIDToNode) = {}
  BY <1>2, <1>11
<1>13. Len(s) >= 2
  BY <1>2
<1>14. QED
  BY <1>1, <1>2, <1>3, <1>4, <1>5, <1>6, <1>10, <1>12, <1>13

(* The other objects do not depend on it.                                  *)
LEMMA OneLessGood ==
  ASSUME NEW h, HeapTyped(h), NEW n \in DOMAIN h, h[n].type = "prj", NEW R, NEW Z,
         NEW left \in Seq(Names), Len(left) = Len(h[n].childs) - 1, Len(h[n].childs) >= 2,
         \A i \in 1 .. Len(left) : left[i] = h[n].childs[IF i = 1 THEN 1 ELSE i + 1],
         ToSet(left) \subseteq ToSet(h[n].childs), n \notin ToSet(h[n].childs),
         NEW g, DOMAIN g = DOMAIN h, g[n] = [h[n] EXCEPT !.extQ = TRUE, !.childs = left],
         \A m \in DOMAIN h \ {n} : g[m] = h[m]
  PROVE  \A m \in DOMAIN h :
           ToSet(h[m].childs) \subseteq DOMAIN h /\ ObjectGood(h, m, R, Z) => ObjectGood(g, m, R, Z)
<1>. DEFINE s == h[n].childs
<1>1. /\ h[n] \in Objects /\ g[n].childs = left /\ Alike(h[n], g[n])
      /\ g[n].hasEmpty = h[n].hasEmpty /\ g[n].father = h[n].father
  BY DEF HeapTyped, Objects, Alike
<1>2. ASSUME ToSet(s) \subseteq DOMAIN h, ObjectGood(h, n, R, Z) PROVE ObjectGood(g, n, R, Z)
  <2>1. GroupGood(h, n, R, Z)
    BY <1>2 DEF ObjectGood
  <2>2. \A i \in 2 .. Len(left) : Leaves(g[left[i]])
    <3>1. SUFFICES ASSUME NEW i \in 2 .. Len(left) PROVE Leaves(g[left[i]])
      OBVIOUS
    <3>2. Len(s) \in Nat /\ i + 1 \in 2 .. Len(s) /\ left[i] = s[i + 1] /\ i \in 1 .. Len(left)
      BY <1>1 DEF Objects
    <3>3. Leaves(h[s[i + 1]])
      BY <2>1, <3>2 DEF GroupGood
    <3>4. left[i] \in ToSet(left)
      BY <3>2 DEF ToSet
    <3>5. left[i] \in DOMAIN h \ {n}
      BY <1>2, <3>4
    <3>6. g[left[i]] = h[left[i]]
      BY <3>5
    <3>7. QED
      BY <3>2, <3>3, <3>6
  <2>3. HasLen("prj", ToSet(s), Z) => HasLen("prj", ToSet(left), Z)
    BY DEF HasLen
  <2>4. g[n].type = "prj" /\ g[n].newType = h[n].newType /\ g[n].len = h[n].len
    BY <1>1 DEF Alike
  <2>5. GroupGood(g, n, R, Z)
    <3>. HIDE DEF s
    <3>1. "prj" # "and"
      OBVIOUS
    <3>2. QED
      BY <1>1, <2>1, <2>2, <2>3, <2>4 DEF GroupGood, s
  <2>6. QED
    BY <1>2, <2>4, <2>5 DEF ObjectGood
<1>3. ASSUME NEW m \in DOMAIN h \ {n}, ToSet(h[m].childs) \subseteq DOMAIN h, ObjectGood(h, m, R, Z) PROVE ObjectGood(g, m, R, Z)
  <2>1. SameGoods(h, g, m)
    <3>1. \A c \in ToSet(h[m].childs) : Alike(h[c], g[c])
      BY <1>1, <1>3 DEF Alike
    <3>2. QED
      BY <1>3, <3>1 DEF SameGoods, Alike, LeafEnded, Leaves
  <2>2. QED
    BY <1>3, <2>1, ObjectSame
<1>4. QED
  BY <1>2, <1>3

(* All but the second are left.                                            *)
LEMMA OnlySecondGoes ==
  ASSUME NEW S, NEW s \in Seq(S), Len(s) >= 2, NEW left \in Seq(S), Len(left) = Len(s) - 1,
         \A i \in 1 .. Len(left) : left[i] = s[IF i = 1 THEN 1 ELSE i + 1]
  PROVE  ToSet(s) \ {s[2]} \subseteq ToSet(left)
<1>1. SUFFICES ASSUME NEW j \in 1 .. Len(s), s[j] # s[2] PROVE s[j] \in ToSet(left)
  BY DEF ToSet
<1>2. Len(s) \in Nat /\ DOMAIN left = 1 .. Len(left) /\ j \in Nat /\ j # 2
  BY <1>1
<1>. DEFINE i == IF j = 1 THEN 1 ELSE j - 1
<1>3. i \in 1 .. Len(left) /\ j = (IF i = 1 THEN 1 ELSE i + 1)
  <2>1. CASE j = 1
    BY <1>2, <2>1
  <2>2. CASE j # 1
    BY <1>2, <2>2
  <2>3. QED
    BY <2>1, <2>2
<1>. HIDE DEF i
<1>4. left[i] = s[j]
  BY <1>3
<1>5. QED
  BY <1>2, <1>3, <1>4 DEF ToSet

LEMMA PrjNextPWaits ==
  ASSUME ShapeInv, ShapeInv', LoopInv, WaitInv, PrjNextP
  PROVE  WaitInv'
<1>. DEFINE n == Top.node
            s == node[n].childs
            c == s[2]
            left == RemoveAt(s, 2)
            k == [node EXCEPT ![n].extQ = TRUE, ![n].childs = left]
            M == threadIDToNode
            gone == {c}
<1>1. /\ stack # <<>> /\ Walks(Top) /\ Top.op = "prjp"
      /\ n \in In(node, M) /\ n \in DOMAIN node /\ node[n].type = "prj"
      /\ s \in Seq(Names) /\ Len(s) \in Nat /\ Len(s) >= 2 /\ IsInjective(s)
      /\ c \in In(node, M) /\ c \in ToSet(s) /\ c # root /\ node[c].father = n
      /\ Thread(c) \in Back /\ node[c].childs = <<>>
      /\ Pending(node, M) = {}
  BY EndedP
<1>2. /\ HeapTyped(node) /\ MapTyped(node, M) /\ Joined(node, M)
      /\ Good(node, M, Back, Quiet, Await) /\ keepChilds = <<>>
  BY ShapeFacts DEF TreeOK, WaitInv, TreeGood
<1>3. /\ left \in Seq(Names) /\ Len(left) = Len(s) - 1
      /\ ToSet(left) \subseteq ToSet(s) /\ c \notin ToSet(left)
      /\ \A i \in 1 .. Len(left) : left[i] = s[IF i = 1 THEN 1 ELSE i + 1]
  <2>. HIDE DEF s
  <2>1. QED
    BY <1>1, SecondRemoved
<1>4. ToSet(s) \ {c} \subseteq ToSet(left)
  <2>. HIDE DEF s, left
  <2>1. QED
    BY <1>1, <1>3, OnlySecondGoes
<1>5. n \notin ToSet(s)
  <2>1. \A t \in Owners : ~(Depth[t] < Depth[t])
    BY ShapeFacts
  <2>2. QED
    BY <1>1, <2>1, ChildFacts
<1>6. Delete(k, gone) /\ UNCHANGED <<prog, todo>> /\ UNCHANGED <<keepChilds, prjNode>>
  BY <1>1, BelowLeaf DEF PrjNextP, CurrentP, globals
<1>. HIDE DEF left
<1>7. /\ DOMAIN k = DOMAIN node /\ k[n] = [node[n] EXCEPT !.extQ = TRUE, !.childs = left]
      /\ \A m \in DOMAIN node \ {n} : k[m] = node[m]
  BY <1>1
<1>. HIDE DEF k
<1>8. /\ k[n] \in Objects /\ k[n].father = node[n].father /\ Alike(node[n], k[n])
      /\ k[n].childs = left
  <2>1. node[n] \in Objects
    BY <1>1, <1>2 DEF HeapTyped
  <2>2. QED
    BY <1>3, <1>7, <2>1 DEF Objects, Alike
<1>9. HeapTyped(k)
  BY <1>2, <1>7, <1>8 DEF HeapTyped
<1>10. \A m \in DOMAIN node : k[m].father = node[m].father /\ Alike(node[m], k[m])
  BY <1>7, <1>8 DEF Alike
<1>11. \A m \in In(node, M) : ToSet(node[m].childs) \subseteq DOMAIN node
  BY <1>2 DEF Joined, In
<1>12. ASSUME NEW m \in In(node, M)
       PROVE  /\ ToSet(node[m].childs) \ gone \subseteq ToSet(k[m].childs)
              /\ ToSet(k[m].childs) \subseteq DOMAIN node
              /\ ToSet(k[m].childs) \cap gone = {}
  <2>1. CASE m = n
    BY <1>3, <1>4, <1>8, <1>11, <2>1
  <2>2. CASE m # n
    <3>1. k[m] = node[m] /\ m \in DOMAIN node
      BY <1>7, <2>2 DEF In
    <3>2. c \notin ToSet(node[m].childs)
      BY <1>1, <1>2, <2>2 DEF Joined
    <3>3. QED
      BY <1>11, <3>1, <3>2
  <2>3. QED
    BY <2>1, <2>2
<1>13. ASSUME NEW m \in In(node, M) PROVE ObjectGood(k, m, Back, Quiet)
  <2>1. \A d \in DOMAIN node :
           ToSet(node[d].childs) \subseteq DOMAIN node /\ ObjectGood(node, d, Back, Quiet) => ObjectGood(k, d, Back, Quiet)
    <3>. HIDE DEF n
    <3>1. QED
      BY <1>1, <1>2, <1>3, <1>5, <1>7, OneLessGood
  <2>2. ObjectGood(node, m, Back, Quiet) /\ m \in DOMAIN node
    BY <1>2 DEF Good, AllGood, In
  <2>3. QED
    BY <1>11, <2>1, <2>2
<1>14. \A m \in gone : m # root /\ Thread(m) \in Back /\ node[m].childs = <<>>
  BY <1>1
<1>. HIDE DEF gone, M
<1>15. node' = Without2(k, gone) /\ threadIDToNode' = Unmapped(M, gone)
  BY <1>6 DEF Delete, Without2, Unmapped, M
<1>16. Good(Without2(k, gone), Unmapped(M, gone), Back, Quiet, Await)
  <2>. DEFINE A == Await
              B == Back
              Q == Quiet
  <2>1. /\ Good(node, M, B, Q, A)
        /\ \A m \in In(node, M) : ObjectGood(k, m, B, Q)
        /\ \A m \in gone : Thread(m) \in B
    BY <1>2, <1>13, <1>14
  <2>. HIDE DEF A, B, Q
  <2>2. \A m \in In(node, M) : /\ k[m].father = node[m].father
                               /\ ToSet(node[m].childs) \ gone \subseteq ToSet(k[m].childs)
                               /\ ToSet(k[m].childs) \subseteq DOMAIN node
    BY <1>10, <1>12 DEF In
  <2>3. /\ \A m \in In(node, M) \ gone : ObjectGood(k, m, B, Q) /\ ToSet(k[m].childs) \cap gone = {}
        /\ \A m \in In(node, M) \cap gone : m # root /\ Thread(m) \in B /\ node[m].childs = <<>>
    BY <1>12, <1>14, <2>1
  <2>4. Good(Without2(k, gone), Unmapped(M, gone), B, Q, A)
    BY <1>2, <1>7, <1>9, <2>1, <2>2, <2>3, DeletedGood
  <2>5. QED
    BY <2>4 DEF A, B, Q
<1>17. /\ OnlyNewer(node, M, Without2(k, gone), Unmapped(M, gone), Unborn)
       /\ In(Without2(k, gone), Unmapped(M, gone)) \subseteq In(node, M)
  BY <1>2, <1>7, <1>10, DeletedNewer DEF Alike
<1>18. Newer /\ Good(node', threadIDToNode', Back, Quiet, Await)
  BY <1>15, <1>16, <1>17 DEF Newer, M
<1>19. Pending(node', threadIDToNode') = {}
  <2>1. SUFFICES ASSUME NEW m \in Pending(node', threadIDToNode') PROVE FALSE
    OBVIOUS
  <2>2. m \in In(node, M) /\ m \in DOMAIN node
    BY <1>15, <1>17, <2>1 DEF Pending, In
  <2>3. node'[m] = k[m] /\ Alike(node[m], k[m])
    BY <1>10, <1>15, <2>1, <2>2 DEF Pending, In, Without2
  <2>4. m \in Pending(node, M)
    BY <2>1, <2>2, <2>3 DEF Pending, Alike
  <2>5. QED
    BY <1>1, <2>4 DEF M
<1>20. process' # "killed"
  BY <1>6, <1>14, NoneKilled DEF WaitInv
<1>21. n \in DOMAIN node' /\ node'[n].childs = left /\ node'[n].type = "prj"
  <2>1. n \notin gone
    BY <1>1, <1>5 DEF gone
  <2>2. node'[n] = k[n] /\ n \in DOMAIN node'
    BY <1>1, <1>7, <1>15, <2>1 DEF Without2
  <2>3. QED
    BY <1>1, <1>8, <2>2 DEF Alike
<1>22. keepChilds' = <<>> /\ prjNode' \in {prjNode, Null}
  BY <1>2, <1>6
<1>23. CASE Len(left) = 1
  <2>. DEFINE x == Frame("prjq", n, 0)
              N == threadIDToNode'
  <2>1. Do(<<x>>)
    BY <1>23 DEF PrjNextP, left
  <2>2. Caller(x, node')
    BY <1>21 DEF Frame, Caller
  <2>. HIDE DEF x, N
  <2>3. CallsGood(<<x>>, node', N)
    BY <2>2, FewCalls
  <2>4. <<x>> \in Seq({x})
    OBVIOUS
  <2>5. QED
    BY <1>1, <1>6, <1>18, <1>19, <1>20, <1>22, <2>1, <2>3, <2>4, StepWaits DEF N
<1>24. CASE Len(left) # 1
  <2>. DEFINE x == Frame("prjp", n, 0)
              d == left[2]
              N == threadIDToNode'
  <2>1. Do(<<Excute(d), x>>)
    BY <1>24 DEF PrjNextP, left
  <2>2. Caller(x, node') /\ Renews(x, d, node')
    BY <1>21 DEF Frame, Caller, Renews
  <2>. HIDE DEF x, N, d
  <2>3. CallsGood(<<Excute(d), x>>, node', N)
    BY <2>2, FewCalls
  <2>4. <<Excute(d), x>> \in Seq({Excute(d), x})
    OBVIOUS
  <2>5. QED
    BY <1>1, <1>6, <1>18, <1>19, <1>20, <1>22, <2>1, <2>3, <2>4, StepWaits DEF N
<1>25. QED
  BY <1>23, <1>24

-----------------------------------------------------------------------------
(* What is true of the unreturned children of the root, and passes from a  *)
(* father that has not returned to its children, is true of everybody who  *)
(* has not returned.                                                       *)
LEMMA Inherited ==
  ASSUME ShapeInv, WaitInv, NEW S,
         \A n \in In(node, threadIDToNode) \ {root} :
           LET f == node[n].father
           IN /\ Thread(n) \notin Back
              /\ f \in In(node, threadIDToNode) /\ n \in ToSet(node[f].childs)
              /\ f = root \/ f \in S
              => n \in S
  PROVE  \A n \in In(node, threadIDToNode) \ {root} : Thread(n) \notin Back => n \in S
<1>. DEFINE M == threadIDToNode
            Missing(n) == n \in In(node, M) /\ n # root /\ Thread(n) \notin Back /\ n \notin S
            Bad == {i \in Nat : \E n \in In(node, M) : i = Depth[Thread(n)] /\ Missing(n)}
<1>1. \A n \in In(node, M) : Thread(n) \in Owners /\ Depth[Thread(n)] \in Nat
  <2>1. \A n \in In(node, M) : n \in DOMAIN node
    BY DEF In
  <2>2. HeapTyped(node) /\ Depth \in [Owners -> Nat]
    BY ShapeFacts
  <2>3. QED
    BY <2>1, <2>2, Fields
<1>2. SUFFICES ASSUME NEW x, Missing(x) PROVE FALSE
  OBVIOUS
<1>3. Bad \in SUBSET Nat /\ Bad # {}
  <2>1. Depth[Thread(x)] \in Bad
    BY <1>1, <1>2
  <2>2. QED
    BY <2>1
<1>4. PICK i \in Bad : \A j \in Nat : j < i => j \notin Bad
  <2>. HIDE DEF Bad
  <2>1. QED
    BY <1>3, Least
<1>5. PICK n \in In(node, M) : i = Depth[Thread(n)] /\ Missing(n)
  BY <1>4
<1>. DEFINE f == node[n].father
<1>6. /\ f \in In(node, M) /\ n \in ToSet(node[f].childs)
      /\ node[f].type \in Groups \/ f \in Pending(node, M)
  BY <1>5, FatherIsGroup
<1>. HIDE DEF f
<1>7. f # root => Thread(f) \notin Back
  <2>1. ObjectGood(node, f, Back, Quiet)
    BY <1>6 DEF WaitInv, TreeGood, Good, AllGood
  <2>2. QED
    BY <1>6, <2>1 DEF ObjectGood, GroupGood, LeafGood, Pending, Groups
<1>8. f = root \/ f \in S
  <2>1. Depth[Thread(f)] < Depth[Thread(n)]
    BY <1>6, ChildFacts
  <2>2. Depth[Thread(f)] \notin Bad
    BY <1>1, <1>4, <1>5, <1>6, <2>1
  <2>3. ~Missing(f)
    BY <1>1, <1>6, <2>2
  <2>4. QED
    BY <1>6, <1>7, <2>3
<1>9. n \in S
  BY <1>5, <1>6, <1>8 DEF f
<1>10. QED
  BY <1>5, <1>9

LEMMA RootIsIn ==
  ASSUME ShapeInv, root \in DOMAIN node
  PROVE  root \in In(node, threadIDToNode)
BY ShapeFacts DEF TreeOK, RootStays, In, root, Thread

(* When the root has ended, or has been deleted, everybody has returned.   *)
LEMMA EverybodyBack ==
  ASSUME ShapeInv, WaitInv, root \in DOMAIN node => RootEnded
  PROVE  \A n \in In(node, threadIDToNode) \ {root} : Thread(n) \in Back
<1>1. ASSUME NEW n \in In(node, threadIDToNode) \ {root}, Thread(n) \notin Back,
             node[n].father \in In(node, threadIDToNode), n \in ToSet(node[node[n].father].childs),
             node[n].father = root \/ node[n].father \in {}
      PROVE  n \in {}
  <2>1. root \in In(node, threadIDToNode) /\ root \in DOMAIN node /\ n \in ToSet(node[root].childs)
    BY <1>1 DEF In
  <2>2. node[root].type \in Groups /\ node[root].type # "leaf"
    BY <2>1, ShapeFacts DEF TreeOK, RootStays, root, Thread, Groups
  <2>3. GroupGood(node, root, Back, Quiet)
    BY <2>1, <2>2 DEF WaitInv, TreeGood, Good, AllGood, ObjectGood
  <2>4. \A c \in ToSet(node[root].childs) : Thread(c) \in Back
    BY <2>1, <2>3 DEF GroupGood, RootEnded
  <2>5. QED
    BY <1>1, <2>1, <2>4
<1>. DEFINE nobody == {}
<1>2. \A n \in In(node, threadIDToNode) \ {root} :
        LET f == node[n].father
        IN /\ Thread(n) \notin Back
           /\ f \in In(node, threadIDToNode) /\ n \in ToSet(node[f].childs)
           /\ f = root \/ f \in nobody
           => n \in nobody
  BY <1>1
<1>3. \A n \in In(node, threadIDToNode) \ {root} : Thread(n) \notin Back => n \in nobody
  <2>. HIDE DEF nobody
  <2>1. QED
    BY <1>2, Inherited
<1>4. QED
  BY <1>3

(* Everybody who has not returned is below the root.                       *)
LEMMA EverybodyBelow ==
  ASSUME ShapeInv, WaitInv, root \in DOMAIN node
  PROVE  \A n \in In(node, threadIDToNode) : Thread(n) \notin Back => n \in Below[root]
<1>. DEFINE all == [m \in Present |-> ToSet(node[m].childs)]
            depth == [m \in Present |-> Depth[Thread(m)]]
            S == Below[root]
<1>1. /\ root \in Present /\ Descends(Present, all, depth, Levels)
      /\ Present = In(node, threadIDToNode)
  BY RootIsIn, ShapeFacts, TreeDescends
<1>2. Below = Reach(all)
  BY DEF Below
<1>3. \A m \in Present : all[m] = ToSet(node[m].childs)
  OBVIOUS
<1>. HIDE DEF all, depth
<1>4. root \in S /\ S \subseteq Present
  BY <1>1, <1>2, ReachIsBelow
<1>5. \A m \in S : \A c \in all[m] : c \in S
  BY <1>1, <1>2, ReachGoesOn
<1>6. \A m \in S : \A c \in ToSet(node[m].childs) : c \in S
  BY <1>3, <1>4, <1>5
<1>. HIDE DEF S
<1>7. \A n \in In(node, threadIDToNode) \ {root} :
        LET f == node[n].father
        IN /\ Thread(n) \notin Back
           /\ f \in In(node, threadIDToNode) /\ n \in ToSet(node[f].childs)
           /\ f = root \/ f \in S
           => n \in S
  BY <1>4, <1>6
<1>8. \A n \in In(node, threadIDToNode) \ {root} : Thread(n) \notin Back => n \in S
  BY <1>7, Inherited
<1>9. QED
  BY <1>4, <1>8 DEF S

(* The root is deleted with all that is left below it.                     *)
LEMMA DeleteRootWaits ==
  ASSUME ShapeInv, ShapeInv', LoopInv, WaitInv, DeleteRoot
  PROVE  WaitInv'
<1>. DEFINE M == threadIDToNode
            gone == Below[root]
            h == Without2(node, gone)
            N == Unmapped(M, gone)
<1>1. /\ stack # <<>> /\ Top.op = "round" /\ UNCHANGED <<prog, todo>> /\ keepChilds' = keepChilds
      /\ prjNode' = prjNode /\ Delete(node, gone) /\ Do(<<>>) /\ RootEnded
  BY DEF DeleteRoot, At, Top, globals, Pop
<1>2. keepChilds' = <<>> /\ Pending(node, M) = {}
  BY <1>1, OpPending DEF WaitInv
<1>3. \A n \in In(node, M) \ {root} : Thread(n) \in Back
  BY <1>1, EverybodyBack
<1>4. root \in Present /\ Present = In(node, M)
  BY <1>1, RootIsIn, ShapeFacts DEF ShapeInv, RootThere
<1>5. /\ HeapTyped(node) /\ MapTyped(node, M) /\ Joined(node, M)
      /\ BelowGood(root, Waiting(stack, keepChilds), Depth)
      /\ Good(node, M, Back, Quiet, Await)
  BY <1>4, ShapeFacts, BelowTree DEF TreeOK, WaitInv, TreeGood
<1>6. /\ gone \subseteq In(node, M)
      /\ \A m \in In(node, M) \ gone : ToSet(node[m].childs) \subseteq DOMAIN node \ gone
  <2>1. \A m \in In(node, M) : \A c \in ToSet(node[m].childs) : c \in In(node, M) /\ c # root
    BY ChildFacts
  <2>2. QED
    BY <1>4, <1>5, <2>1 DEF BelowGood, In
<1>7. node' = h /\ threadIDToNode' = N
  BY <1>1 DEF Delete, Without2, Unmapped
<1>. HIDE DEF gone
<1>8. OnlyNewer(node, M, h, N, Unborn) /\ In(h, N) \subseteq In(node, M)
  BY <1>5, DeletedNewer
<1>9. \A m \in In(h, N) : m \in In(node, M) /\ m \in DOMAIN node \ gone /\ h[m] = node[m]
  BY <1>8 DEF Without2, In
<1>. HIDE DEF h, N, M
<1>10. AllGood(h, N, Back, Quiet)
  <2>1. SUFFICES ASSUME NEW m \in In(h, N) PROVE ObjectGood(h, m, Back, Quiet)
    BY DEF AllGood
  <2>2. m \in DOMAIN node \ gone /\ ToSet(node[m].childs) \subseteq DOMAIN node \ gone
        /\ ObjectGood(node, m, Back, Quiet)
    BY <1>5, <1>6, <1>9 DEF Good, AllGood
  <2>. DEFINE B == Back
              Q == Quiet
  <2>3. ObjectGood(node, m, B, Q)
    BY <2>2
  <2>. HIDE DEF B, Q
  <2>4. ObjectGood(h, m, B, Q)
    BY <1>5, <2>2, <2>3, FewerObjects DEF h
  <2>5. QED
    BY <2>4 DEF B, Q
<1>11. HomeGood(h, N, Back)
  BY <1>3, <1>9 DEF HomeGood
<1>12. AwaitGood(h, N, Back, Await)
  <2>1. ASSUME NEW t \in Threads, NEW k \in Await[t] \ Back PROVE FALSE
    <3>1. k \in Threads /\ M[k] # Null
      BY <1>5 DEF Good, AwaitGood
    <3>2. M[k] \in In(node, M) /\ Thread(M[k]) = k
      BY <1>5, <3>1 DEF MapTyped, In, Owners
    <3>3. M[k] # root
      BY <3>1, <3>2, ProgramsAssumption DEF root, Thread
    <3>4. QED
      BY <1>3, <2>1, <3>2, <3>3
  <2>2. QED
    BY <2>1 DEF AwaitGood
<1>13. Newer /\ Good(node', threadIDToNode', Back, Quiet, Await)
  BY <1>7, <1>8, <1>10, <1>11, <1>12 DEF Newer, Good, M
<1>14. Pending(node', threadIDToNode') = {}
  BY <1>2, <1>7, <1>9 DEF Pending
<1>15. process' # "killed"
  <2>1. \A m \in gone : Thread(m) = Main \/ Thread(m) \in Back
    BY <1>3, <1>6 DEF root, Thread
  <2>2. QED
    BY <1>1, <2>1, NoneKilled DEF WaitInv
<1>16. CallsGood(<<>>, node', threadIDToNode') /\ <<>> \in Seq({})
  BY FewCalls
<1>17. QED
  BY <1>1, <1>2, <1>13, <1>14, <1>15, <1>16, StepWaits

(* No keep and no alw is executed, and no child of one waits.              *)
LEMMA NoKeeps ==
  ASSUME ShapeInv, LoopInv, WaitInv
  PROVE  ~ExcuteKeep /\ ~ExcuteAlw /\ ~KeepChildDropped /\ ~KeepChildJoins
<1>1. ASSUME NEW type \in {"keep", "alw"}, ThreadOnTop(type) PROVE FALSE
  <2>1. Top.node \in In(node, threadIDToNode) /\ node[Top.node].type = type
    BY <1>1, SliceTop DEF ThreadOnTop, Groups
  <2>2. node[Top.node].type \in Groups \cup {"leaf"}
    BY <2>1 DEF WaitInv, TreeGood, Good, AllGood, ObjectGood
  <2>3. QED
    BY <1>1, <2>1, <2>2 DEF Groups
<1>2. ASSUME At("keeps"), Top.i <= Len(keepChilds) PROVE FALSE
  <2>1. KeepChild \in Waiting(stack, keepChilds)
    BY <1>2, KeepChildWaits
  <2>2. QED
    BY <2>1, NobodyWaits
<1>3. QED
  BY <1>1, <1>2 DEF ExcuteKeep, ExcuteAlw, KeepChildDropped, KeepChildJoins

-----------------------------------------------------------------------------
(* Nobody has run: the children of the root are leaves.                    *)
LEMMA NewGroup ==
  ASSUME NEW type \in Groups, NEW q \in BOOLEAN
  PROVE  LET o == NewNode(type, Null, <<>>, q)
         IN /\ o.type = type /\ o.newType = type /\ o.childs = <<>> /\ o.len = "more" /\ ~o.hasEmpty
            /\ o.father = Null
<1>1. CASE type = "and"
  BY <1>1 DEF NewNode, AndNode, Node
<1>2. CASE type = "pal"
  BY <1>2 DEF NewNode, PalNode, Node
<1>3. CASE type = "prj"
  BY <1>3 DEF NewNode, PrjNode, Node
<1>4. QED
  BY <1>1, <1>2, <1>3 DEF Groups

LEMMA FirstObjects ==
  ASSUME Init
  PROVE  LET top == prog.top
         IN /\ prog \in Programs /\ top \in Seq(Threads) /\ prog.type \in Groups
            /\ DOMAIN node = {root} \cup Newborn(top)
            /\ node[root].type = prog.type /\ node[root].newType = prog.type
            /\ node[root].len = "more" /\ ~node[root].hasEmpty
            /\ ToSet(node[root].childs) = Newborn(top)
            /\ node[root].childs \in Seq(Names)
            /\ \A m \in Newborn(top) :
                 /\ node[m].father = root /\ node[m].type = "leaf" /\ node[m].newType = "leaf"
                 /\ node[m].childs = <<>> /\ node[m].len = "more" /\ m # root
<1>. DEFINE top == prog.top
            h(q) == [n \in {root} |-> NewNode(prog.type, Null, <<>>, q)]
            M == [t \in Owners |-> IF t = Main THEN root ELSE Null]
            U == ToSet(top)
<1>1. prog \in Programs /\ prog.type \in Groups /\ top \in Seq(Threads)
  BY ProgramsAssumption DEF Init
<1>2. PICK q \in BOOLEAN : node = AddLeaves(h(q), root, top)
  BY DEF Init
<1>. DEFINE g == h(q)
<1>3. /\ DOMAIN g = {root} /\ g[root].type = prog.type /\ g[root].newType = prog.type
      /\ g[root].childs = <<>> /\ g[root].len = "more" /\ ~g[root].hasEmpty
  BY <1>1, NewGroup
<1>4. HeapTyped(g)
  <2>. DEFINE o == NewNode(prog.type, Null, <<>>, q)
  <2>1. o \in Objects
    <3>1. <<>> \in Seq(Names) /\ Null \in Names \cup {Null}
      OBVIOUS
    <3>2. QED
      BY <1>1, <3>1 DEF NewNode, AndNode, PalNode, PrjNode, Node, Objects, Types, Groups, Lengths
  <2>2. g[root] = o /\ root \in Names
    BY DEF root, Names
  <2>. HIDE DEF o, g
  <2>3. QED
    BY <1>3, <2>1, <2>2 DEF HeapTyped
<1>5. \A m \in Newborn(top) : m # root
  BY <1>1, ProgramsAssumption DEF Newborn, root, ToSet
<1>6. Newborn(top) \cap DOMAIN g = {}
  BY <1>3, <1>5
<1>7. node = AddLeaves(g, root, top)
  BY <1>2
<1>. HIDE DEF g, top
<1>8. GetsKids(g, root, top, node)
  BY <1>1, <1>3, <1>4, <1>6, <1>7, LeavesAdded
<1>9. QED
  BY <1>1, <1>3, <1>5, <1>8 DEF GetsKids, top

LEMMA NobodyHasRun ==
  ASSUME Init
  PROVE  /\ CodeOK /\ Back = {}
         /\ \A t \in Threads : Await[t] = {}
<1>1. prog \in Programs /\ todo = prog.code /\ prog.code \in [Threads -> Seq(Slices) \ {<<>>}]
  BY ProgramsAssumption DEF Init
<1>2. \A t \in Threads : todo[t] \in Seq(Slices) /\ todo[t] # <<>> /\ Len(todo[t]) \in Nat /\ todo[t] = prog.code[t]
  BY <1>1
<1>3. \A t \in Threads : Done(t) = 0
  BY <1>2 DEF Done
<1>4. CodeOK
  <2>1. todo \in [Threads -> Seq(Slices)]
    BY <1>1
  <2>2. \A t \in Threads : \A i \in 1 .. Len(todo[t]) : 0 + i = i
    BY <1>2
  <2>3. QED
    BY <1>1, <1>2, <1>3, <2>1, <2>2 DEF CodeOK
<1>5. Back = {}
  BY <1>2 DEF Back
<1>6. \A t \in Threads : Await[t] = {}
  BY <1>3 DEF Await
<1>7. QED
  BY <1>4, <1>5, <1>6

LEMMA WaitInvInit ==
  ASSUME Init, Orderly(prog)
  PROVE  WaitInv
<1>. DEFINE top == prog.top
            M == threadIDToNode
<1>1. /\ prog \in Programs /\ top \in Seq(Threads) /\ prog.type \in Groups
      /\ DOMAIN node = {root} \cup Newborn(top)
      /\ node[root].type = prog.type /\ node[root].newType = prog.type
      /\ node[root].len = "more" /\ ~node[root].hasEmpty
      /\ ToSet(node[root].childs) = Newborn(top)
      /\ node[root].childs \in Seq(Names)
      /\ \A m \in Newborn(top) :
           /\ node[m].father = root /\ node[m].type = "leaf" /\ node[m].newType = "leaf"
           /\ node[m].childs = <<>> /\ node[m].len = "more" /\ m # root
  BY FirstObjects
<1>2. CodeOK /\ Back = {} /\ \A t \in Threads : Await[t] = {}
  BY NobodyHasRun
<1>3. ShapeInv /\ root \in In(node, M)
  BY <1>1, ShapeInvInit, RootIsIn
<1>4. GroupGood(node, root, Back, Quiet)
  <2>1. HasLen(prog.type, Newborn(top), Quiet)
    <3>1. HasLength(prog, prog.type, top)
      BY DEF Orderly
    <3>2. \A c \in ToSet(top) : c \in Threads /\ <<c, 0>> \in Newborn(top) /\ Thread(<<c, 0>>) = c
      BY <1>1 DEF Newborn, Thread, ToSet
    <3>3. \A m \in Newborn(top) : Thread(m) \in ToSet(top)
      BY DEF Newborn, Thread
    <3>4. \A c \in ToSet(top) : c \in Quiet <=> SetsNone(prog, c)
      BY <3>2 DEF Quiet
    <3>5. QED
      BY <3>1, <3>2, <3>3, <3>4 DEF HasLength, HasLen
  <2>2. \A i \in 2 .. Len(node[root].childs) : Leaves(node[node[root].childs[i]])
    <3>1. SUFFICES ASSUME NEW i \in 2 .. Len(node[root].childs) PROVE Leaves(node[node[root].childs[i]])
      OBVIOUS
    <3>2. i \in 1 .. Len(node[root].childs) /\ Len(node[root].childs) \in Nat
      BY <1>1
    <3>3. node[root].childs[i] \in Newborn(top)
      BY <1>1, <3>2 DEF ToSet
    <3>4. QED
      BY <1>1, <3>3 DEF Leaves
  <2>3. prog.type # "leaf"
    BY <1>1 DEF Groups
  <2>. HIDE DEF top, M
  <2>4. QED
    BY <1>1, <2>1, <2>2, <2>3 DEF GroupGood
<1>5. AllGood(node, M, Back, Quiet)
  <2>1. SUFFICES ASSUME NEW m \in In(node, M) PROVE ObjectGood(node, m, Back, Quiet)
    BY DEF AllGood
  <2>2. CASE m = root
    BY <1>1, <1>4, <2>2 DEF ObjectGood, Groups
  <2>3. CASE m \in Newborn(top)
    BY <1>1, <2>3 DEF ObjectGood, LeafGood
  <2>4. QED
    BY <1>1, <2>2, <2>3 DEF In
<1>6. HomeGood(node, M, Back)
  BY <1>1, <1>3 DEF HomeGood, In
<1>7. TreeGood
  BY <1>2, <1>5, <1>6 DEF TreeGood, Good, AwaitGood
<1>8. CallsOK
  <2>1. Len(stack) = 1 /\ stack # <<>> /\ stack[1].op = "round" /\ Head(stack).op = "round"
    BY DEF Init
  <2>2. Pending(node, M) = {}
    BY <1>1 DEF Pending, In, Groups
  <2>3. QED
    BY <2>1, <2>2 DEF CallsOK, PrjCalls, PrjOps, LeafCalled
<1>9. PrjOK /\ keepChilds = <<>> /\ Survives
  BY DEF Init, PrjOK, Survives
<1>10. QED
  BY <1>2, <1>7, <1>8, <1>9 DEF WaitInv

LEMMA WaitInvStep ==
  ASSUME ShapeInv, LoopInv, WaitInv, Orderly(prog), [Next]_vars
  PROVE  WaitInv' /\ prog' = prog
<1>1. ShapeInv'
  BY ShapeInvStep
<1>2. CASE ExcuteLeaf
  BY <1>1, <1>2, ExcuteLeafWaits DEF ExcuteLeaf
<1>3. CASE ExcuteEnded \/ ExcuteGroup
  BY <1>1, <1>3, GroupWaits DEF ExcuteEnded, ExcuteGroup
<1>4. CASE ExcuteNothing \/ UpdateNothing \/ Unchanged \/ KeepsDone
  BY <1>1, <1>4, PoppedWaits DEF ExcuteNothing, UpdateNothing, Unchanged, KeepsDone
<1>5. CASE Round \/ Reset \/ Sort \/ Sorted \/ Take \/ UpdateChanged \/ Taken
  BY <1>1, <1>5, LoopWaits DEF Round, Reset, Sort, Sorted, Take, UpdateChanged, Taken
<1>6. CASE Childs \/ Prj \/ PrjPRuns
  BY <1>1, <1>6, WalkWaits DEF Childs, Prj, PrjPRuns
<1>7. CASE Child \/ PrjRanQ \/ PrjRenewP
  BY <1>1, <1>7, WalkWaits, WalkRenewsWaits DEF Child, PrjRanQ, PrjRenewP
<1>8. CASE PrjNextP
  BY <1>1, <1>8, PrjNextPWaits DEF PrjNextP
<1>9. CASE PrjQ
  BY <1>1, <1>9, PrjQWaits DEF PrjQ
<1>10. CASE UpdateNodeRenews
  BY <1>1, <1>10, UpdateWaits DEF UpdateNodeRenews
<1>11. CASE StateEnds
  BY <1>1, <1>11, StateEndsWaits DEF StateEnds
<1>12. CASE DeleteRoot
  BY <1>1, <1>12, DeleteRootWaits DEF DeleteRoot
<1>13. CASE ExitAtOutput \/ Finished \/ UNCHANGED vars
  <2>1. /\ UNCHANGED <<prog, todo, node, threadIDToNode, keepChilds, prjNode, stack>>
        /\ process' \in {process, "exited"}
    BY <1>13 DEF ExitAtOutput, Finished, vars, globals
  <2>2. Quiet' = Quiet /\ Await' = Await /\ Back' = Back /\ CodeOK' /\ Unborn' = Unborn
    BY <2>1, NoSlice, SliceStays DEF WaitInv
  <2>3. TreeGood'
    BY <2>1, <2>2 DEF WaitInv, TreeGood
  <2>4. CallsOK'
    BY <2>1 DEF WaitInv, CallsOK, Top
  <2>5. PrjOK' /\ Survives' /\ keepChilds' = <<>>
    BY <2>1, <2>2 DEF WaitInv, PrjOK, Survives
  <2>6. QED
    BY <2>1, <2>2, <2>3, <2>4, <2>5 DEF WaitInv
<1>14. ~ExcuteKeep /\ ~ExcuteAlw /\ ~KeepChildDropped /\ ~KeepChildJoins
  BY NoKeeps
<1>15. QED
  BY <1>2, <1>3, <1>4, <1>5, <1>6, <1>7, <1>8, <1>9, <1>10, <1>11, <1>12, <1>13, <1>14 DEF Next

-----------------------------------------------------------------------------
(* The program stays, and only a slice takes from what is left to run.     *)
LEMMA OnlySlicesRun ==
  ASSUME [Next]_vars
  PROVE  /\ prog' = prog
         /\ todo' = todo \/ ExcuteLeaf \/ ExcuteKeep \/ ExcuteAlw
<1>1. CASE ExcuteLeaf \/ ExcuteKeep \/ ExcuteAlw
  BY <1>1 DEF ExcuteLeaf, ExcuteKeep, ExcuteAlw
<1>2. CASE ExcuteNothing \/ ExcuteEnded \/ ExcuteGroup \/ Childs \/ Child
  BY <1>2 DEF ExcuteNothing, ExcuteEnded, ExcuteGroup, Childs, Child
<1>3. CASE Prj \/ PrjRenewP \/ PrjNextP \/ PrjPRuns \/ PrjQ \/ PrjRanQ
  BY <1>3 DEF Prj, PrjRenewP, PrjNextP, PrjPRuns, PrjQ, PrjRanQ
<1>4. CASE UpdateNothing \/ UpdateNodeRenews \/ KeepChildDropped \/ KeepChildJoins \/ KeepsDone
  BY <1>4 DEF UpdateNothing, UpdateNodeRenews, KeepChildDropped, KeepChildJoins, KeepsDone
<1>5. CASE \/ ExitAtOutput \/ Round \/ Reset \/ Sort \/ Sorted \/ Take \/ UpdateChanged \/ Unchanged
           \/ Taken
  BY <1>5 DEF ExitAtOutput, Round, Reset, Sort, Sorted, Take, UpdateChanged, Unchanged, Taken
<1>6. CASE StateEnds \/ DeleteRoot \/ Finished \/ UNCHANGED vars
  BY <1>6 DEF StateEnds, DeleteRoot, Finished, vars
<1>7. QED
  BY <1>1, <1>2, <1>3, <1>4, <1>5, <1>6 DEF Next

(* The inductive invariant of an orderly statement.                        *)
OrderlyInv == ShapeInv /\ LoopInv /\ WaitInv /\ Orderly(prog)

LEMMA OrderlyInvKept == Spec /\ Orderly(prog) => []OrderlyInv
<1>1. Init /\ Orderly(prog) => OrderlyInv
  BY ShapeInvInit, LoopInvInit, WaitInvInit DEF OrderlyInv
<1>2. OrderlyInv /\ [Next]_vars => OrderlyInv'
  BY ShapeInvStep, LoopInvStep, WaitInvStep DEF OrderlyInv
<1>3. QED
  BY <1>1, <1>2, PTL DEF Spec

(* No delete finds a thread of an orderly statement that has not returned, *)
(* so that no signal ends the process.                                     *)
THEOREM OrderlySurvives == Spec /\ Orderly(prog) => []Survives
<1>1. OrderlyInv => Survives
  BY DEF OrderlyInv, WaitInv
<1>2. QED
  BY <1>1, OrderlyInvKept, PTL

(* Where the statements without keep and alw are orderly, it takes a keep  *)
(* or an alw to have a thread killed.                                      *)
THEOREM OnlyKeepsCanBeKilled ==
  ASSUME KeeplessAreOrderly
  PROVE  Spec => []OnlyKeepsAreKilled
<1>. DEFINE Inv == ShapeInv /\ LoopInv /\ (Keepless(prog) => OrderlyInv)
<1>1. Init => Inv
  <2>1. Init => prog \in Programs
    BY DEF Init
  <2>2. QED
    BY <2>1, ShapeInvInit, LoopInvInit, WaitInvInit DEF OrderlyInv, KeeplessAreOrderly
<1>2. Inv /\ [Next]_vars => Inv'
  <2>1. SUFFICES ASSUME Inv, [Next]_vars PROVE Inv'
    OBVIOUS
  <2>2. ShapeInv' /\ LoopInv' /\ prog' = prog
    BY <2>1, ShapeInvStep, LoopInvStep, OnlySlicesRun
  <2>3. OrderlyInv => OrderlyInv'
    BY <2>1, <2>2, WaitInvStep DEF OrderlyInv
  <2>4. QED
    BY <2>1, <2>2, <2>3
<1>3. Inv => OnlyKeepsAreKilled
  BY DEF OrderlyInv, WaitInv, Survives, OnlyKeepsAreKilled
<1>4. QED
  BY <1>1, <1>2, <1>3, PTL DEF Spec

(* No thread of an orderly statement is forgotten: when a group becomes a  *)
(* leaf, all that getNewNode leaves behind have returned.                  *)
THEOREM NobodyIsForgotten == Spec /\ Orderly(prog) => []NoOrphan
<1>1. OrderlyInv => NoOrphan
  <2>. SUFFICES ASSUME OrderlyInv, NEW t \in Threads, threadIDToNode[t] # Null, ~Returned(t)
                PROVE  threadIDToNode[t] \in IF root \in DOMAIN node THEN Below[root] ELSE {}
    BY DEF NoOrphan
  <2>. DEFINE n == threadIDToNode[t]
  <2>1. ShapeInv /\ WaitInv
    BY DEF OrderlyInv
  <2>2. n \in In(node, threadIDToNode) /\ Thread(n) = t
    BY <2>1, ShapeFacts DEF TreeOK, MapTyped, In, Owners
  <2>3. Thread(n) \notin Back /\ n # root
    BY <2>2, ProgramsAssumption DEF Back, Returned, root, Thread
  <2>4. CASE root \in DOMAIN node
    BY <2>1, <2>2, <2>3, <2>4, EverybodyBelow
  <2>5. CASE root \notin DOMAIN node
    BY <2>1, <2>2, <2>3, <2>5, EverybodyBack
  <2>6. QED
    BY <2>4, <2>5
<1>2. QED
  BY <1>1, OrderlyInvKept, PTL

(* A slice after the creation of threads: all of them have returned.       *)
LEMMA WaitedForChildren ==
  ASSUME OrderlyInv, [Next]_vars, NEW t \in Threads, todo[t] # todo'[t],
         Done(t) > 0, Creates(t, Done(t)), NEW c \in ToSet(prog.code[t][Done(t)].kids)
  PROVE  Returned(c)
<1>. DEFINE M == threadIDToNode
            n == Top.node
<1>1. ShapeInv /\ LoopInv /\ WaitInv
  BY DEF OrderlyInv
<1>2. ExcuteLeaf
  BY <1>1, OnlySlicesRun, NoKeeps
<1>3. ThreadOnTop("leaf") /\ RunSlice(n)
  BY <1>2 DEF ExcuteLeaf
<1>4. n \in In(node, M) /\ node[n].childs = <<>> /\ Thread(n) \in Threads
  BY <1>1, <1>3, RunningLeaf
<1>5. t = Thread(n) /\ M[t] = n
  <2>1. todo \in [Threads -> Seq(Slices)]
    BY <1>1 DEF WaitInv, CodeOK
  <2>2. todo' = [todo EXCEPT ![Thread(n)] = Tail(@)]
    BY <1>3 DEF RunSlice
  <2>. HIDE DEF n
  <2>3. t = Thread(n)
    BY <2>1, <2>2
  <2>4. QED
    BY <1>4, <2>3 DEF In
<1>6. c \in Await[t]
  BY DEF Await
<1>7. Good(node, M, Back, Quiet, Await) /\ MapTyped(node, M)
  BY <1>1, ShapeFacts DEF WaitInv, TreeGood, TreeOK
<1>8. ASSUME c \notin Back PROVE FALSE
  <2>1. c \in Threads /\ M[c] # Null /\ node[M[c]].father = n
    BY <1>5, <1>6, <1>7, <1>8 DEF Good, AwaitGood
  <2>2. M[c] \in In(node, M) /\ Thread(M[c]) = c
    BY <1>7, <2>1 DEF MapTyped, In, Owners
  <2>3. M[c] # root
    BY <2>1, <2>2, ProgramsAssumption DEF root, Thread
  <2>4. M[c] \in ToSet(node[n].childs)
    BY <1>7, <1>8, <2>1, <2>2, <2>3 DEF Good, HomeGood
  <2>5. QED
    BY <1>4, <2>4 DEF ToSet
<1>9. QED
  BY <1>8, ProgramsAssumption DEF Back, Returned

(* A thread of an orderly statement goes on after MyWaitForObject only     *)
(* when all that the statement it waits for has created have returned.     *)
THEOREM OrderlyWaitsForChildren == Spec /\ Orderly(prog) => WaitsForChildren
<1>. DEFINE Waited ==
       \A t \in Threads :
         todo[t] # todo'[t] /\ Done(t) > 0 /\ Creates(t, Done(t)) =>
           \A c \in ToSet(prog.code[t][Done(t)].kids) : Returned(c)
<1>1. OrderlyInv /\ [Next]_vars => [Waited]_vars
  BY WaitedForChildren
<1>2. QED
  BY <1>1, OrderlyInvKept, PTL DEF Spec, WaitsForChildren
=============================================================================
