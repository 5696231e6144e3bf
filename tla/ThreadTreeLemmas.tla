-------------------------- MODULE ThreadTreeLemmas --------------------------
(***************************************************************************)
(* What the operators of ThreadTree do to the shape of the tree: who is    *)
(* whose father and child.                                                 *)
(***************************************************************************)
EXTENDS ThreadTree, SequenceTheorems, NaturalsInduction, WellFoundedInduction, TLAPS

-----------------------------------------------------------------------------
(* Induction is not to be had; a least counterexample is.                  *)
LEMMA Least ==
  ASSUME NEW S \in SUBSET Nat, S # {}
  PROVE  \E n \in S : \A m \in Nat : m < n => m \notin S
<1>1. PICK n \in S : \A m \in S : <<m, n>> \notin OpToRel(<, Nat)
  BY NatLessThanWellFounded, WFMin
<1>2. ASSUME NEW m \in Nat, m < n, m \in S PROVE FALSE
  <2>1. <<m, n>> \in OpToRel(<, Nat)
    BY <1>2 DEF OpToRel
  <2>2. QED
    BY <1>1, <1>2, <2>1
<1>3. QED
  BY <1>2

(* What is left of a vector are elements of it, each at most as often.     *)
WithoutBody(s, gone, L) ==
  [i \in 0 .. Len(s) |->
     IF i = 0 THEN <<>>
     ELSE IF s[i] \in gone THEN L[i - 1] ELSE Append(L[i - 1], s[i])]

LEMMA WithoutExists ==
  ASSUME NEW S, NEW s \in Seq(S), NEW gone
  PROVE  \E L : L = WithoutBody(s, gone, L)
<1>. DEFINE Good(k) == \E L : \A i \in 0 .. Len(s) :
                         i <= k => L[i] = WithoutBody(s, gone, L)[i]
            Bad == {k \in Nat : ~Good(k)}
<1>0. Len(s) \in Nat
  OBVIOUS
<1>1. ASSUME NEW k \in Nat, k > 0, Good(k - 1) PROVE Good(k)
  <2>1. PICK L : \A i \in 0 .. Len(s) : i <= k - 1 => L[i] = WithoutBody(s, gone, L)[i]
    BY <1>1
  <2>. DEFINE M == WithoutBody(s, gone, L)
  <2>2. ASSUME NEW i \in 0 .. Len(s), i <= k PROVE M[i] = WithoutBody(s, gone, M)[i]
    <3>1. CASE i = 0
      BY <3>1 DEF WithoutBody
    <3>2. CASE i # 0
      <4>1. i - 1 \in 0 .. Len(s) /\ i - 1 <= k - 1
        BY <1>0, <1>1, <2>2, <3>2
      <4>2. M[i - 1] = L[i - 1]
        BY <2>1, <4>1
      <4>3. M[i] = IF s[i] \in gone THEN L[i - 1] ELSE Append(L[i - 1], s[i])
        BY <3>2 DEF WithoutBody
      <4>4. WithoutBody(s, gone, M)[i]
              = IF s[i] \in gone THEN M[i - 1] ELSE Append(M[i - 1], s[i])
        BY <3>2 DEF WithoutBody
      <4>5. QED
        BY <4>2, <4>3, <4>4
    <3>3. QED
      BY <3>1, <3>2
  <2>3. QED
    BY <2>2
<1>2. Good(0)
  <2>. DEFINE M == [i \in 0 .. Len(s) |-> <<>>]
  <2>1. \A i \in 0 .. Len(s) : i <= 0 => M[i] = WithoutBody(s, gone, M)[i]
    BY <1>0 DEF WithoutBody
  <2>2. QED
    BY <2>1
<1>3. Bad = {}
  <2>1. SUFFICES ASSUME Bad # {} PROVE FALSE
    OBVIOUS
  <2>2. PICK k \in Bad : \A m \in Nat : m < k => m \notin Bad
    BY <2>1, Least
  <2>3. k \in Nat /\ ~Good(k)
    OBVIOUS
  <2>4. k # 0
    BY <1>2, <2>3
  <2>5. k - 1 \in Nat /\ k - 1 < k /\ k > 0
    BY <2>3, <2>4
  <2>6. Good(k - 1)
    BY <2>2, <2>5
  <2>7. QED
    BY <1>1, <2>3, <2>5, <2>6
<1>4. Good(Len(s))
  BY <1>0, <1>3
<1>5. PICK L : \A i \in 0 .. Len(s) : i <= Len(s) => L[i] = WithoutBody(s, gone, L)[i]
  BY <1>4
<1>. DEFINE M == WithoutBody(s, gone, L)
<1>6. \A i \in 0 .. Len(s) : M[i] = L[i]
  BY <1>0, <1>5
<1>7. WithoutBody(s, gone, M) = M
  BY <1>0, <1>6 DEF WithoutBody
<1>8. QED
  BY <1>7

LEMMA WithoutIsPart ==
  ASSUME NEW S, NEW s \in Seq(S), NEW gone
  PROVE  /\ Without(s, gone) \in Seq(S)
         /\ ToSet(Without(s, gone)) \subseteq ToSet(s)
         /\ IsInjective(s) => IsInjective(Without(s, gone))
<1>. DEFINE L == CHOOSE L : L = WithoutBody(s, gone, L)
<1>1. L = WithoutBody(s, gone, L)
  BY WithoutExists
<1>2. Without(s, gone) = L[Len(s)]
  BY Zenon DEF Without, WithoutBody
<1>. HIDE DEF L
<1>3. Len(s) \in Nat
  OBVIOUS
<1>. DEFINE Part(i) ==
       /\ L[i] \in Seq(S)
       /\ \A a \in 1 .. Len(L[i]) : \E j \in 1 .. i : L[i][a] = s[j]
       /\ IsInjective(s) => \A a, b \in 1 .. Len(L[i]) : L[i][a] = L[i][b] => a = b
            Bad == {k \in 0 .. Len(s) : ~Part(k)}
<1>4. Part(0)
  <2>1. L[0] = <<>>
    BY <1>1, <1>3 DEF WithoutBody
  <2>2. QED
    BY <2>1
<1>5. ASSUME NEW k \in 1 .. Len(s), Part(k - 1) PROVE Part(k)
  <2>0. k \in 0 .. Len(s) /\ k - 1 \in 0 .. Len(s) /\ k # 0
    BY <1>3
  <2>1. L[k] = IF s[k] \in gone THEN L[k - 1] ELSE Append(L[k - 1], s[k])
    BY <1>1, <2>0 DEF WithoutBody
  <2>2. CASE s[k] \in gone
    <3>1. L[k] = L[k - 1]
      BY <2>1, <2>2
    <3>2. \A j \in 1 .. k - 1 : j \in 1 .. k
      BY <2>0
    <3>3. QED
      BY <1>5, <3>1, <3>2
  <2>3. CASE s[k] \notin gone
    <3>. DEFINE t == L[k - 1]
    <3>1. L[k] = Append(t, s[k]) /\ t \in Seq(S) /\ s[k] \in S
      BY <1>5, <2>1, <2>3
    <3>2. L[k] \in Seq(S) /\ Len(t) \in Nat /\ Len(L[k]) = Len(t) + 1
      BY <3>1
    <3>3. L[k][Len(t) + 1] = s[k] /\ \A a \in 1 .. Len(t) : L[k][a] = t[a]
      BY <3>1
    <3>4. \A a \in 1 .. Len(L[k]) : a \in 1 .. Len(t) \/ a = Len(t) + 1
      BY <3>2
    <3>5. \A a \in 1 .. Len(t) : \E j \in 1 .. k - 1 : L[k][a] = s[j]
      BY <1>5, <3>3
    <3>6. \A j \in 1 .. k - 1 : j \in 1 .. k /\ j # k
      BY <2>0
    <3>7. \A a \in 1 .. Len(L[k]) : \E j \in 1 .. k : L[k][a] = s[j]
      BY <3>3, <3>4, <3>5, <3>6
    <3>8. ASSUME IsInjective(s), NEW a \in 1 .. Len(L[k]), NEW b \in 1 .. Len(L[k]),
                 L[k][a] = L[k][b]
          PROVE  a = b
      <4>1. \A i, j \in 1 .. Len(s) : s[i] = s[j] => i = j
        BY <3>8 DEF IsInjective
      <4>2. ASSUME NEW c \in 1 .. Len(t) PROVE L[k][c] # s[k]
        BY <3>5, <3>6, <4>1, <1>3, <2>0
      <4>3. CASE a \in 1 .. Len(t) /\ b \in 1 .. Len(t)
        <5>1. t[a] = t[b]
          BY <3>3, <3>8, <4>3
        <5>2. QED
          BY <1>5, <3>8, <4>3, <5>1
      <4>4. QED
        BY <3>3, <3>4, <3>8, <4>2, <4>3
    <3>9. QED
      BY <3>2, <3>7, <3>8
  <2>4. QED
    BY <2>2, <2>3
<1>. HIDE DEF Part
<1>6. Bad = {}
  <2>1. SUFFICES ASSUME Bad # {} PROVE FALSE
    OBVIOUS
  <2>2. Bad \in SUBSET Nat
    BY <1>3
  <2>3. PICK k \in Bad : \A m \in Nat : m < k => m \notin Bad
    BY <2>1, <2>2, Least
  <2>4. k \in 0 .. Len(s) /\ ~Part(k)
    OBVIOUS
  <2>5. k # 0
    BY <1>4, <2>4
  <2>6. k \in 1 .. Len(s) /\ k - 1 \in Nat /\ k - 1 < k /\ k - 1 \in 0 .. Len(s)
    BY <1>3, <2>4, <2>5
  <2>7. Part(k - 1)
    BY <2>3, <2>6
  <2>8. QED
    BY <1>5, <2>4, <2>6, <2>7
<1>7. Part(Len(s))
  BY <1>3, <1>6
<1>. DEFINE t == L[Len(s)]
<1>8. /\ t \in Seq(S)
      /\ \A a \in 1 .. Len(t) : \E j \in 1 .. Len(s) : t[a] = s[j]
      /\ IsInjective(s) => \A a, b \in 1 .. Len(t) : t[a] = t[b] => a = b
  BY <1>7 DEF Part
<1>. HIDE DEF t
<1>9. DOMAIN t = 1 .. Len(t) /\ DOMAIN s = 1 .. Len(s)
  BY <1>8
<1>10. ToSet(t) \subseteq ToSet(s)
  BY <1>8, <1>9 DEF ToSet
<1>11. IsInjective(s) => IsInjective(t)
  BY <1>8, <1>9 DEF IsInjective
<1>12. Without(s, gone) = t
  BY <1>2 DEF t
<1>13. QED
  BY <1>8, <1>10, <1>11, <1>12

-----------------------------------------------------------------------------
(***************************************************************************)
(* Recursion down the tree.  P is a set of objects, kids their children,   *)
(* and depth a number that grows from father to child, up to top.          *)
(***************************************************************************)
Descends(P, kids, depth, top) ==
  /\ kids \in [P -> SUBSET P]
  /\ top \in Nat
  /\ depth \in [P -> 0 .. top]
  /\ \A n \in P : \A c \in kids[n] : depth[n] < depth[c]

ReachBody(kids, R) == [n \in DOMAIN kids |-> {n} \cup UNION {R[c] : c \in kids[n]}]

LEMMA ReachEquation ==
  ASSUME NEW P, NEW kids, NEW depth, NEW top, Descends(P, kids, depth, top)
  PROVE  \A n \in P : Reach(kids)[n] = {n} \cup UNION {Reach(kids)[c] : c \in kids[n]}
<1>. DEFINE Good(k) == \E R : \A n \in P :
                         depth[n] + k > top => R[n] = ReachBody(kids, R)[n]
            Bad == {k \in Nat : ~Good(k)}
<1>0. /\ top \in Nat /\ DOMAIN kids = P
      /\ \A n \in P : depth[n] \in Nat /\ depth[n] <= top /\ kids[n] \subseteq P
      /\ \A n \in P : \A c \in kids[n] : depth[n] < depth[c]
  BY DEF Descends
<1>1. Good(0)
  BY <1>0
<1>2. ASSUME NEW k \in Nat, k > 0, Good(k - 1) PROVE Good(k)
  <2>1. PICK R : \A n \in P : depth[n] + (k - 1) > top => R[n] = ReachBody(kids, R)[n]
    BY <1>2
  <2>. DEFINE Q == ReachBody(kids, R)
  <2>2. ASSUME NEW n \in P, depth[n] + k > top PROVE Q[n] = ReachBody(kids, Q)[n]
    <3>1. \A c \in kids[n] : c \in P /\ depth[c] + (k - 1) > top
      BY <1>0, <1>2, <2>2
    <3>2. \A c \in kids[n] : Q[c] = R[c]
      BY <2>1, <3>1
    <3>3. {Q[c] : c \in kids[n]} = {R[c] : c \in kids[n]}
      BY <3>2
    <3>4. Q[n] = {n} \cup UNION {R[c] : c \in kids[n]}
      BY <1>0 DEF ReachBody
    <3>5. ReachBody(kids, Q)[n] = {n} \cup UNION {Q[c] : c \in kids[n]}
      BY <1>0 DEF ReachBody
    <3>6. QED
      BY <3>3, <3>4, <3>5
  <2>3. QED
    BY <2>2
<1>. HIDE DEF Good
<1>3. Bad = {}
  <2>1. SUFFICES ASSUME Bad # {} PROVE FALSE
    OBVIOUS
  <2>2. PICK k \in Bad : \A m \in Nat : m < k => m \notin Bad
    BY <2>1, Least
  <2>3. k \in Nat /\ ~Good(k)
    OBVIOUS
  <2>4. k # 0
    BY <1>1, <2>3
  <2>5. k - 1 \in Nat /\ k - 1 < k /\ k > 0
    BY <2>3, <2>4
  <2>6. Good(k - 1)
    BY <2>2, <2>5
  <2>7. QED
    BY <1>2, <2>3, <2>5, <2>6
<1>4. Good(top + 1)
  BY <1>0, <1>3
<1>5. PICK R : \A n \in P : depth[n] + (top + 1) > top => R[n] = ReachBody(kids, R)[n]
  BY <1>4 DEF Good
<1>6. \A n \in P : R[n] = ReachBody(kids, R)[n]
  BY <1>0, <1>5
<1>. DEFINE Q == ReachBody(kids, R)
<1>7. Q = ReachBody(kids, Q)
  <2>1. ASSUME NEW n \in P PROVE {R[c] : c \in kids[n]} = {Q[c] : c \in kids[n]}
    BY <1>0, <1>6
  <2>2. QED
    BY <1>0, <2>1 DEF ReachBody
<1>8. Reach(kids) = ReachBody(kids, Reach(kids))
  BY <1>7, Zenon DEF Reach, ReachBody
<1>9. QED
  BY <1>0, <1>8 DEF ReachBody

(* What is reached are objects of P, none above the start, and each of     *)
(* them but the start is the child of another.                             *)
LEMMA ReachIsBelow ==
  ASSUME NEW P, NEW kids, NEW depth, NEW top, Descends(P, kids, depth, top),
         NEW n \in P
  PROVE  /\ n \in Reach(kids)[n]
         /\ \A x \in Reach(kids)[n] :
              /\ x \in P /\ depth[n] <= depth[x]
              /\ x = n \/ (depth[n] < depth[x] /\ \E y \in Reach(kids)[n] : x \in kids[y])
<1>. DEFINE R == Reach(kids)
            Good(m) == /\ m \in R[m]
                       /\ \A x \in R[m] :
                            /\ x \in P /\ depth[m] <= depth[x]
                            /\ x = m \/ (depth[m] < depth[x] /\ \E y \in R[m] : x \in kids[y])
            Bad == {k \in Nat : \E m \in P : k = top - depth[m] /\ ~Good(m)}
<1>0. /\ top \in Nat
      /\ \A m \in P : depth[m] \in Nat /\ depth[m] <= top /\ kids[m] \subseteq P
      /\ \A m \in P : \A c \in kids[m] : depth[m] < depth[c]
  BY DEF Descends
<1>1. \A m \in P : R[m] = {m} \cup UNION {R[c] : c \in kids[m]}
  BY ReachEquation
<1>. HIDE DEF R
<1>2. ASSUME NEW m \in P, \A c \in kids[m] : Good(c) PROVE Good(m)
  <2>1. m \in R[m]
    BY <1>1
  <2>2. ASSUME NEW x \in R[m], x # m
        PROVE  x \in P /\ depth[m] < depth[x] /\ \E y \in R[m] : x \in kids[y]
    <3>1. PICK c \in kids[m] : x \in R[c]
      BY <1>1, <2>2
    <3>2. c \in P /\ depth[m] < depth[c] /\ R[c] \subseteq R[m]
      BY <1>0, <1>1
    <3>3. x \in P /\ depth[c] <= depth[x]
      BY <1>2, <3>1
    <3>4. x = c \/ \E y \in R[c] : x \in kids[y]
      BY <1>2, <3>1
    <3>5. \E y \in R[m] : x \in kids[y]
      BY <2>1, <3>1, <3>2, <3>4
    <3>6. QED
      BY <1>0, <3>2, <3>3, <3>5
  <2>3. \A x \in R[m] : x \in P /\ depth[m] <= depth[x]
    BY <1>0, <2>2
  <2>4. QED
    BY <2>1, <2>2, <2>3
<1>. HIDE DEF Good
<1>3. Bad = {}
  <2>1. SUFFICES ASSUME Bad # {} PROVE FALSE
    OBVIOUS
  <2>2. PICK k \in Bad : \A j \in Nat : j < k => j \notin Bad
    BY <2>1, Least
  <2>3. PICK m \in P : k = top - depth[m] /\ ~Good(m)
    OBVIOUS
  <2>4. ASSUME NEW c \in kids[m] PROVE Good(c)
    <3>1. c \in P /\ depth[m] < depth[c]
      BY <1>0
    <3>2. top - depth[c] \in Nat /\ top - depth[c] < k
      BY <1>0, <2>3, <3>1
    <3>3. QED
      BY <2>2, <3>1, <3>2
  <2>5. QED
    BY <1>2, <2>3, <2>4
<1>4. top - depth[n] \in Nat
  BY <1>0
<1>5. Good(n)
  BY <1>3, <1>4
<1>6. QED
  BY <1>5 DEF Good, R

(* Checked is what its definition says.                                    *)
CheckedBody(f) ==
  [n \in Present |-> CorrectAndExit(n, [c \in ToSet(node[n].childs) |-> f[c]])]

LEMMA CheckedEquation ==
  ASSUME NEW depth, NEW top,
         Descends(Present, [n \in Present |-> ToSet(node[n].childs)], depth, top)
  PROVE  \A n \in Present :
           Checked[n] = CorrectAndExit(n, [c \in ToSet(node[n].childs) |-> Checked[c]])
<1>. DEFINE Good(k) == \E f : \A n \in Present :
                         depth[n] + k > top => f[n] = CheckedBody(f)[n]
            Bad == {k \in Nat : ~Good(k)}
<1>0. /\ top \in Nat
      /\ \A n \in Present : depth[n] \in Nat /\ depth[n] <= top
      /\ \A n \in Present : \A c \in ToSet(node[n].childs) : c \in Present /\ depth[n] < depth[c]
  BY DEF Descends
<1>1. Good(0)
  BY <1>0
<1>2. ASSUME NEW k \in Nat, k > 0, Good(k - 1) PROVE Good(k)
  <2>1. PICK f : \A n \in Present : depth[n] + (k - 1) > top => f[n] = CheckedBody(f)[n]
    BY <1>2
  <2>. DEFINE g == CheckedBody(f)
  <2>2. ASSUME NEW n \in Present, depth[n] + k > top PROVE g[n] = CheckedBody(g)[n]
    <3>1. \A c \in ToSet(node[n].childs) : c \in Present /\ depth[c] + (k - 1) > top
      BY <1>0, <1>2, <2>2
    <3>2. \A c \in ToSet(node[n].childs) : g[c] = f[c]
      BY <2>1, <3>1
    <3>. HIDE DEF g
    <3>3. [c \in ToSet(node[n].childs) |-> g[c]] = [c \in ToSet(node[n].childs) |-> f[c]]
      BY <3>2
    <3>4. g[n] = CorrectAndExit(n, [c \in ToSet(node[n].childs) |-> f[c]])
      BY DEF g, CheckedBody
    <3>5. CheckedBody(g)[n] = CorrectAndExit(n, [c \in ToSet(node[n].childs) |-> g[c]])
      BY DEF CheckedBody
    <3>6. QED
      BY <3>3, <3>4, <3>5
  <2>3. QED
    BY <2>2
<1>. HIDE DEF Good
<1>3. Bad = {}
  <2>1. SUFFICES ASSUME Bad # {} PROVE FALSE
    OBVIOUS
  <2>2. PICK k \in Bad : \A m \in Nat : m < k => m \notin Bad
    BY <2>1, Least
  <2>3. k \in Nat /\ ~Good(k)
    OBVIOUS
  <2>4. k # 0
    BY <1>1, <2>3
  <2>5. k - 1 \in Nat /\ k - 1 < k /\ k > 0
    BY <2>3, <2>4
  <2>6. Good(k - 1)
    BY <2>2, <2>5
  <2>7. QED
    BY <1>2, <2>3, <2>5, <2>6
<1>4. Good(top + 1)
  BY <1>0, <1>3
<1>5. PICK f : \A n \in Present : depth[n] + (top + 1) > top => f[n] = CheckedBody(f)[n]
  BY <1>4 DEF Good
<1>6. \A n \in Present : f[n] = CheckedBody(f)[n]
  BY <1>0, <1>5
<1>. DEFINE g == CheckedBody(f)
<1>7. g = CheckedBody(g)
  <2>. HIDE DEF g
  <2>1. \A n \in Present : g[n] = f[n]
    BY <1>6 DEF g
  <2>2. ASSUME NEW n \in Present
        PROVE  [c \in ToSet(node[n].childs) |-> f[c]] = [c \in ToSet(node[n].childs) |-> g[c]]
    BY <1>0, <2>1
  <2>3. g = [n \in Present |-> CorrectAndExit(n, [c \in ToSet(node[n].childs) |-> f[c]])]
    BY DEF g, CheckedBody
  <2>4. CheckedBody(g) = [n \in Present |-> CorrectAndExit(n, [c \in ToSet(node[n].childs) |-> g[c]])]
    BY DEF CheckedBody
  <2>5. QED
    BY <2>2, <2>3, <2>4
<1>8. Checked = CheckedBody(Checked)
  BY <1>7, Zenon DEF Checked, CheckedBody
<1>9. QED
  BY <1>8 DEF CheckedBody

-----------------------------------------------------------------------------
(***************************************************************************)
(* The shape of the tree: h is the heap, M the map from threads to their   *)
(* present objects, U the threads yet to be created, W the children of     *)
(* keep nodes that wait in keepChilds, D the depth of each thread.         *)
(***************************************************************************)
Owners == Threads \cup {Main}
In(h, M) == {n \in DOMAIN h : M[Thread(n)] = n}

HeapTyped(h) == DOMAIN h \subseteq Names /\ \A n \in DOMAIN h : h[n] \in Objects

MapTyped(h, M) ==
  /\ M \in [Owners -> Names \cup {Null}]
  /\ \A t \in Owners : M[t] # Null => M[t] \in DOMAIN h /\ Thread(M[t]) = t

(* Father and children point at each other, as long as they are present.   *)
Joined(h, M) ==
  \A n \in In(h, M) :
    /\ IsInjective(h[n].childs)
    /\ \A c \in ToSet(h[n].childs) : c \in In(h, M) /\ h[c].father = n

(* An object that its father, present or not, has as a child is present.   *)
Held(h, M) ==
  \A n \in DOMAIN h :
    h[n].father \in DOMAIN h /\ n \in ToSet(h[h[n].father].childs) => n \in In(h, M)

Deep(h, D) ==
  \A n \in DOMAIN h : h[n].father # Null => D[Thread(h[n].father)] < D[Thread(n)]

(* An object that leaves its father goes up.                               *)
Climbs(h, D) ==
  \A n \in DOMAIN h : \A c \in ToSet(h[n].childs) :
    c \in DOMAIN h /\ h[c].father # Null => D[Thread(h[c].father)] <= D[Thread(n)]

(* The names of objects still to be made are not in use.                   *)
Named(n, M, U) ==
  Thread(n) \notin U /\ (M[Thread(n)] # Null => n[2] <= M[Thread(n)][2])

AllNamed(h, M, U) ==
  \A n \in DOMAIN h :
    /\ Named(n, M, U) /\ (h[n].father # Null => Named(h[n].father, M, U))
    /\ \A c \in ToSet(h[n].childs) : Named(c, M, U)

(* The root is never renewed.                                              *)
RootStays(h, M) ==
  \A n \in DOMAIN h :
    Thread(n) = Main => n = root /\ M[Main] = root /\ h[n].type \in Groups

(* An object that waits to join the tree is nobody's child.                *)
Apart(h, M, W) ==
  \A k \in W :
    /\ k \in In(h, M) /\ k # root
    /\ \A n \in In(h, M) : k \notin ToSet(h[n].childs)
    /\ h[k].father \in DOMAIN h => k \notin ToSet(h[h[k].father].childs)

TreeOK(h, M, U, W, D) ==
  /\ HeapTyped(h) /\ MapTyped(h, M)
  /\ Joined(h, M) /\ Held(h, M)
  /\ Deep(h, D) /\ Climbs(h, D)
  /\ AllNamed(h, M, U) /\ RootStays(h, M)
  /\ Apart(h, M, W)

LEMMA Fields ==
  ASSUME NEW h, HeapTyped(h), NEW n \in DOMAIN h
  PROVE  /\ n \in Names /\ Thread(n) \in Owners
         /\ h[n].father \in Names \cup {Null}
         /\ h[n].childs \in Seq(Names) /\ ToSet(h[n].childs) \subseteq Names
         /\ h[n].type \in Types /\ h[n].newType \in Types
         /\ h[n].len \in Lengths
         /\ h[n].hasEmpty \in BOOLEAN /\ h[n].extQ \in BOOLEAN /\ h[n].hasExtQ \in BOOLEAN
<1>1. n \in Names /\ h[n] \in Objects
  BY DEF HeapTyped
<1>2. h[n].childs \in Seq(Names)
  BY <1>1 DEF Objects
<1>3. ToSet(h[n].childs) \subseteq Names
  BY <1>2 DEF ToSet
<1>4. QED
  BY <1>1, <1>3 DEF Objects, Names, Thread, Owners

LEMMA NullIsNoName == Null \notin Names
BY ProgramsAssumption DEF Names

LEMMA ThreadOfName ==
  ASSUME NEW n \in Names
  PROVE  Thread(n) \in Owners /\ n[2] \in Nat /\ n = <<Thread(n), n[2]>>
BY DEF Names, Thread, Owners

(* What holds for threads and objects holds for fewer of them.             *)
LEMMA FewerTree ==
  ASSUME NEW h, NEW M, NEW U, NEW W, NEW D, TreeOK(h, M, U, W, D),
         NEW V \in SUBSET U, NEW X \in SUBSET W
  PROVE  TreeOK(h, M, V, X, D)
<1>1. AllNamed(h, M, V)
  BY DEF TreeOK, AllNamed, Named
<1>2. Apart(h, M, X)
  BY DEF TreeOK, Apart
<1>3. QED
  BY <1>1, <1>2 DEF TreeOK

(* Children are lost, nothing else changes.                                *)
Shrunk(h, g) ==
  /\ DOMAIN g = DOMAIN h /\ HeapTyped(g)
  /\ \A n \in DOMAIN h :
       /\ g[n].father = h[n].father /\ g[n].type = h[n].type
       /\ ToSet(g[n].childs) \subseteq ToSet(h[n].childs)
       /\ IsInjective(h[n].childs) => IsInjective(g[n].childs)

LEMMA ShrunkTree ==
  ASSUME NEW h, NEW g, NEW M, NEW U, NEW W, NEW D, TreeOK(h, M, U, W, D), Shrunk(h, g)
  PROVE  TreeOK(g, M, U, W, D) /\ In(g, M) = In(h, M)
<1>. USE DEF TreeOK, Shrunk
<1>1. In(g, M) = In(h, M) /\ In(h, M) \subseteq DOMAIN h
  BY DEF In
<1>2. MapTyped(g, M)
  BY DEF MapTyped
<1>3. Joined(g, M)
  BY <1>1 DEF Joined
<1>4. Held(g, M)
  BY <1>1 DEF Held
<1>5. Deep(g, D) /\ AllNamed(g, M, U) /\ RootStays(g, M)
  BY DEF Deep, AllNamed, RootStays
<1>6. Climbs(g, D)
  BY DEF Climbs
<1>7. Apart(g, M, W)
  BY <1>1 DEF Apart
<1>8. QED
  BY <1>1, <1>2, <1>3, <1>4, <1>5, <1>6, <1>7

(* Objects leave the heap that are no children of those that stay.         *)
Without2(h, gone) == [m \in DOMAIN h \ gone |-> h[m]]
Unmapped(M, gone) == [t \in DOMAIN M |-> IF M[t] \in gone THEN Null ELSE M[t]]

LEMMA DeletedTree ==
  ASSUME NEW h, NEW M, NEW U, NEW W, NEW D, TreeOK(h, M, U, W, D), NEW gone \in SUBSET DOMAIN h,
         \A n \in In(h, M) \ gone : ToSet(h[n].childs) \cap gone = {},
         W \cap gone = {}
  PROVE  LET g == Without2(h, gone)
             N == Unmapped(M, gone)
         IN TreeOK(g, N, U, W, D) /\ In(g, N) = In(h, M) \ gone
<1>. DEFINE g == Without2(h, gone)
            N == Unmapped(M, gone)
<1>. USE DEF TreeOK
<1>1. DOMAIN g = DOMAIN h \ gone /\ \A n \in DOMAIN g : g[n] = h[n]
  BY DEF Without2
<1>2. Null \notin Names
  BY NullIsNoName
<1>3. /\ M \in [Owners -> Names \cup {Null}]
      /\ \A n \in DOMAIN h : n \in Names /\ Thread(n) \in Owners
  BY Fields DEF MapTyped
<1>4. /\ DOMAIN N = Owners
      /\ \A t \in Owners : N[t] = IF M[t] \in gone THEN Null ELSE M[t]
  BY <1>3 DEF Unmapped
<1>. HIDE DEF g, N
<1>5. In(g, N) = In(h, M) \ gone
  BY <1>1, <1>2, <1>3, <1>4 DEF In
<1>6. HeapTyped(g)
  BY <1>1 DEF HeapTyped
<1>7. MapTyped(g, N)
  <2>1. N \in [Owners -> Names \cup {Null}]
    BY <1>3, <1>4, Zenon DEF Unmapped, N
  <2>2. QED
    BY <1>1, <1>4, <2>1 DEF MapTyped
<1>8. Joined(g, N)
  <2>1. \A n \in In(g, N) : g[n] = h[n] /\ n \in In(h, M)
    BY <1>1, <1>5 DEF In
  <2>2. ASSUME NEW n \in In(g, N), NEW c \in ToSet(h[n].childs)
        PROVE  c \in In(g, N) /\ h[c].father = n
    BY <1>5, <2>1 DEF Joined
  <2>3. QED
    BY <2>1, <2>2 DEF Joined
<1>9. Held(g, N)
  BY <1>1, <1>5 DEF Held
<1>10. Deep(g, D) /\ Climbs(g, D)
  BY <1>1 DEF Deep, Climbs
<1>11. AllNamed(g, N, U)
  <2>1. ASSUME NEW n \in Names, Named(n, M, U) PROVE Named(n, N, U)
    <3>1. Thread(n) \in Owners
      BY ThreadOfName
    <3>2. QED
      BY <1>4, <2>1, <3>1 DEF Named
  <2>2. QED
    BY <1>1, <1>3, <2>1, Fields DEF AllNamed
<1>12. RootStays(g, N)
  <2>1. Main \in Owners
    BY DEF Owners
  <2>2. ASSUME NEW n \in DOMAIN g, Thread(n) = Main
        PROVE  n = root /\ N[Main] = root /\ g[n].type \in Groups
    <3>1. n \in DOMAIN h /\ n \notin gone
      BY <1>1
    <3>2. n = root /\ M[Main] = root /\ h[n].type \in Groups
      BY <2>2, <3>1 DEF RootStays
    <3>3. QED
      BY <1>1, <1>4, <2>1, <3>1, <3>2
  <2>3. QED
    BY <2>2 DEF RootStays
<1>13. Apart(g, N, W)
  <2>1. \A n \in In(g, N) : g[n] = h[n] /\ n \in In(h, M)
    BY <1>1, <1>5 DEF In
  <2>2. \A k \in W : k \in In(g, N) /\ k # root /\ k \in In(h, M)
    BY <1>5 DEF Apart
  <2>3. \A k \in W : \A n \in In(g, N) : k \notin ToSet(g[n].childs)
    BY <2>1 DEF Apart
  <2>4. \A k \in W : g[k].father \in DOMAIN g => k \notin ToSet(g[g[k].father].childs)
    BY <1>1, <2>1, <2>2 DEF Apart
  <2>5. QED
    BY <2>2, <2>3, <2>4 DEF Apart
<1>14. QED
  BY <1>5, <1>6, <1>7, <1>8, <1>9, <1>10, <1>11, <1>12, <1>13 DEF g, N

(* Vectors put together.                                                   *)
LEMMA JoinedSeq ==
  ASSUME NEW S, NEW s \in Seq(S), NEW t \in Seq(S)
  PROVE  /\ s \o t \in Seq(S) /\ Len(s \o t) = Len(s) + Len(t)
         /\ ToSet(s \o t) = ToSet(s) \cup ToSet(t)
         /\ IsInjective(s) /\ IsInjective(t) /\ ToSet(s) \cap ToSet(t) = {} => IsInjective(s \o t)
<1>. DEFINE u == s \o t
<1>1. u \in Seq(S) /\ Len(s) \in Nat /\ Len(t) \in Nat /\ Len(u) = Len(s) + Len(t)
  OBVIOUS
<1>2. \A i \in 1 .. Len(s) : i \in 1 .. Len(u) /\ u[i] = s[i]
  BY <1>1
<1>3. \A i \in 1 .. Len(t) : i + Len(s) \in 1 .. Len(u) /\ u[i + Len(s)] = t[i]
  BY <1>1
<1>4. \A i \in 1 .. Len(u) : i \in 1 .. Len(s) \/ (i - Len(s) \in 1 .. Len(t) /\ i = (i - Len(s)) + Len(s))
  BY <1>1
<1>5. DOMAIN s = 1 .. Len(s) /\ DOMAIN t = 1 .. Len(t) /\ DOMAIN u = 1 .. Len(u)
  BY <1>1
<1>. HIDE DEF u
<1>6. \A i \in 1 .. Len(u) :
        \/ i \in 1 .. Len(s) /\ u[i] = s[i]
        \/ i - Len(s) \in 1 .. Len(t) /\ u[i] = t[i - Len(s)]
  BY <1>2, <1>3, <1>4
<1>7. ToSet(u) = ToSet(s) \cup ToSet(t)
  <2>1. ToSet(u) \subseteq ToSet(s) \cup ToSet(t)
    BY <1>5, <1>6 DEF ToSet
  <2>2. ToSet(s) \subseteq ToSet(u)
    BY <1>2, <1>5 DEF ToSet
  <2>3. ToSet(t) \subseteq ToSet(u)
    BY <1>3, <1>5 DEF ToSet
  <2>4. QED
    BY <2>1, <2>2, <2>3
<1>8. ASSUME IsInjective(s), IsInjective(t), ToSet(s) \cap ToSet(t) = {} PROVE IsInjective(u)
  <2>1. /\ \A i, j \in 1 .. Len(s) : s[i] = s[j] => i = j
        /\ \A i, j \in 1 .. Len(t) : t[i] = t[j] => i = j
    BY <1>5, <1>8 DEF IsInjective
  <2>2. \A i \in 1 .. Len(s) : \A j \in 1 .. Len(t) : s[i] # t[j]
    BY <1>5, <1>8 DEF ToSet
  <2>3. ASSUME NEW i \in 1 .. Len(u), NEW j \in 1 .. Len(u), u[i] = u[j] PROVE i = j
    <3>1. CASE i \in 1 .. Len(s) /\ u[i] = s[i]
      BY <1>6, <2>1, <2>2, <2>3, <3>1
    <3>2. CASE i - Len(s) \in 1 .. Len(t) /\ u[i] = t[i - Len(s)]
      <4>1. CASE j \in 1 .. Len(s) /\ u[j] = s[j]
        BY <2>2, <2>3, <3>2, <4>1
      <4>2. CASE j - Len(s) \in 1 .. Len(t) /\ u[j] = t[j - Len(s)]
        <5>1. i - Len(s) = j - Len(s)
          BY <2>1, <2>3, <3>2, <4>2
        <5>2. QED
          BY <1>1, <5>1
      <4>3. QED
        BY <1>6, <4>1, <4>2
    <3>3. QED
      BY <1>6, <3>1, <3>2
  <2>4. QED
    BY <1>5, <2>3 DEF IsInjective
<1>9. QED
  BY <1>1, <1>7, <1>8 DEF u

(* AddLeaves: threads are created below n.                                 *)
Mapped(M, kids) == [t \in DOMAIN M |-> IF t \in ToSet(kids) THEN <<t, 0>> ELSE M[t]]

(* The tree has grown: what was in it is still there, with its father.     *)
Grown(h, M, g, N) ==
  /\ In(h, M) \subseteq In(g, N)
  /\ \A m \in DOMAIN h :
       /\ m \in DOMAIN g /\ g[m].father = h[m].father /\ g[m].type = h[m].type
       /\ Len(g[m].childs) >= Len(h[m].childs)

LEMMA AddedTree ==
  ASSUME NEW h, NEW M, NEW U \in SUBSET Threads, NEW W, NEW D \in [Owners -> Nat],
         TreeOK(h, M, U, W, D),
         NEW n \in In(h, M), NEW kids \in Seq(Threads),
         IsInjective(kids), ToSet(kids) \subseteq U,
         \A t \in ToSet(kids) : D[Thread(n)] < D[t]
  PROVE  LET g == AddLeaves(h, n, kids)
             N == Mapped(M, kids)
         IN TreeOK(g, N, U \ ToSet(kids), W, D) /\ Grown(h, M, g, N)
<1>. DEFINE g == AddLeaves(h, n, kids)
            N == Mapped(M, kids)
            new == [i \in DOMAIN kids |-> <<kids[i], 0>>]
            New == ToSet(new)
            V == U \ ToSet(kids)
<1>. USE DEF TreeOK
<1>1. /\ n \in DOMAIN h /\ M \in [Owners -> Names \cup {Null}]
      /\ \A m \in DOMAIN h : m \in Names /\ Thread(m) \in Owners
      /\ Threads \subseteq Owners /\ Null \notin Names
      /\ h[n].childs \in Seq(Names)
  BY Fields, NullIsNoName DEF In, MapTyped, Owners
<1>2. /\ new \in Seq(Names) /\ DOMAIN new = DOMAIN kids
      /\ New = {<<t, 0>> : t \in ToSet(kids)}
      /\ IsInjective(new)
  <2>1. \A i \in DOMAIN kids : kids[i] \in Threads
    OBVIOUS
  <2>2. \A t \in Threads : <<t, 0>> \in Names
    BY DEF Names
  <2>3. new \in Seq(Names)
    BY <2>1, <2>2
  <2>4. New = {<<t, 0>> : t \in ToSet(kids)}
    BY DEF ToSet
  <2>5. IsInjective(new)
    BY DEF IsInjective
  <2>6. QED
    BY <2>3, <2>4, <2>5
<1>3. \A m \in New : /\ m \in Names /\ Thread(m) \in ToSet(kids) /\ Thread(m) \in U
                     /\ Thread(m) \in Threads /\ m = <<Thread(m), 0>> /\ m[2] = 0
                     /\ D[Thread(n)] < D[Thread(m)]
  BY <1>2 DEF Thread, Names
<1>. HIDE DEF new
<1>. HIDE DEF New
<1>4. \A m \in DOMAIN h : Thread(m) \notin U /\ (h[m].father # Null => Thread(h[m].father) \notin U)
  BY DEF AllNamed, Named
<1>5. New \cap DOMAIN h = {} /\ n \notin New
  BY <1>1, <1>3, <1>4
<1>6. /\ DOMAIN g = DOMAIN h \cup New
      /\ \A m \in New : g[m] = LeafNode(n, <<>>)
      /\ \A m \in DOMAIN h : m # n => g[m] = h[m]
      /\ g[n] = [h[n] EXCEPT !.childs = @ \o new]
  BY <1>1, <1>5 DEF AddLeaves, new, New
<1>7. /\ DOMAIN N = Owners
      /\ \A t \in Owners : N[t] = IF t \in ToSet(kids) THEN <<t, 0>> ELSE M[t]
  BY <1>1 DEF Mapped
<1>. HIDE DEF g, N
<1>8. \A m \in New : g[m].father = n /\ g[m].childs = <<>> /\ g[m].type = "leaf"
  BY <1>6 DEF LeafNode, Node
<1>9. \A m \in DOMAIN h : g[m].father = h[m].father /\ g[m].type = h[m].type
  <2>1. h[n] \in Objects
    BY <1>1 DEF HeapTyped
  <2>2. g[n].father = h[n].father /\ g[n].type = h[n].type
    BY <1>6, <2>1 DEF Objects
  <2>3. QED
    BY <1>6, <2>2
<1>10. /\ h[n].childs \o new \in Seq(Names)
       /\ Len(h[n].childs \o new) = Len(h[n].childs) + Len(new)
       /\ ToSet(h[n].childs \o new) = ToSet(h[n].childs) \cup New
       /\ (IsInjective(h[n].childs) /\ ToSet(h[n].childs) \cap New = {} => IsInjective(h[n].childs \o new))
  BY <1>1, <1>2, JoinedSeq DEF New
<1>11. g[n].childs = h[n].childs \o new
  BY <1>1, <1>6 DEF HeapTyped, Objects
<1>12. HeapTyped(g)
  <2>1. LeafNode(n, <<>>) \in Objects
    BY <1>1 DEF LeafNode, Node, Objects, Types, Groups, Lengths
  <2>2. [h[n] EXCEPT !.childs = @ \o new] \in Objects
    BY <1>1, <1>10 DEF HeapTyped, Objects
  <2>3. \A m \in DOMAIN g : m \in Names /\ g[m] \in Objects
    BY <1>1, <1>3, <1>6, <2>1, <2>2 DEF HeapTyped
  <2>4. QED
    BY <2>3 DEF HeapTyped
<1>13. In(g, N) = In(h, M) \cup New
  <2>1. ASSUME NEW m \in DOMAIN h PROVE m \in In(g, N) <=> m \in In(h, M)
    <3>1. Thread(m) \notin ToSet(kids)
      BY <1>4
    <3>2. N[Thread(m)] = M[Thread(m)]
      BY <1>1, <1>7, <3>1
    <3>3. QED
      BY <1>6, <3>2 DEF In
  <2>2. ASSUME NEW m \in New PROVE m \in In(g, N)
    <3>1. Thread(m) \in Owners /\ N[Thread(m)] = <<Thread(m), 0>>
      BY <1>1, <1>3, <1>7
    <3>2. QED
      BY <1>3, <1>6, <3>1 DEF In
  <2>3. In(g, N) \subseteq DOMAIN h \cup New /\ In(h, M) \subseteq DOMAIN h
    BY <1>6 DEF In
  <2>4. QED
    BY <2>1, <2>2, <2>3
<1>14. MapTyped(g, N)
  <2>1. N \in [Owners -> Names \cup {Null}]
    <3>1. \A t \in Owners : N[t] \in Names \cup {Null}
      BY <1>1, <1>7 DEF Names
    <3>2. QED
      BY <1>1, <3>1 DEF N, Mapped
  <2>2. ASSUME NEW t \in Owners, N[t] # Null PROVE N[t] \in DOMAIN g /\ Thread(N[t]) = t
    <3>1. CASE t \in ToSet(kids)
      BY <1>2, <1>6, <1>7, <3>1 DEF Thread
    <3>2. CASE t \notin ToSet(kids)
      BY <1>6, <1>7, <2>2, <3>2 DEF MapTyped
    <3>3. QED
      BY <3>1, <3>2
  <2>3. QED
    BY <2>1, <2>2 DEF MapTyped
<1>15. \A m \in In(h, M) : IsInjective(h[m].childs) /\ \A c \in ToSet(h[m].childs) : c \in In(h, M) /\ h[c].father = m
  BY DEF Joined
<1>16. In(h, M) \subseteq DOMAIN h
  BY DEF In
<1>17. ToSet(<<>>) = {} /\ IsInjective(<<>>)
  BY DEF ToSet, IsInjective
<1>18. Joined(g, N)
  <2>1. ASSUME NEW m \in In(h, M), m # n
        PROVE  IsInjective(g[m].childs) /\ \A c \in ToSet(g[m].childs) : c \in In(g, N) /\ g[c].father = m
    BY <1>6, <1>9, <1>13, <1>15, <1>16, <2>1
  <2>2. IsInjective(g[n].childs) /\ \A c \in ToSet(g[n].childs) : c \in In(g, N) /\ g[c].father = n
    BY <1>5, <1>8, <1>9, <1>10, <1>11, <1>13, <1>15, <1>16
  <2>3. \A m \in New : IsInjective(g[m].childs) /\ ToSet(g[m].childs) = {}
    BY <1>8, <1>17
  <2>4. QED
    BY <1>13, <2>1, <2>2, <2>3 DEF Joined
<1>19. Held(g, N)
  <2>1. ASSUME NEW m \in DOMAIN g, g[m].father \in DOMAIN g, m \in ToSet(g[g[m].father].childs)
        PROVE  m \in In(g, N)
    <3>1. CASE m \in New
      BY <1>13, <3>1
    <3>2. CASE m \in DOMAIN h
      <4>1. h[m].father \in DOMAIN h
        BY <1>1, <1>3, <1>4, <1>6, <1>9, <2>1, <3>2
      <4>2. m \in ToSet(h[h[m].father].childs)
        BY <1>5, <1>6, <1>9, <1>10, <1>11, <2>1, <3>2, <4>1
      <4>3. QED
        BY <1>13, <3>2, <4>1, <4>2 DEF Held
    <3>3. QED
      BY <1>6, <2>1, <3>1, <3>2
  <2>2. QED
    BY <2>1 DEF Held
<1>20. Deep(g, D)
  BY <1>3, <1>6, <1>8, <1>9 DEF Deep
<1>21. Climbs(g, D)
  <2>1. ASSUME NEW m \in DOMAIN g, NEW c \in ToSet(g[m].childs), c \in DOMAIN g, g[c].father # Null
        PROVE  D[Thread(g[c].father)] <= D[Thread(m)]
    <3>1. m \notin New
      BY <1>8, <1>17, <2>1
    <3>2. m \in DOMAIN h
      BY <1>6, <3>1
    <3>3. CASE c \in New
      <4>1. g[c].father = n
        BY <1>8, <3>3
      <4>2. m = n
        <5>1. ASSUME m # n PROVE FALSE
          <6>1. c \in ToSet(h[m].childs)
            BY <1>6, <2>1, <3>2, <5>1
          <6>2. Thread(c) \notin U
            BY <3>2, <6>1 DEF AllNamed, Named
          <6>3. QED
            BY <1>3, <3>3, <6>2
        <5>2. QED
          BY <5>1
      <4>3. QED
        BY <1>1, <4>1, <4>2
    <3>4. CASE c \notin New
      <4>1. c \in DOMAIN h
        BY <1>6, <2>1, <3>4
      <4>2. c \in ToSet(h[m].childs)
        BY <1>6, <1>10, <1>11, <2>1, <3>2, <3>4
      <4>3. QED
        BY <1>9, <2>1, <3>2, <4>1, <4>2 DEF Climbs
    <3>5. QED
      BY <3>3, <3>4
  <2>2. QED
    BY <2>1 DEF Climbs
<1>22. ASSUME NEW m \in Names, Named(m, M, U) PROVE Named(m, N, V)
  <2>1. Thread(m) \in Owners /\ Thread(m) \notin ToSet(kids)
    BY <1>22, ThreadOfName DEF Named
  <2>2. QED
    BY <1>7, <1>22, <2>1 DEF Named
<1>23. AllNamed(g, N, V)
  <2>1. \A m \in New : Named(m, N, V)
    BY <1>1, <1>3, <1>7 DEF Named
  <2>2. Named(n, N, V)
    BY <1>1, <1>22 DEF AllNamed
  <2>3. ASSUME NEW m \in DOMAIN h
        PROVE  /\ Named(m, N, V) /\ (g[m].father # Null => Named(g[m].father, N, V))
               /\ \A c \in ToSet(g[m].childs) : Named(c, N, V)
    <3>1. Named(m, N, V) /\ (h[m].father # Null => Named(h[m].father, N, V))
      BY <1>1, <1>22, Fields DEF AllNamed
    <3>2. \A c \in ToSet(h[m].childs) : Named(c, N, V)
      BY <1>22, Fields DEF AllNamed
    <3>3. ToSet(g[m].childs) \subseteq ToSet(h[m].childs) \cup New
      BY <1>6, <1>10, <1>11
    <3>4. QED
      BY <1>9, <2>1, <3>1, <3>2, <3>3
  <2>4. QED
    BY <1>6, <1>8, <1>17, <2>1, <2>2, <2>3 DEF AllNamed
<1>24. RootStays(g, N)
  <2>1. Main \notin U /\ Main \notin ToSet(kids) /\ Main \in Owners
    BY ProgramsAssumption DEF Owners
  <2>2. N[Main] = M[Main]
    BY <1>7, <2>1
  <2>3. QED
    BY <1>3, <1>6, <1>9, <2>1, <2>2 DEF RootStays
<1>25. Apart(g, N, W)
  <2>1. ASSUME NEW k \in W
        PROVE  /\ k \in In(g, N) /\ k # root
               /\ \A m \in In(g, N) : k \notin ToSet(g[m].childs)
               /\ g[k].father \in DOMAIN g => k \notin ToSet(g[g[k].father].childs)
    <3>1. k \in In(h, M) /\ k \in DOMAIN h /\ k # root /\ k \notin New
      BY <1>5, <1>16 DEF Apart
    <3>2. \A m \in DOMAIN h : k \in ToSet(g[m].childs) => k \in ToSet(h[m].childs)
      BY <1>6, <1>10, <1>11, <3>1
    <3>3. \A m \in In(g, N) : k \notin ToSet(g[m].childs)
      BY <1>8, <1>13, <1>16, <1>17, <3>2 DEF Apart
    <3>4. ASSUME g[k].father \in DOMAIN g PROVE k \notin ToSet(g[g[k].father].childs)
      <4>1. CASE g[k].father \in New
        BY <1>8, <1>17, <4>1
      <4>2. CASE g[k].father \in DOMAIN h
        BY <1>9, <3>1, <3>2, <4>2 DEF Apart
      <4>3. QED
        BY <1>6, <3>4, <4>1, <4>2
    <3>5. QED
      BY <1>13, <3>1, <3>3, <3>4
  <2>2. QED
    BY <2>1 DEF Apart
<1>26. \A m \in DOMAIN h : m \in DOMAIN g /\ Len(g[m].childs) >= Len(h[m].childs)
  <2>1. Len(new) \in Nat /\ Len(h[n].childs) \in Nat
    BY <1>1, <1>2
  <2>2. ASSUME NEW m \in DOMAIN h PROVE Len(h[m].childs) \in Nat
    <3>1. h[m].childs \in Seq(Names)
      BY Fields
    <3>2. QED
      BY <3>1
  <2>3. Len(g[n].childs) >= Len(h[n].childs)
    BY <1>10, <1>11, <2>1
  <2>4. \A m \in DOMAIN h : m # n => g[m].childs = h[m].childs
    BY <1>6
  <2>5. ASSUME NEW m \in DOMAIN h PROVE m \in DOMAIN g /\ Len(g[m].childs) >= Len(h[m].childs)
    <3>1. m \in DOMAIN g
      BY <1>6
    <3>2. CASE m = n
      BY <2>3, <3>1, <3>2
    <3>3. CASE m # n
      <4>1. g[m].childs = h[m].childs /\ Len(h[m].childs) \in Nat
        BY <2>2, <2>4, <3>3
      <4>2. QED
        BY ONLY <3>1, <4>1
    <3>4. QED
      BY <3>2, <3>3
  <2>6. QED
    BY <2>5
<1>27. TreeOK(g, N, V, W, D)
  BY <1>12, <1>14, <1>18, <1>19, <1>20, <1>21, <1>23, <1>24, <1>25
<1>28. QED
  BY <1>9, <1>13, <1>26, <1>27 DEF g, N, Grown

(* getNewNode: a new object takes the place of c among the children of its *)
(* father.                                                                 *)
Renewed(M, c) == [M EXCEPT ![Thread(c)] = Successor(c)]
HasRenewed(h, M, g, N, U, W, D, c) ==
  /\ TreeOK(g, N, U, W, D)
  /\ In(g, N) = (In(h, M) \ {c}) \cup {Successor(c)}
  /\ \A m \in DOMAIN h \ {c} : m \in DOMAIN g /\ Len(g[m].childs) = Len(h[m].childs)
  /\ Thread(Successor(c)) = Thread(c)

LEMMA RenewedTree ==
  ASSUME NEW h, NEW M, NEW U \in SUBSET Threads, NEW W, NEW D \in [Owners -> Nat],
         TreeOK(h, M, U, W, D),
         NEW c \in In(h, M), c # root, c \notin W, NEW q \in BOOLEAN
  PROVE  HasRenewed(h, M, GetNewNode(h, c, q), Renewed(M, c), U, W, D, c)
<1>. DEFINE g == GetNewNode(h, c, q)
            N == [M EXCEPT ![Thread(c)] = Successor(c)]
            new == Successor(c)
            f == h[c].father
            type == h[c].newType
            kids == IF type = "leaf" THEN <<>> ELSE h[c].childs
            Replaced(s) == [i \in DOMAIN s |-> IF s[i] = c THEN new ELSE s[i]]
<1>. USE DEF TreeOK
<1>1. /\ c \in DOMAIN h /\ In(h, M) \subseteq DOMAIN h /\ c \in Names /\ Thread(c) \in Owners
      /\ M \in [Owners -> Names \cup {Null}] /\ M[Thread(c)] = c
      /\ f \in Names \cup {Null} /\ type \in Types /\ h[c].childs \in Seq(Names)
      /\ Null \notin Names /\ Thread(c) # Main
  <2>1. c \in DOMAIN h /\ In(h, M) \subseteq DOMAIN h /\ M[Thread(c)] = c
    BY DEF In
  <2>2. Thread(c) # Main
    BY <2>1 DEF RootStays
  <2>3. QED
    BY <2>1, <2>2, Fields, NullIsNoName DEF MapTyped
<1>2. /\ new \in Names /\ Thread(new) = Thread(c) /\ new[2] = c[2] + 1 /\ c[2] \in Nat /\ new # c
      /\ new = <<Thread(c), c[2] + 1>>
  BY <1>1 DEF Successor, Names, Thread
<1>3. ASSUME NEW m \in Names, Named(m, M, U) PROVE m # new
  <2>1. SUFFICES ASSUME m = new PROVE FALSE
    OBVIOUS
  <2>2. Thread(m) = Thread(c) /\ m[2] = c[2] + 1
    BY <1>2, <2>1
  <2>3. m[2] <= c[2]
    BY <1>1, <1>3, <2>2 DEF Named
  <2>4. QED
    BY <1>2, <2>2, <2>3
<1>4. /\ new \notin DOMAIN h
      /\ \A m \in DOMAIN h : h[m].father # new /\ new \notin ToSet(h[m].childs)
  <2>1. ASSUME NEW m \in DOMAIN h
        PROVE  m # new /\ h[m].father # new /\ new \notin ToSet(h[m].childs)
    <3>1. m \in Names /\ h[m].father \in Names \cup {Null} /\ ToSet(h[m].childs) \subseteq Names
      BY Fields
    <3>2. /\ Named(m, M, U) /\ (h[m].father # Null => Named(h[m].father, M, U))
          /\ \A d \in ToSet(h[m].childs) : Named(d, M, U)
      BY DEF AllNamed
    <3>3. QED
      BY <1>1, <1>2, <1>3, <3>1, <3>2
  <2>2. QED
    BY <2>1
<1>5. /\ kids \in Seq(Names) /\ ToSet(kids) \subseteq ToSet(h[c].childs) /\ IsInjective(kids)
      /\ \A k \in ToSet(kids) : k \in In(h, M) /\ h[k].father = c
  <2>1. IsInjective(h[c].childs) /\ \A k \in ToSet(h[c].childs) : k \in In(h, M) /\ h[k].father = c
    BY DEF Joined
  <2>2. ToSet(<<>>) = {} /\ IsInjective(<<>>) /\ <<>> \in Seq(Names)
    BY DEF ToSet, IsInjective
  <2>3. QED
    BY <1>1, <2>1, <2>2
<1>6. f # c /\ c \notin ToSet(kids)
  <2>1. f # Null => D[Thread(f)] < D[Thread(c)]
    BY <1>1 DEF Deep
  <2>2. D[Thread(c)] \in Nat
    BY <1>1
  <2>3. f # c
    BY <1>1, <2>1, <2>2
  <2>4. QED
    BY <1>5, <2>3
<1>. HIDE DEF kids
<1>7. /\ DOMAIN g = DOMAIN h \cup {new}
      /\ g[new] = NewNode(type, f, kids, q)
      /\ g[c] = [h[c] EXCEPT !.childs = kids]
      /\ \A m \in DOMAIN h \ {c} :
           g[m] = [h[m] EXCEPT !.father = IF m \in ToSet(kids) THEN new ELSE @,
                               !.childs = IF m = f THEN Replaced(@) ELSE @,
                               !.len = IF m \in (IF type \in {"keep", "alw"} THEN {f} ELSE {}) THEN "none" ELSE @]
  BY <1>1, <1>2, <1>4, Zenon DEF GetNewNode, kids
<1>. HIDE DEF g
<1>8. /\ g[new] \in Objects /\ g[new].father = f /\ g[new].childs = kids /\ g[new].type = type
  <2>1. /\ \A x \in {AndNode(f, kids), PalNode(f, kids), LeafNode(f, kids), PrjNode(f, kids, q),
                     KeepNode(f, kids), AlwNode(f, kids)} :
             x \in Objects /\ x.father = f /\ x.childs = kids
        /\ AndNode(f, kids).type = "and" /\ PalNode(f, kids).type = "pal" /\ LeafNode(f, kids).type = "leaf"
        /\ PrjNode(f, kids, q).type = "prj" /\ KeepNode(f, kids).type = "keep" /\ AlwNode(f, kids).type = "alw"
    <3>1. \A t \in Types : LET x == Node(t, f, kids)
                           IN x \in Objects /\ x.father = f /\ x.childs = kids /\ x.type = t
      BY <1>1, <1>5 DEF Node, Objects, Lengths
    <3>2. {"and", "pal", "prj", "keep", "alw", "leaf"} \subseteq Types /\ "none" \in Lengths
      BY DEF Types, Groups, Lengths
    <3>3. \A t \in Types : \A x \in {[Node(t, f, kids) EXCEPT !.hasExtQ = q], [Node(t, f, kids) EXCEPT !.len = "none"]} :
            x \in Objects /\ x.father = f /\ x.childs = kids /\ x.type = t
      BY <3>1, <3>2 DEF Objects
    <3>. DEFINE Good(x, t) == x \in Objects /\ x.father = f /\ x.childs = kids /\ x.type = t
    <3>4. \A t \in Types : Good(Node(t, f, kids), t) /\ Good([Node(t, f, kids) EXCEPT !.hasExtQ = q], t)
                          /\ Good([Node(t, f, kids) EXCEPT !.len = "none"], t)
      BY <3>1, <3>3
    <3>. HIDE DEF Good
    <3>5. Good(AndNode(f, kids), "and") /\ Good(PalNode(f, kids), "pal") /\ Good(LeafNode(f, kids), "leaf")
      BY <3>2, <3>4 DEF AndNode, PalNode, LeafNode
    <3>6. Good(PrjNode(f, kids, q), "prj") /\ Good(KeepNode(f, kids), "keep") /\ Good(AlwNode(f, kids), "alw")
      BY <3>2, <3>4 DEF PrjNode, KeepNode, AlwNode
    <3>7. QED
      BY <3>5, <3>6 DEF Good
  <2>2. type = "and" \/ type = "pal" \/ type = "prj" \/ type = "keep" \/ type = "alw" \/ type = "leaf"
    BY <1>1 DEF Types, Groups
  <2>3. QED
    BY <1>7, <2>1, <2>2 DEF NewNode
<1>9. /\ g[c] \in Objects /\ g[c].father = f /\ g[c].childs = kids /\ g[c].type = h[c].type
  <2>1. h[c] \in Objects
    BY <1>1 DEF HeapTyped
  <2>2. QED
    BY <1>5, <1>7, <2>1 DEF Objects
<1>10. ASSUME NEW s \in Seq(Names)
       PROVE  /\ Replaced(s) \in Seq(Names) /\ Len(Replaced(s)) = Len(s)
              /\ c \notin ToSet(Replaced(s))
              /\ ToSet(Replaced(s)) \subseteq (ToSet(s) \ {c}) \cup {new}
              /\ c \notin ToSet(s) => Replaced(s) = s
              /\ IsInjective(s) /\ new \notin ToSet(s) => IsInjective(Replaced(s))
  <2>1. Replaced(s) \in Seq(Names) /\ Len(Replaced(s)) = Len(s) /\ DOMAIN Replaced(s) = DOMAIN s
    <3>1. DOMAIN s = 1 .. Len(s) /\ Len(s) \in Nat /\ \A i \in 1 .. Len(s) : s[i] \in Names
      OBVIOUS
    <3>2. Replaced(s) \in [1 .. Len(s) -> Names]
      BY <1>2, <3>1
    <3>. HIDE DEF Replaced
    <3>3. QED
      BY <3>1, <3>2
  <2>2. \A i \in DOMAIN s : Replaced(s)[i] = IF s[i] = c THEN new ELSE s[i]
    OBVIOUS
  <2>. HIDE DEF Replaced
  <2>3. c \notin ToSet(Replaced(s)) /\ ToSet(Replaced(s)) \subseteq (ToSet(s) \ {c}) \cup {new}
    BY <1>2, <2>1, <2>2 DEF ToSet
  <2>4. c \notin ToSet(s) => Replaced(s) = s
    <3>1. SUFFICES ASSUME c \notin ToSet(s) PROVE Replaced(s) = s
      OBVIOUS
    <3>2. \A i \in DOMAIN s : Replaced(s)[i] = s[i]
      BY <2>2, <3>1 DEF ToSet
    <3>3. \A i \in 1 .. Len(Replaced(s)) : Replaced(s)[i] = s[i]
      BY <2>1, <3>2
    <3>4. QED
      BY <2>1, <3>3, SeqEqual
  <2>5. IsInjective(s) /\ new \notin ToSet(s) => IsInjective(Replaced(s))
    BY <2>1, <2>2 DEF IsInjective, ToSet
  <2>6. QED
    BY <2>1, <2>3, <2>4, <2>5
<1>. HIDE DEF Replaced
<1>11. ASSUME NEW m \in DOMAIN h \ {c}
       PROVE  /\ g[m] \in Objects /\ g[m].type = h[m].type
              /\ g[m].father = IF m \in ToSet(kids) THEN new ELSE h[m].father
              /\ g[m].childs = IF m = f THEN Replaced(h[m].childs) ELSE h[m].childs
              /\ Len(g[m].childs) = Len(h[m].childs)
  <2>1. h[m] \in Objects /\ h[m].childs \in Seq(Names)
    BY Fields DEF HeapTyped
  <2>2. Replaced(h[m].childs) \in Seq(Names) /\ Len(Replaced(h[m].childs)) = Len(h[m].childs)
    BY <1>10, <2>1
  <2>. DEFINE x == IF m \in ToSet(kids) THEN new ELSE h[m].father
              y == IF m = f THEN Replaced(h[m].childs) ELSE h[m].childs
              z == IF m \in (IF type \in {"keep", "alw"} THEN {f} ELSE {}) THEN "none" ELSE h[m].len
  <2>3. g[m] = [h[m] EXCEPT !.father = x, !.childs = y, !.len = z]
    BY <1>7
  <2>4. x \in Names \cup {Null} /\ y \in Seq(Names) /\ z \in Lengths
    BY <1>2, <2>1, <2>2, Fields DEF Lengths
  <2>. HIDE DEF x, y, z
  <2>5. g[m] \in Objects /\ g[m].type = h[m].type /\ g[m].father = x /\ g[m].childs = y
    BY <2>1, <2>3, <2>4 DEF Objects
  <2>6. QED
    BY <2>2, <2>5 DEF x, y
<1>12. HeapTyped(g)
  BY <1>2, <1>7, <1>8, <1>9, <1>11, Fields DEF HeapTyped
<1>13. /\ N \in [Owners -> Names \cup {Null}] /\ N[Thread(c)] = new
       /\ \A t \in Owners \ {Thread(c)} : N[t] = M[t]
  BY <1>1, <1>2
<1>. HIDE DEF N
<1>14. In(g, N) = (In(h, M) \ {c}) \cup {new}
  <2>1. new \in In(g, N)
    BY <1>2, <1>7, <1>13 DEF In
  <2>2. c \notin In(g, N)
    BY <1>2, <1>13 DEF In
  <2>3. ASSUME NEW m \in DOMAIN h, m # c PROVE m \in In(g, N) <=> m \in In(h, M)
    <3>1. m \in DOMAIN g /\ Thread(m) \in Owners /\ m # new
      BY <1>4, <1>7, Fields
    <3>2. CASE Thread(m) = Thread(c)
      BY <1>1, <1>13, <2>3, <3>1, <3>2 DEF In
    <3>3. CASE Thread(m) # Thread(c)
      BY <1>13, <3>1, <3>3 DEF In
    <3>4. QED
      BY <3>2, <3>3
  <2>4. In(g, N) \subseteq DOMAIN h \cup {new}
    BY <1>7 DEF In
  <2>5. QED
    BY <1>1, <2>1, <2>2, <2>3, <2>4
<1>15. MapTyped(g, N)
  <2>1. ASSUME NEW t \in Owners, N[t] # Null PROVE N[t] \in DOMAIN g /\ Thread(N[t]) = t
    <3>1. CASE t = Thread(c)
      BY <1>2, <1>7, <1>13, <3>1
    <3>2. CASE t # Thread(c)
      BY <1>7, <1>13, <2>1, <3>2 DEF MapTyped
    <3>3. QED
      BY <3>1, <3>2
  <2>2. QED
    BY <1>13, <2>1 DEF MapTyped
<1>16. \A m \in In(h, M) : IsInjective(h[m].childs) /\ \A k \in ToSet(h[m].childs) : k \in In(h, M) /\ h[k].father = m
  BY DEF Joined
<1>17. \A m \in DOMAIN h : h[m].childs \in Seq(Names)
  BY Fields
<1>18. Joined(g, N)
  <2>1. IsInjective(g[new].childs) /\ \A k \in ToSet(g[new].childs) : k \in In(g, N) /\ g[k].father = new
    BY <1>1, <1>5, <1>6, <1>8, <1>11, <1>14
  <2>2. ASSUME NEW m \in In(h, M), m # c, m # f
        PROVE  IsInjective(g[m].childs) /\ \A k \in ToSet(g[m].childs) : k \in In(g, N) /\ g[k].father = m
    <3>1. g[m].childs = h[m].childs
      BY <1>1, <1>11, <2>2
    <3>2. IsInjective(g[m].childs)
      BY <1>16, <3>1
    <3>3. ASSUME NEW k \in ToSet(g[m].childs) PROVE k \in In(g, N) /\ g[k].father = m
      <4>1. k \in In(h, M) /\ h[k].father = m
        BY <1>16, <3>1
      <4>2. k # c
        BY <2>2, <4>1
      <4>3. k \notin ToSet(kids)
        BY <1>5, <2>2, <4>1
      <4>4. QED
        BY <1>1, <1>11, <1>14, <4>1, <4>2, <4>3
    <3>4. QED
      BY <3>2, <3>3
  <2>3. ASSUME f \in In(h, M)
        PROVE  IsInjective(g[f].childs) /\ \A k \in ToSet(g[f].childs) : k \in In(g, N) /\ g[k].father = f
    <3>1. f \in DOMAIN h \ {c} /\ h[f].childs \in Seq(Names)
      BY <1>1, <1>6, <1>17, <2>3
    <3>2. g[f].childs = Replaced(h[f].childs)
      BY <1>11, <3>1
    <3>3. IsInjective(g[f].childs)
      BY <1>4, <1>10, <1>16, <2>3, <3>1, <3>2
    <3>4. ASSUME NEW k \in ToSet(g[f].childs) PROVE k \in In(g, N) /\ g[k].father = f
      <4>1. CASE k = new
        BY <1>8, <1>14, <4>1
      <4>2. CASE k # new
        <5>1. k \in ToSet(h[f].childs) /\ k # c
          BY <1>10, <3>1, <3>2, <4>2
        <5>2. k \in In(h, M) /\ h[k].father = f
          BY <1>16, <2>3, <5>1
        <5>3. k \notin ToSet(kids)
          BY <1>5, <1>6, <5>2
        <5>4. QED
          BY <1>1, <1>11, <1>14, <5>1, <5>2, <5>3
      <4>3. QED
        BY <4>1, <4>2
    <3>5. QED
      BY <3>3, <3>4
  <2>4. QED
    BY <1>14, <2>1, <2>2, <2>3 DEF Joined
<1>19. Held(g, N)
  <2>1. ASSUME NEW m \in DOMAIN g, g[m].father \in DOMAIN g, m \in ToSet(g[g[m].father].childs)
        PROVE  m \in In(g, N)
    <3>1. CASE m = new
      BY <1>14, <3>1
    <3>2. CASE m = c
      <4>1. g[m].father = f /\ f \in DOMAIN g /\ f # new
        BY <1>1, <1>4, <1>9, <2>1, <3>2
      <4>2. f \in DOMAIN h \ {c} /\ h[f].childs \in Seq(Names)
        BY <1>6, <1>7, <1>17, <4>1
      <4>3. g[f].childs = Replaced(h[f].childs)
        BY <1>11, <4>2
      <4>4. c \notin ToSet(g[f].childs)
        BY <1>10, <4>2, <4>3
      <4>5. QED
        BY <2>1, <3>2, <4>1, <4>4
    <3>3. CASE m \in DOMAIN h \ {c}
      <4>1. CASE m \in ToSet(kids)
        BY <1>5, <1>14, <3>3, <4>1
      <4>2. CASE m \notin ToSet(kids)
        <5>0. g[m].father = h[m].father /\ h[m].father # new
          BY <1>4, <1>11, <3>3, <4>2
        <5>1. g[m].father = h[m].father /\ h[m].father \in DOMAIN h
          BY <1>7, <2>1, <5>0
        <5>2. h[m].father # c
          BY <1>9, <2>1, <4>2, <5>1
        <5>3. h[m].father \in DOMAIN h \ {c} /\ h[h[m].father].childs \in Seq(Names)
          BY <1>17, <5>1, <5>2
        <5>4. m \in ToSet(h[h[m].father].childs)
          <6>1. CASE h[m].father = f
            <7>1. g[f].childs = Replaced(h[f].childs)
              BY <1>11, <5>3, <6>1
            <7>2. m # new
              BY <1>4, <3>3
            <7>3. QED
              BY <1>10, <2>1, <5>1, <5>3, <6>1, <7>1, <7>2
          <6>2. CASE h[m].father # f
            <7>1. g[h[m].father].childs = h[h[m].father].childs
              BY <1>11, <5>3, <6>2
            <7>2. QED
              BY <2>1, <5>1, <7>1
          <6>3. QED
            BY <6>1, <6>2
        <5>5. m \in In(h, M)
          BY <3>3, <5>1, <5>4 DEF Held
        <5>6. QED
          BY <1>14, <3>3, <5>5
      <4>3. QED
        BY <4>1, <4>2
    <3>4. QED
      BY <1>7, <2>1, <3>1, <3>2, <3>3
  <2>2. QED
    BY <2>1 DEF Held
<1>20. Deep(g, D)
  <2>1. \A m \in DOMAIN h : h[m].father # Null => D[Thread(h[m].father)] < D[Thread(m)]
    BY DEF Deep
  <2>2. \A m \in DOMAIN h \ {c} :
          g[m].father # Null => D[Thread(g[m].father)] < D[Thread(m)]
    <3>1. SUFFICES ASSUME NEW m \in DOMAIN h \ {c}, g[m].father # Null
                   PROVE  D[Thread(g[m].father)] < D[Thread(m)]
      OBVIOUS
    <3>2. CASE m \in ToSet(kids)
      <4>1. h[m].father = c /\ g[m].father = new /\ c # Null
        BY <1>1, <1>5, <1>11, <3>2
      <4>2. QED
        BY <1>2, <2>1, <4>1
    <3>3. CASE m \notin ToSet(kids)
      <4>1. g[m].father = h[m].father
        BY <1>11, <3>3
      <4>2. QED
        BY <2>1, <3>1, <4>1
    <3>4. QED
      BY <3>2, <3>3
  <2>3. \A m \in {c, new} : g[m].father # Null => D[Thread(g[m].father)] < D[Thread(m)]
    BY <1>1, <1>2, <1>8, <1>9, <2>1
  <2>4. QED
    BY <1>7, <2>2, <2>3 DEF Deep
<1>21. \A m \in DOMAIN h :
         /\ g[m].father = h[m].father \/ (m \in ToSet(kids) /\ h[m].father = c /\ g[m].father = new)
         /\ ToSet(g[m].childs) \subseteq ToSet(h[m].childs) \cup (IF m = f THEN {new} ELSE {})
  <2>1. \A m \in DOMAIN h \ {c} : g[m].father = h[m].father \/ (m \in ToSet(kids) /\ h[m].father = c /\ g[m].father = new)
    BY <1>5, <1>11
  <2>2. ASSUME NEW m \in DOMAIN h \ {c}
        PROVE  ToSet(g[m].childs) \subseteq ToSet(h[m].childs) \cup (IF m = f THEN {new} ELSE {})
    <3>1. CASE m = f
      <4>1. g[m].childs = Replaced(h[m].childs) /\ h[m].childs \in Seq(Names)
        BY <1>11, <1>17, <3>1
      <4>2. QED
        BY <1>10, <3>1, <4>1
    <3>2. CASE m # f
      BY <1>11, <3>2
    <3>3. QED
      BY <3>1, <3>2
  <2>3. QED
    BY <1>5, <1>6, <1>9, <2>1, <2>2
<1>22. Climbs(g, D)
  <2>1. ASSUME NEW m \in DOMAIN g, NEW k \in ToSet(g[m].childs), k \in DOMAIN g, g[k].father # Null
        PROVE  D[Thread(g[k].father)] <= D[Thread(m)]
    <3>1. CASE m = new
      <4>1. k \in ToSet(kids) /\ k \in DOMAIN h \ {c}
        BY <1>1, <1>5, <1>6, <1>8, <2>1, <3>1
      <4>2. g[k].father = new
        BY <1>11, <4>1
      <4>3. D[Thread(new)] \in Nat
        BY <1>1, <1>2
      <4>4. QED
        BY <3>1, <4>2, <4>3
    <3>2. CASE m \in DOMAIN h /\ k = new
      <4>1. m = f
        BY <1>4, <1>21, <3>2
      <4>2. g[k].father = f /\ D[Thread(f)] \in Nat
        BY <1>1, <1>8, <2>1, <3>2, ThreadOfName
      <4>3. QED
        BY <4>1, <4>2
    <3>3. CASE m \in DOMAIN h /\ k # new
      <4>1. k \in DOMAIN h /\ k \in ToSet(h[m].childs)
        BY <1>7, <1>21, <2>1, <3>3
      <4>2. h[k].father # Null => D[Thread(h[k].father)] <= D[Thread(m)]
        BY <3>3, <4>1 DEF Climbs
      <4>3. QED
        BY <1>1, <1>2, <1>21, <2>1, <4>1, <4>2
    <3>4. QED
      BY <1>7, <2>1, <3>1, <3>2, <3>3
  <2>2. QED
    BY <2>1 DEF Climbs
<1>23. ASSUME NEW m \in Names, Named(m, M, U) PROVE Named(m, N, U)
  <2>1. Thread(m) \in Owners /\ m[2] \in Nat
    BY ThreadOfName
  <2>2. CASE Thread(m) = Thread(c)
    <3>1. m[2] <= c[2] /\ Thread(m) \notin U
      BY <1>1, <1>23, <2>2 DEF Named
    <3>2. N[Thread(m)][2] = c[2] + 1
      BY <1>2, <1>13, <2>2
    <3>3. QED
      BY <1>2, <2>1, <3>1, <3>2 DEF Named
  <2>3. CASE Thread(m) # Thread(c)
    BY <1>13, <1>23, <2>1, <2>3 DEF Named
  <2>4. QED
    BY <2>2, <2>3
<1>24. AllNamed(g, N, U)
  <2>1. \A m \in DOMAIN h :
          /\ Named(m, N, U) /\ (h[m].father # Null => Named(h[m].father, N, U))
          /\ \A k \in ToSet(h[m].childs) : Named(k, N, U)
    BY <1>23, Fields DEF AllNamed
  <2>2. Named(new, N, U)
    BY <1>1, <1>2, <1>13 DEF AllNamed, Named
  <2>3. \A m \in DOMAIN h :
          /\ g[m].father # Null => Named(g[m].father, N, U)
          /\ \A k \in ToSet(g[m].childs) : Named(k, N, U)
    BY <1>21, <2>1, <2>2
  <2>4. (g[new].father # Null => Named(g[new].father, N, U)) /\ \A k \in ToSet(g[new].childs) : Named(k, N, U)
    BY <1>1, <1>5, <1>8, <2>1
  <2>5. QED
    BY <1>7, <2>1, <2>2, <2>3, <2>4 DEF AllNamed
<1>25. RootStays(g, N)
  <2>1. N[Main] = M[Main]
    BY <1>1, <1>13 DEF Owners
  <2>2. QED
    BY <1>1, <1>2, <1>7, <1>11, <2>1 DEF RootStays
<1>26. Apart(g, N, W)
  <2>1. ASSUME NEW k \in W
        PROVE  /\ k \in In(g, N) /\ k # root
               /\ \A m \in In(g, N) : k \notin ToSet(g[m].childs)
               /\ g[k].father \in DOMAIN g => k \notin ToSet(g[g[k].father].childs)
    <3>1. /\ k \in In(h, M) /\ k \in DOMAIN h \ {c} /\ k # root /\ k # new /\ k # c
          /\ \A m \in In(h, M) : k \notin ToSet(h[m].childs)
      BY <1>1, <1>4 DEF Apart
    <3>2. k \notin ToSet(kids)
      BY <1>5, <3>1
    <3>3. \A m \in DOMAIN h : k \in ToSet(g[m].childs) => k \in ToSet(h[m].childs)
      BY <1>21, <3>1
    <3>4. \A m \in In(g, N) : k \notin ToSet(g[m].childs)
      BY <1>1, <1>8, <1>14, <3>1, <3>2, <3>3
    <3>5. ASSUME g[k].father \in DOMAIN g PROVE k \notin ToSet(g[g[k].father].childs)
      <4>0. g[k].father = h[k].father /\ h[k].father # new
        BY <1>4, <1>11, <3>1, <3>2
      <4>1. g[k].father = h[k].father /\ h[k].father \in DOMAIN h
        <5>1. DOMAIN g = DOMAIN h \cup {new} /\ g[k].father \in DOMAIN g
          BY <1>7, <3>5
        <5>2. QED
          BY ONLY <4>0, <5>1
      <4>2. k \notin ToSet(h[h[k].father].childs)
        BY <4>1 DEF Apart
      <4>3. QED
        BY <3>3, <4>1, <4>2
    <3>6. QED
      BY <1>14, <3>1, <3>4, <3>5
  <2>2. QED
    BY <2>1 DEF Apart
<1>27. TreeOK(g, N, U, W, D)
  BY <1>12, <1>15, <1>18, <1>19, <1>20, <1>22, <1>24, <1>25, <1>26
<1>28. \A m \in DOMAIN h \ {c} : m \in DOMAIN g /\ Len(g[m].childs) = Len(h[m].childs)
  BY <1>7, <1>11
<1>29. QED
  <2>1. N = Renewed(M, c)
    BY DEF N, Renewed
  <2>2. QED
    BY <1>2, <1>14, <1>27, <1>28, <2>1 DEF g, HasRenewed

(* The children of a keep or alw node n leave it for its father; they are  *)
(* not yet among its father's children.                                    *)
Gave(h, M, U, W, D, n, g) ==
  LET kids == h[n].childs
  IN /\ TreeOK(g, M, U, W \cup ToSet(kids), D)
     /\ In(g, M) = In(h, M) /\ DOMAIN g = DOMAIN h
     /\ \A m \in DOMAIN h \ {n} : g[m].childs = h[m].childs
     /\ \A k \in ToSet(kids) : g[k].father = h[n].father
     /\ ToSet(kids) \cap W = {} /\ IsInjective(kids) /\ kids \in Seq(Names)

LEMMA AdoptedTree ==
  ASSUME NEW h, NEW M, NEW U, NEW W, NEW D \in [Owners -> Nat], D[Main] = 0,
         TreeOK(h, M, U, W, D), NEW n \in In(h, M)
  PROVE  Gave(h, M, U, W, D, n, [Adopted(h, h[n].childs, h[n].father) EXCEPT ![n].childs = <<>>])
<1>. DEFINE kids == h[n].childs
            f == h[n].father
            g == [Adopted(h, kids, f) EXCEPT ![n].childs = <<>>]
            X == W \cup ToSet(kids)
<1>. USE DEF TreeOK
<1>1. /\ n \in DOMAIN h /\ In(h, M) \subseteq DOMAIN h /\ n \in Names /\ Thread(n) \in Owners
      /\ M \in [Owners -> Names \cup {Null}]
      /\ f \in Names \cup {Null} /\ kids \in Seq(Names) /\ Null \notin Names
  <2>1. n \in DOMAIN h /\ In(h, M) \subseteq DOMAIN h
    BY DEF In
  <2>2. QED
    BY <2>1, Fields, NullIsNoName DEF MapTyped
<1>2. IsInjective(kids) /\ \A k \in ToSet(kids) : k \in In(h, M) /\ h[k].father = n
  BY DEF Joined
<1>3. f # Null => D[Thread(f)] < D[Thread(n)] /\ D[Thread(f)] \in Nat /\ D[Thread(n)] \in Nat
  BY <1>1, ThreadOfName DEF Deep
<1>4. n \notin ToSet(kids) /\ f # n
  <2>1. f # n
    BY <1>1, <1>3
  <2>2. QED
    BY <1>2, <2>1
<1>5. /\ DOMAIN g = DOMAIN h
      /\ \A m \in DOMAIN h : g[m] = [h[m] EXCEPT !.father = IF m \in ToSet(kids) THEN f ELSE @,
                                                 !.childs = IF m = n THEN <<>> ELSE @]
  <2>. DEFINE a == Adopted(h, kids, f)
  <2>1. /\ DOMAIN a = DOMAIN h
        /\ \A m \in DOMAIN h : a[m] = IF m \in ToSet(kids) THEN [h[m] EXCEPT !.father = f] ELSE h[m]
    BY DEF Adopted
  <2>2. /\ DOMAIN g = DOMAIN a /\ g[n] = [a[n] EXCEPT !.childs = <<>>]
        /\ \A m \in DOMAIN a \ {n} : g[m] = a[m]
    BY <1>1, <2>1
  <2>. HIDE DEF a, g
  <2>3. ASSUME NEW m \in DOMAIN h
        PROVE  g[m] = [h[m] EXCEPT !.father = IF m \in ToSet(kids) THEN f ELSE @,
                                   !.childs = IF m = n THEN <<>> ELSE @]
    <3>1. h[m] \in Objects
      BY DEF HeapTyped
    <3>2. CASE m = n
      <4>1. g[m] = [h[m] EXCEPT !.childs = <<>>]
        BY <1>1, <1>4, <2>1, <2>2, <3>2
      <4>2. QED
        BY <1>4, <3>1, <3>2, <4>1 DEF Objects
    <3>3. CASE m # n /\ m \in ToSet(kids)
      <4>1. g[m] = [h[m] EXCEPT !.father = f]
        BY <2>1, <2>2, <3>3
      <4>2. QED
        BY <3>1, <3>3, <4>1 DEF Objects
    <3>4. CASE m # n /\ m \notin ToSet(kids)
      <4>1. g[m] = h[m]
        BY <2>1, <2>2, <3>4
      <4>2. QED
        BY <3>1, <3>4, <4>1 DEF Objects
    <3>5. QED
      BY <3>2, <3>3, <3>4
  <2>4. QED
    BY <2>1, <2>2, <2>3
<1>. HIDE DEF g
<1>6. ASSUME NEW m \in DOMAIN h
      PROVE  /\ g[m] \in Objects /\ g[m].type = h[m].type
             /\ g[m].father = IF m \in ToSet(kids) THEN f ELSE h[m].father
             /\ g[m].childs = IF m = n THEN <<>> ELSE h[m].childs
  <2>. DEFINE x == IF m \in ToSet(kids) THEN f ELSE h[m].father
              y == IF m = n THEN <<>> ELSE h[m].childs
  <2>1. g[m] = [h[m] EXCEPT !.father = x, !.childs = y] /\ h[m] \in Objects
    BY <1>5 DEF HeapTyped
  <2>2. x \in Names \cup {Null} /\ y \in Seq(Names)
    BY <1>1, Fields
  <2>. HIDE DEF x, y
  <2>3. g[m] \in Objects /\ g[m].type = h[m].type /\ g[m].father = x /\ g[m].childs = y
    BY <2>1, <2>2 DEF Objects
  <2>4. QED
    BY <2>3 DEF x, y
<1>. HIDE DEF kids, f
<1>7. ToSet(<<>>) = {} /\ IsInjective(<<>>)
  BY DEF ToSet, IsInjective
<1>8. HeapTyped(g)
  BY <1>5, <1>6 DEF HeapTyped
<1>9. In(g, M) = In(h, M)
  BY <1>5 DEF In
<1>10. MapTyped(g, M)
  BY <1>5 DEF MapTyped
<1>11. \A m \in DOMAIN h : ToSet(g[m].childs) \subseteq ToSet(h[m].childs)
  BY <1>6, <1>7
<1>12. Joined(g, M)
  <2>1. ASSUME NEW m \in In(h, M), m # n
        PROVE  IsInjective(g[m].childs) /\ \A c \in ToSet(g[m].childs) : c \in In(g, M) /\ g[c].father = m
    <3>1. IsInjective(h[m].childs) /\ \A c \in ToSet(h[m].childs) : c \in In(h, M) /\ h[c].father = m
      BY DEF Joined
    <3>2. \A c \in ToSet(h[m].childs) : c \notin ToSet(kids)
      BY <1>2, <2>1, <3>1
    <3>3. QED
      BY <1>1, <1>6, <1>9, <2>1, <3>1, <3>2
  <2>2. IsInjective(g[n].childs) /\ ToSet(g[n].childs) = {}
    BY <1>1, <1>6, <1>7
  <2>3. QED
    BY <1>9, <2>1, <2>2 DEF Joined
<1>13. Held(g, M)
  <2>1. ASSUME NEW m \in DOMAIN g, g[m].father \in DOMAIN g, m \in ToSet(g[g[m].father].childs)
        PROVE  m \in In(g, M)
    <3>1. CASE m \in ToSet(kids)
      BY <1>2, <1>9, <3>1
    <3>2. CASE m \notin ToSet(kids)
      <4>1. g[m].father = h[m].father /\ m \in DOMAIN h /\ h[m].father \in DOMAIN h
        BY <1>5, <1>6, <2>1, <3>2
      <4>2. m \in ToSet(h[h[m].father].childs)
        BY <1>11, <2>1, <4>1
      <4>3. QED
        BY <1>9, <4>1, <4>2 DEF Held
    <3>3. QED
      BY <3>1, <3>2
  <2>2. QED
    BY <2>1 DEF Held
<1>14. \A k \in ToSet(kids) : k \in DOMAIN h /\ D[Thread(n)] < D[Thread(k)] /\ D[Thread(k)] \in Nat
  BY <1>1, <1>2, Fields DEF Deep
<1>15. Deep(g, D)
  <2>1. ASSUME NEW m \in DOMAIN h, g[m].father # Null PROVE D[Thread(g[m].father)] < D[Thread(m)]
    <3>1. CASE m \in ToSet(kids)
      <4>1. g[m].father = f /\ f # Null
        BY <1>6, <2>1, <3>1
      <4>2. QED
        BY <1>3, <1>14, <3>1, <4>1
    <3>2. CASE m \notin ToSet(kids)
      BY <1>6, <2>1, <3>2 DEF Deep
    <3>3. QED
      BY <3>1, <3>2
  <2>2. QED
    BY <1>5, <2>1 DEF Deep
<1>16. Climbs(g, D)
  <2>1. ASSUME NEW m \in DOMAIN h, NEW c \in ToSet(g[m].childs), c \in DOMAIN h, g[c].father # Null
        PROVE  D[Thread(g[c].father)] <= D[Thread(m)]
    <3>1. c \in ToSet(h[m].childs)
      BY <1>11
    <3>2. CASE c \in ToSet(kids)
      <4>1. g[c].father = f /\ f # Null /\ h[c].father = n /\ n # Null
        BY <1>1, <1>2, <1>6, <2>1, <3>2
      <4>2. D[Thread(n)] <= D[Thread(m)] /\ D[Thread(m)] \in Nat
        BY <2>1, <3>1, <4>1, Fields DEF Climbs
      <4>3. QED
        BY <1>3, <4>1, <4>2
    <3>3. CASE c \notin ToSet(kids)
      BY <1>6, <2>1, <3>1, <3>3 DEF Climbs
    <3>4. QED
      BY <3>2, <3>3
  <2>2. QED
    BY <1>5, <2>1 DEF Climbs
<1>17. AllNamed(g, M, U)
  <2>1. f # Null => Named(f, M, U)
    BY <1>1 DEF AllNamed, f
  <2>2. \A m \in DOMAIN h : g[m].father # Null => Named(g[m].father, M, U)
    BY <1>6, <2>1 DEF AllNamed
  <2>3. QED
    BY <1>5, <1>11, <2>2 DEF AllNamed
<1>18. RootStays(g, M)
  BY <1>5, <1>6 DEF RootStays
<1>19. Apart(g, M, X)
  <2>1. ASSUME NEW k \in W
        PROVE  /\ k \in In(g, M) /\ k # root
               /\ \A m \in In(g, M) : k \notin ToSet(g[m].childs)
               /\ g[k].father \in DOMAIN g => k \notin ToSet(g[g[k].father].childs)
    <3>1. /\ k \in In(h, M) /\ k \in DOMAIN h /\ k # root
          /\ \A m \in In(h, M) : k \notin ToSet(h[m].childs)
      BY <1>1 DEF Apart
    <3>2. k \notin ToSet(kids)
      BY <3>1 DEF kids
    <3>3. g[k].father = h[k].father
      BY <1>6, <3>1, <3>2
    <3>4. QED
      BY <1>1, <1>5, <1>9, <1>11, <3>1, <3>3 DEF Apart
  <2>2. ASSUME NEW k \in ToSet(kids)
        PROVE  /\ k \in In(g, M) /\ k # root
               /\ \A m \in In(g, M) : k \notin ToSet(g[m].childs)
               /\ g[k].father \in DOMAIN g => k \notin ToSet(g[g[k].father].childs)
    <3>1. k \in In(g, M) /\ k \in DOMAIN h /\ h[k].father = n
      BY <1>1, <1>2, <1>9
    <3>2. k # root
      <4>1. Thread(root) = Main
        BY DEF root, Thread
      <4>2. D[Thread(n)] \in Nat
        BY <1>1
      <4>3. QED
        BY <1>14, <4>1, <4>2
    <3>3. ASSUME NEW m \in In(g, M), k \in ToSet(g[m].childs) PROVE FALSE
      <4>1. k \in ToSet(h[m].childs) /\ m \in In(h, M)
        BY <1>1, <1>9, <1>11, <3>3
      <4>2. m = n
        BY <3>1, <4>1 DEF Joined
      <4>3. QED
        BY <1>1, <1>6, <1>7, <3>3, <4>2
    <3>4. ASSUME g[k].father \in DOMAIN g, k \in ToSet(g[g[k].father].childs) PROVE FALSE
      <4>1. g[k].father = f /\ f \in DOMAIN h
        BY <1>5, <1>6, <3>1, <3>4
      <4>2. k \in ToSet(h[f].childs) /\ f # Null
        BY <1>1, <1>11, <3>4, <4>1, Fields
      <4>3. D[Thread(n)] <= D[Thread(f)]
        BY <1>1, <3>1, <4>1, <4>2 DEF Climbs
      <4>4. QED
        BY <1>3, <4>2, <4>3
    <3>5. QED
      BY <3>1, <3>2, <3>3, <3>4
  <2>3. QED
    BY <2>1, <2>2 DEF Apart
<1>20. ToSet(kids) \cap W = {}
  BY DEF Apart, kids
<1>21. TreeOK(g, M, U, X, D)
  BY <1>8, <1>10, <1>12, <1>13, <1>15, <1>16, <1>17, <1>18, <1>19
<1>22. /\ \A m \in DOMAIN h \ {n} : g[m].childs = h[m].childs
       /\ \A k \in ToSet(kids) : g[k].father = f
       /\ g[n].father = f
  BY <1>1, <1>4, <1>6, <1>14 DEF f
<1>23. QED
  BY <1>1, <1>2, <1>5, <1>9, <1>20, <1>21, <1>22 DEF g, kids, f, Gave

(* Objects that wait join the children of their father.                    *)
HasJoined(h, M, U, W, D, kids, g) ==
  /\ TreeOK(g, M, U, W \ ToSet(kids), D)
  /\ In(g, M) = In(h, M) /\ DOMAIN g = DOMAIN h
  /\ \A m \in DOMAIN h : Len(g[m].childs) >= Len(h[m].childs)

LEMMA JoinedTree ==
  ASSUME NEW h, NEW M, NEW U, NEW W, NEW D \in [Owners -> Nat], TreeOK(h, M, U, W, D),
         NEW kids \in Seq(Names), IsInjective(kids), ToSet(kids) \subseteq W,
         NEW f, \A k \in ToSet(kids) : h[k].father = f
  PROVE  HasJoined(h, M, U, W, D, kids, [h EXCEPT ![f].childs = @ \o kids])
<1>. DEFINE g == [h EXCEPT ![f].childs = @ \o kids]
            X == W \ ToSet(kids)
<1>. USE DEF TreeOK
<1>1. CASE f \notin DOMAIN h
  <2>1. DOMAIN g = DOMAIN h /\ \A m \in DOMAIN h : g[m] = h[m]
    BY <1>1
  <2>. HIDE DEF g
  <2>2. TreeOK(g, M, U, X, D) /\ In(g, M) = In(h, M)
    <3>1. U \in SUBSET U /\ X \in SUBSET W
      OBVIOUS
    <3>2. Shrunk(h, g)
      BY <2>1 DEF Shrunk, HeapTyped
    <3>3. TreeOK(g, M, U, W, D) /\ In(g, M) = In(h, M)
      BY <3>2, ShrunkTree
    <3>4. QED
      BY <3>1, <3>3, FewerTree
  <2>3. \A m \in DOMAIN h : Len(h[m].childs) >= Len(h[m].childs)
    <3>1. \A m \in DOMAIN h : h[m].childs \in Seq(Names)
      BY Fields
    <3>2. QED
      BY <3>1
  <2>4. QED
    BY <2>1, <2>2, <2>3 DEF g, HasJoined
<1>2. CASE f \in DOMAIN h
  <2>1. h[f] \in Objects /\ h[f].childs \in Seq(Names) /\ f \in Names /\ Thread(f) \in Owners
    BY <1>2, Fields DEF HeapTyped
  <2>2. /\ h[f].childs \o kids \in Seq(Names)
        /\ Len(h[f].childs \o kids) = Len(h[f].childs) + Len(kids)
        /\ ToSet(h[f].childs \o kids) = ToSet(h[f].childs) \cup ToSet(kids)
        /\ (IsInjective(h[f].childs) /\ ToSet(h[f].childs) \cap ToSet(kids) = {} => IsInjective(h[f].childs \o kids))
    BY <2>1, JoinedSeq
  <2>3. /\ DOMAIN g = DOMAIN h /\ g[f] = [h[f] EXCEPT !.childs = @ \o kids]
        /\ \A m \in DOMAIN h : m # f => g[m] = h[m]
    BY <1>2
  <2>. HIDE DEF g
  <2>4. /\ g[f] \in Objects /\ g[f].type = h[f].type /\ g[f].father = h[f].father
        /\ g[f].childs = h[f].childs \o kids
    BY <2>1, <2>2, <2>3 DEF Objects
  <2>5. \A m \in DOMAIN h : g[m].type = h[m].type /\ g[m].father = h[m].father
    BY <2>3, <2>4
  <2>6. \A m \in DOMAIN h : ToSet(g[m].childs) \subseteq ToSet(h[m].childs) \cup (IF m = f THEN ToSet(kids) ELSE {})
    BY <2>2, <2>3, <2>4
  <2>7. HeapTyped(g)
    BY <2>3, <2>4 DEF HeapTyped
  <2>8. In(g, M) = In(h, M) /\ In(h, M) \subseteq DOMAIN h
    BY <2>3 DEF In
  <2>9. MapTyped(g, M)
    BY <2>3 DEF MapTyped
  <2>10. \A k \in ToSet(kids) : k \in In(h, M) /\ k \in DOMAIN h /\ h[k].father = f
                                /\ \A m \in In(h, M) : k \notin ToSet(h[m].childs)
    BY <2>8 DEF Apart
  <2>11. Joined(g, M)
    <3>1. ASSUME NEW m \in In(h, M), m # f
          PROVE  IsInjective(g[m].childs) /\ \A c \in ToSet(g[m].childs) : c \in In(g, M) /\ g[c].father = m
      BY <2>3, <2>5, <2>8, <3>1 DEF Joined
    <3>2. ASSUME f \in In(h, M)
          PROVE  IsInjective(g[f].childs) /\ \A c \in ToSet(g[f].childs) : c \in In(g, M) /\ g[c].father = f
      <4>1. IsInjective(h[f].childs) /\ \A c \in ToSet(h[f].childs) : c \in In(h, M) /\ h[c].father = f
        BY <3>2 DEF Joined
      <4>2. ToSet(h[f].childs) \cap ToSet(kids) = {}
        BY <2>10, <3>2
      <4>3. QED
        BY <2>2, <2>4, <2>5, <2>8, <2>10, <4>1, <4>2
    <3>3. QED
      BY <2>8, <3>1, <3>2 DEF Joined
  <2>12. Held(g, M)
    <3>1. ASSUME NEW m \in DOMAIN g, g[m].father \in DOMAIN g, m \in ToSet(g[g[m].father].childs)
          PROVE  m \in In(g, M)
      <4>1. CASE m \in ToSet(kids)
        BY <2>8, <2>10, <4>1
      <4>2. CASE m \notin ToSet(kids)
        <5>1. g[m].father = h[m].father /\ m \in DOMAIN h /\ h[m].father \in DOMAIN h
          BY <2>3, <2>5, <3>1
        <5>2. m \in ToSet(h[h[m].father].childs)
          BY <2>6, <3>1, <4>2, <5>1
        <5>3. QED
          BY <2>8, <5>1, <5>2 DEF Held
      <4>3. QED
        BY <4>1, <4>2
    <3>2. QED
      BY <3>1 DEF Held
  <2>13. Deep(g, D) /\ RootStays(g, M)
    BY <2>3, <2>5 DEF Deep, RootStays
  <2>14. Climbs(g, D)
    <3>1. ASSUME NEW m \in DOMAIN h, NEW c \in ToSet(g[m].childs), c \in DOMAIN h, g[c].father # Null
          PROVE  D[Thread(g[c].father)] <= D[Thread(m)]
      <4>1. CASE c \in ToSet(h[m].childs)
        BY <2>5, <3>1, <4>1 DEF Climbs
      <4>2. CASE c \notin ToSet(h[m].childs)
        <5>1. m = f /\ c \in ToSet(kids)
          BY <2>6, <4>2
        <5>2. g[c].father = f /\ D[Thread(f)] \in Nat
          BY <2>1, <2>5, <2>10, <5>1
        <5>3. QED
          BY <5>1, <5>2
      <4>3. QED
        BY <4>1, <4>2
    <3>2. QED
      BY <2>3, <3>1 DEF Climbs
  <2>15. AllNamed(g, M, U)
    <3>1. \A k \in ToSet(kids) : Named(k, M, U)
      BY <2>10 DEF AllNamed
    <3>2. \A m \in DOMAIN h : \A c \in ToSet(g[m].childs) : Named(c, M, U)
      BY <2>6, <3>1 DEF AllNamed
    <3>3. QED
      BY <2>3, <2>5, <3>2 DEF AllNamed
  <2>16. Apart(g, M, X)
    <3>1. ASSUME NEW k \in X
          PROVE  /\ k \in In(g, M) /\ k # root
                 /\ \A m \in In(g, M) : k \notin ToSet(g[m].childs)
                 /\ g[k].father \in DOMAIN g => k \notin ToSet(g[g[k].father].childs)
      <4>1. /\ k \in W /\ k \notin ToSet(kids) /\ k \in In(h, M) /\ k \in DOMAIN h /\ k # root
            /\ \A m \in In(h, M) : k \notin ToSet(h[m].childs)
            /\ h[k].father \in DOMAIN h => k \notin ToSet(h[h[k].father].childs)
        BY <2>8 DEF Apart
      <4>2. \A m \in DOMAIN h : k \in ToSet(g[m].childs) => k \in ToSet(h[m].childs)
        BY <2>6, <4>1
      <4>3. QED
        BY <2>3, <2>5, <2>8, <4>1, <4>2
    <3>2. QED
      BY <3>1 DEF Apart
  <2>17. \A m \in DOMAIN h : Len(g[m].childs) >= Len(h[m].childs)
    <3>1. ASSUME NEW m \in DOMAIN h PROVE Len(g[m].childs) >= Len(h[m].childs)
      <4>1. h[m].childs \in Seq(Names)
        BY Fields
      <4>2. Len(h[m].childs) \in Nat /\ Len(kids) \in Nat
        BY <4>1
      <4>3. CASE m = f
        BY <2>2, <2>4, <4>2, <4>3
      <4>4. CASE m # f
        BY <2>3, <4>2, <4>4
      <4>5. QED
        BY <4>3, <4>4
    <3>2. QED
      BY <3>1
  <2>18. TreeOK(g, M, U, X, D)
    BY <2>7, <2>9, <2>11, <2>12, <2>13, <2>14, <2>15, <2>16
  <2>19. QED
    BY <2>3, <2>8, <2>17, <2>18 DEF g, HasJoined
<1>3. QED
  BY <1>1, <1>2

-----------------------------------------------------------------------------
(* Neither father nor children nor type of an object changes.              *)
Same(o, p) == p \in Objects /\ p.father = o.father /\ p.type = o.type /\ p.childs = o.childs

SameShape(h, g) ==
  DOMAIN g = DOMAIN h /\ HeapTyped(h) /\ \A n \in DOMAIN h : Same(h[n], g[n])

LEMMA SameIsShrunk ==
  ASSUME NEW h, NEW g, SameShape(h, g)
  PROVE  /\ Shrunk(h, g) /\ HeapTyped(g)
         /\ \A n \in DOMAIN h : g[n].childs = h[n].childs /\ g[n].father = h[n].father /\ g[n].type = h[n].type
BY DEF SameShape, Same, Shrunk, HeapTyped

LEMMA SameAgain ==
  ASSUME NEW h, NEW g, NEW k, SameShape(h, g), SameShape(g, k)
  PROVE  SameShape(h, k)
BY DEF SameShape, Same

LEMMA SameFields ==
  ASSUME NEW o \in Objects
  PROVE  /\ Same(o, o)
         /\ \A x \in Lengths : Same(o, [o EXCEPT !.len = x])
         /\ \A x \in Types : Same(o, [o EXCEPT !.newType = x])
         /\ \A x \in BOOLEAN : Same(o, [o EXCEPT !.hasEmpty = x]) /\ Same(o, [o EXCEPT !.extQ = x])
                               /\ Same(o, [o EXCEPT !.hasExtQ = x])
BY DEF Same, Objects

LEMMA SameSet ==
  ASSUME NEW h, HeapTyped(h), NEW f, NEW x, f \in DOMAIN h => Same(h[f], x)
  PROVE  SameShape(h, [h EXCEPT ![f] = x])
<1>1. \A n \in DOMAIN h : h[n] \in Objects
  BY DEF HeapTyped
<1>2. \A n \in DOMAIN h : Same(h[n], h[n])
  BY <1>1, SameFields
<1>3. QED
  BY <1>2 DEF SameShape

(* Fields of one object, or the lengths of several, are set.               *)
LEMMA SameHeaps ==
  ASSUME NEW h, HeapTyped(h), NEW f
  PROVE  /\ \A x \in Lengths : SameShape(h, [h EXCEPT ![f].len = x])
         /\ \A x \in Types : SameShape(h, [h EXCEPT ![f].newType = x])
         /\ \A x \in BOOLEAN : SameShape(h, [h EXCEPT ![f].hasEmpty = x]) /\ SameShape(h, [h EXCEPT ![f].extQ = x])
                               /\ SameShape(h, [h EXCEPT ![f].hasExtQ = x])
         /\ \A x \in Lengths : \A S : SameShape(h, [m \in DOMAIN h |-> IF m \in S THEN [h[m] EXCEPT !.len = x] ELSE h[m]])
<1>1. f \in DOMAIN h => h[f] \in Objects
  BY DEF HeapTyped
<1>2. \A x \in Lengths : SameShape(h, [h EXCEPT ![f].len = x])
  <2>1. ASSUME NEW x \in Lengths PROVE SameShape(h, [h EXCEPT ![f] = [h[f] EXCEPT !.len = x]])
    BY <1>1, SameFields, SameSet
  <2>2. QED
    BY <2>1
<1>3. \A x \in Types : SameShape(h, [h EXCEPT ![f].newType = x])
  <2>1. ASSUME NEW x \in Types PROVE SameShape(h, [h EXCEPT ![f] = [h[f] EXCEPT !.newType = x]])
    BY <1>1, SameFields, SameSet
  <2>2. QED
    BY <2>1
<1>4. \A x \in BOOLEAN : SameShape(h, [h EXCEPT ![f].hasEmpty = x])
  <2>1. ASSUME NEW x \in BOOLEAN PROVE SameShape(h, [h EXCEPT ![f] = [h[f] EXCEPT !.hasEmpty = x]])
    BY <1>1, SameFields, SameSet
  <2>2. QED
    BY <2>1
<1>5. \A x \in BOOLEAN : SameShape(h, [h EXCEPT ![f].extQ = x])
  <2>1. ASSUME NEW x \in BOOLEAN PROVE SameShape(h, [h EXCEPT ![f] = [h[f] EXCEPT !.extQ = x]])
    BY <1>1, SameFields, SameSet
  <2>2. QED
    BY <2>1
<1>6. \A x \in BOOLEAN : SameShape(h, [h EXCEPT ![f].hasExtQ = x])
  <2>1. ASSUME NEW x \in BOOLEAN PROVE SameShape(h, [h EXCEPT ![f] = [h[f] EXCEPT !.hasExtQ = x]])
    BY <1>1, SameFields, SameSet
  <2>2. QED
    BY <2>1
<1>7. ASSUME NEW x \in Lengths, NEW S
      PROVE  SameShape(h, [m \in DOMAIN h |-> IF m \in S THEN [h[m] EXCEPT !.len = x] ELSE h[m]])
  <2>1. \A m \in DOMAIN h : Same(h[m], h[m]) /\ Same(h[m], [h[m] EXCEPT !.len = x])
    BY SameFields DEF HeapTyped
  <2>2. QED
    BY <2>1 DEF SameShape
<1>8. QED
  BY <1>2, <1>3, <1>4, <1>5, <1>6, <1>7

LEMMA LengthenedSame ==
  ASSUME NEW h, HeapTyped(h), NEW f
  PROVE  SameShape(h, Lengthened(h, f))
<1>1. "more" \in Lengths
  BY DEF Lengths
<1>2. QED
  BY <1>1, SameHeaps DEF Lengthened

(* setNodeLength leaves father and children alone, and stores a node in    *)
(* changedNode or prjNode.                                                 *)
Pointers(r) == {r.changedNode, r.prjNode} \subseteq Names \cup {Null}

LEMMA ResultFields ==
  ASSUME NEW h, NEW c, NEW p
  PROVE  Result(h, c, p).node = h /\ Result(h, c, p).changedNode = c /\ Result(h, c, p).prjNode = p
BY DEF Result

LEMMA AndLengthSet ==
  ASSUME NEW h, HeapTyped(h), NEW n \in DOMAIN h,
         NEW top \in Nat, NEW D \in [Owners -> 0 .. top], Deep(h, D),
         {changedNode, prjNode} \subseteq Names \cup {Null}
  PROVE  SameShape(h, setAndLen(h, n).node) /\ Pointers(setAndLen(h, n))
<1>. DEFINE up == [c \in DOMAIN h |->
                     {f \in {h[c].father} \cap DOMAIN h :
                        /\ h[f].type = "and" /\ ~h[f].hasEmpty
                        /\ h[n].len = "none"
                        /\ \A d \in ToSet(h[f].childs) : d = c \/ h[d].len = "none"}]
            Nones == Reach(up)[n] \ {n}
            h1 == [m \in DOMAIN h |-> IF m \in Nones THEN [h[m] EXCEPT !.len = "none"] ELSE h[m]]
            last == CHOOSE m \in Reach(up)[n] : h[m].father \notin Nones
            f == h[last].father
            depth == [m \in DOMAIN h |-> top - D[Thread(m)]]
            empties == Number(h1[f].childs, LAMBDA c : IsEmptyLeaf(h1[c]))
            nones == Number(h1[f].childs, LAMBDA c : h1[c].len = "none")
            hasEmpty == h1[f].hasEmpty \/ empties > 0
            h2 == [h1 EXCEPT ![f].hasEmpty = hasEmpty]
            r1 == Result(h1, changedNode, prjNode)
            r2 == Result([h2 EXCEPT ![f].len = "empty", ![f].newType = "leaf"], f, prjNode)
            r3 == Result(h2, changedNode, prjNode)
<1>1. setAndLen(h, n) =
        IF f = Null \/ h[f].type # "and" THEN r1
        ELSE IF empties + (IF hasEmpty THEN nones ELSE 0) = Len(h1[f].childs) THEN r2 ELSE r3
  BY Zenon DEF setAndLen
<1>2. /\ \A m \in DOMAIN h : up[m] \subseteq {h[m].father} \cap DOMAIN h
      /\ up \in [DOMAIN h -> SUBSET DOMAIN h]
  OBVIOUS
<1>. HIDE DEF up
<1>3. /\ \A m \in DOMAIN h : m \in Names /\ Thread(m) \in Owners /\ D[Thread(m)] \in 0 .. top
      /\ Null \notin DOMAIN h
  <2>1. \A m \in DOMAIN h : m \in Names /\ Thread(m) \in Owners
    BY Fields
  <2>2. QED
    BY <2>1, NullIsNoName
<1>4. \A m \in DOMAIN h : h[m].father \in DOMAIN h => D[Thread(h[m].father)] < D[Thread(m)]
  BY <1>3 DEF Deep
<1>5. Descends(DOMAIN h, up, depth, top)
  <2>1. depth \in [DOMAIN h -> 0 .. top]
    BY <1>3
  <2>2. ASSUME NEW m \in DOMAIN h, NEW c \in up[m] PROVE depth[m] < depth[c]
    <3>1. c = h[m].father /\ c \in DOMAIN h
      BY <1>2
    <3>2. QED
      BY <1>3, <1>4, <3>1
  <2>3. QED
    BY <1>2, <2>1, <2>2 DEF Descends
<1>6. n \in Reach(up)[n] /\ Reach(up)[n] \subseteq DOMAIN h
  BY <1>5, ReachIsBelow
<1>7. \E m \in Reach(up)[n] : h[m].father \notin Nones
  <2>. DEFINE S == {D[Thread(m)] : m \in Reach(up)[n]}
  <2>1. S \in SUBSET Nat /\ S # {}
    BY <1>3, <1>6
  <2>2. PICK d \in S : \A e \in Nat : e < d => e \notin S
    BY <2>1, Least
  <2>3. PICK m \in Reach(up)[n] : d = D[Thread(m)]
    OBVIOUS
  <2>4. ASSUME h[m].father \in Nones PROVE FALSE
    <3>1. h[m].father \in DOMAIN h /\ h[m].father \in Reach(up)[n] /\ m \in DOMAIN h
      BY <1>6, <2>4
    <3>2. D[Thread(h[m].father)] < d /\ D[Thread(h[m].father)] \in Nat /\ D[Thread(h[m].father)] \in S
      BY <1>3, <1>4, <2>3, <3>1
    <3>3. QED
      BY <2>2, <3>2
  <2>5. QED
    BY <2>4
<1>8. last \in DOMAIN h
  <2>1. last \in Reach(up)[n]
    BY <1>7
  <2>2. QED
    BY <1>6, <2>1
<1>. HIDE DEF last, Nones
<1>9. f \in Names \cup {Null}
  BY <1>8, Fields
<1>. HIDE DEF f
<1>10. "none" \in Lengths /\ "empty" \in Lengths /\ "leaf" \in Types
  BY DEF Lengths, Types
<1>11. SameShape(h, h1)
  BY <1>10, SameHeaps
<1>. HIDE DEF h1
<1>12. HeapTyped(h1)
  BY <1>11, SameIsShrunk
<1>. HIDE DEF empties, nones
<1>13. hasEmpty \in BOOLEAN
  BY Zenon
<1>. HIDE DEF hasEmpty
<1>14. SameShape(h1, h2)
  BY <1>12, <1>13, SameHeaps
<1>. HIDE DEF h2
<1>15. SameShape(h2, [h2 EXCEPT ![f].len = "empty", ![f].newType = "leaf"])
  <2>1. HeapTyped(h2)
    BY <1>14, SameIsShrunk
  <2>2. SameShape(h2, [h2 EXCEPT ![f].len = "empty"])
    BY <1>10, <2>1, SameHeaps
  <2>3. HeapTyped([h2 EXCEPT ![f].len = "empty"])
    BY <2>2, SameIsShrunk
  <2>4. SameShape([h2 EXCEPT ![f].len = "empty"], [[h2 EXCEPT ![f].len = "empty"] EXCEPT ![f].newType = "leaf"])
    BY <1>10, <2>3, SameHeaps
  <2>5. QED
    BY <2>2, <2>4, SameAgain
<1>16. SameShape(h, h2) /\ SameShape(h, [h2 EXCEPT ![f].len = "empty", ![f].newType = "leaf"])
  BY <1>11, <1>14, <1>15, SameAgain
<1>17. /\ SameShape(h, r1.node) /\ Pointers(r1)
       /\ SameShape(h, r2.node) /\ Pointers(r2)
       /\ SameShape(h, r3.node) /\ Pointers(r3)
  BY <1>9, <1>11, <1>16, ResultFields DEF Pointers
<1>. HIDE DEF r1, r2, r3
<1>18. QED
  BY <1>1, <1>17

LEMMA LengthSet ==
  ASSUME NEW h, HeapTyped(h), NEW n \in DOMAIN h, NEW len \in Lengths,
         NEW top \in Nat, NEW D \in [Owners -> 0 .. top], Deep(h, D),
         {changedNode, prjNode} \subseteq Names \cup {Null}
  PROVE  SameShape(h, setNodeLength(h, n, len).node) /\ Pointers(setNodeLength(h, n, len))
<1>. DEFINE h1 == [h EXCEPT ![n].len = len]
            f == h[n].father
            Good(r) == SameShape(h, r.node) /\ Pointers(r)
            s == Result(h1, changedNode, prjNode)
<1>1. f \in Names \cup {Null}
  BY Fields
<1>2. SameShape(h, h1)
  BY SameHeaps
<1>3. HeapTyped(h1) /\ DOMAIN h1 = DOMAIN h /\ \A m \in DOMAIN h : h1[m].father = h[m].father
  BY <1>2, SameIsShrunk DEF SameShape
<1>4. Deep(h1, D)
  BY <1>3 DEF Deep
<1>5. setNodeLength(h, n, len) =
        CASE f = Null -> s
          [] f # Null /\ h[f].type = "and" -> setAndLen(h1, n)
          [] f # Null /\ h[f].type = "pal" -> setPalLen(h1, f)
          [] f # Null /\ h[f].type = "prj" -> setPrjLen(h1, f, n)
          [] OTHER -> s
  BY DEF setNodeLength
<1>. HIDE DEF h1, f
<1>6. "none" \in Lengths /\ "empty" \in Lengths /\ "leaf" \in Types
  BY DEF Lengths, Types
<1>7. SameShape(h1, [h1 EXCEPT ![f].len = "none"]) /\ SameShape(h1, [h1 EXCEPT ![f].len = "empty"])
  BY <1>3, <1>6, SameHeaps
<1>8. SameShape(h1, [h1 EXCEPT ![f].len = "empty", ![f].newType = "leaf"])
  <2>1. HeapTyped([h1 EXCEPT ![f].len = "empty"])
    BY <1>7, SameIsShrunk
  <2>2. SameShape([h1 EXCEPT ![f].len = "empty"], [[h1 EXCEPT ![f].len = "empty"] EXCEPT ![f].newType = "leaf"])
    BY <1>6, <2>1, SameHeaps
  <2>3. QED
    BY <1>7, <2>2, SameAgain
<1>9. Good(s)
  BY <1>2, ResultFields DEF Pointers
<1>10. Good(setAndLen(h1, n))
  <2>1. SameShape(h1, setAndLen(h1, n).node) /\ Pointers(setAndLen(h1, n))
    BY <1>3, <1>4, AndLengthSet
  <2>2. QED
    BY <1>2, <2>1, SameAgain
<1>. DEFINE a == Result([h1 EXCEPT ![f].len = "none"], changedNode, prjNode)
            b == Result([h1 EXCEPT ![f].len = "empty", ![f].newType = "leaf"], f, prjNode)
            c == Result([h1 EXCEPT ![f].len = "empty", ![f].newType = "leaf"], changedNode, prjNode)
            d == Result(h1, changedNode, f)
<1>11. Good(a) /\ Good(b) /\ Good(c) /\ Good(d)
  <2>1. /\ SameShape(h, [h1 EXCEPT ![f].len = "none"])
        /\ SameShape(h, [h1 EXCEPT ![f].len = "empty", ![f].newType = "leaf"])
    BY <1>2, <1>7, <1>8, SameAgain
  <2>2. QED
    BY <1>1, <1>2, <2>1, ResultFields DEF Pointers
<1>12. setPalLen(h1, f) \in {a, b, s}
  BY DEF setPalLen
<1>13. setPrjLen(h1, f, n) \in {c, d, s}
  BY DEF setPrjLen
<1>. HIDE DEF a, b, c, d, s, Good
<1>14. Good(setPalLen(h1, f)) /\ Good(setPrjLen(h1, f, n))
  BY <1>9, <1>11, <1>12, <1>13
<1>15. Good(setNodeLength(h, n, len))
  <2>1. \/ setNodeLength(h, n, len) = s
        \/ setNodeLength(h, n, len) = setAndLen(h1, n)
        \/ setNodeLength(h, n, len) = setPalLen(h1, f)
        \/ setNodeLength(h, n, len) = setPrjLen(h1, f, n)
    BY <1>5
  <2>2. QED
    BY <1>9, <1>10, <1>14, <2>1
<1>16. QED
  BY <1>15 DEF Good

-----------------------------------------------------------------------------
(* isCorrectAndExit only takes children from an object.                    *)
Lost(o, p) ==
  /\ p \in Objects /\ p.father = o.father /\ p.type = o.type
  /\ ToSet(p.childs) \subseteq ToSet(o.childs)
  /\ IsInjective(o.childs) => IsInjective(p.childs)

Reduced(o, x, y, S) == [o EXCEPT !.hasEmpty = x, !.len = y, !.childs = Without(@, S)]

LEMMA LostFields ==
  ASSUME NEW o \in Objects
  PROVE  /\ Lost(o, o)
         /\ \A x \in Lengths : Lost(o, [o EXCEPT !.len = x])
         /\ \A x \in BOOLEAN : \A y \in Lengths : \A S : Lost(o, Reduced(o, x, y, S))
<1>1. o.childs \in Seq(Names)
  BY DEF Objects
<1>2. \A S : /\ Without(o.childs, S) \in Seq(Names)
             /\ ToSet(Without(o.childs, S)) \subseteq ToSet(o.childs)
             /\ IsInjective(o.childs) => IsInjective(Without(o.childs, S))
  BY <1>1, WithoutIsPart
<1>3. ASSUME NEW x \in BOOLEAN, NEW y \in Lengths, NEW S PROVE Lost(o, Reduced(o, x, y, S))
  <2>. DEFINE z == Without(o.childs, S)
  <2>1. Reduced(o, x, y, S) = [o EXCEPT !.hasEmpty = x, !.len = y, !.childs = z]
    BY DEF Reduced
  <2>2. z \in Seq(Names)
    BY <1>2
  <2>. HIDE DEF z
  <2>. DEFINE p == Reduced(o, x, y, S)
  <2>3. p \in Objects /\ p.father = o.father /\ p.type = o.type /\ p.childs = z
    BY <2>1, <2>2 DEF Objects
  <2>4. QED
    BY <1>2, <2>3 DEF Lost, z
<1>5. \A x \in Lengths : Same(o, [o EXCEPT !.len = x])
  BY SameFields
<1>6. QED
  BY <1>3, <1>5 DEF Same, Lost

LEMMA CheckedLoses ==
  ASSUME HeapTyped(node), NEW n \in DOMAIN node, NEW kid
  PROVE  Lost(node[n], CorrectAndExit(n, kid).obj)
<1>. DEFINE o == node[n]
            t == Thread(n)
<1>1. o \in Objects /\ o.type \in Types /\ o.len \in Lengths /\ o.hasEmpty \in BOOLEAN
  BY Fields DEF HeapTyped
<1>. HIDE DEF o
<1>2. {"none", "empty", "more"} \subseteq Lengths
  BY DEF Lengths
<1>3. Lost(o, AndChecked(o, kid).obj)
  <2>. DEFINE ended(c) == kid[c].exit /\ IsEmptyLeaf(kid[c].obj)
              empties == Number(o.childs, LAMBDA c : IsEmptyLeaf(kid[c].obj))
              nones == Number(o.childs, LAMBDA c : kid[c].obj.len = "none")
              hasEmpty == o.hasEmpty \/ empties > 0
              exit == hasEmpty /\ empties + nones = Len(o.childs)
              len == IF exit THEN "empty" ELSE IF hasEmpty THEN o.len
                     ELSE IF nones = Len(o.childs) THEN "none" ELSE "more"
              gone == {c \in ToSet(o.childs) : ended(c)}
  <2>1. AndChecked(o, kid).obj = Reduced(o, hasEmpty, len, gone)
    BY DEF AndChecked, Reduced
  <2>2. hasEmpty \in BOOLEAN
    BY Zenon
  <2>. HIDE DEF hasEmpty, exit, nones, gone
  <2>3. len \in Lengths
    BY <1>1, <1>2
  <2>. HIDE DEF len
  <2>4. QED
    BY <1>1, <2>1, <2>2, <2>3, LostFields
<1>4. Lost(o, PalChecked(o, kid).obj)
  <2>. DEFINE exits(c) == kid[c].exit /\ kid[c].obj.type = "leaf"
              ended(c) == exits(c) /\ kid[c].obj.len = "empty"
              exit == o.len = "empty" \/ Number(o.childs, ended) = Len(o.childs)
              hasEmpty == o.hasEmpty \/ Number(o.childs, ended) > 0
              len == IF exit THEN "empty" ELSE o.len
              gone == {c \in ToSet(o.childs) : exits(c)}
  <2>1. PalChecked(o, kid).obj = Reduced(o, hasEmpty, len, gone)
    BY DEF PalChecked, Reduced
  <2>2. hasEmpty \in BOOLEAN
    BY Zenon
  <2>. HIDE DEF hasEmpty, exit, gone
  <2>3. len \in Lengths
    BY <1>1, <1>2
  <2>. HIDE DEF len
  <2>4. QED
    BY <1>1, <2>1, <2>2, <2>3, LostFields
<1>5. Lost(o, PrjChecked(o).obj)
  <2>. DEFINE exit == \/ o.len = "empty"
                      \/ /\ Returned(Thread(o.childs[1]))
                         /\ \A c \in ToSet(Tail(o.childs)) : IsEmptyLeaf(node[c])
              len == IF exit THEN "empty" ELSE o.len
  <2>1. PrjChecked(o).obj = [o EXCEPT !.len = len]
    BY DEF PrjChecked
  <2>. HIDE DEF exit
  <2>2. len \in Lengths
    BY <1>1, <1>2
  <2>. HIDE DEF len
  <2>3. QED
    BY <1>1, <2>1, <2>2, LostFields
<1>6. Lost(o, LeafChecked(t, o).obj) /\ Lost(o, KeepChecked(t, o).obj) /\ Lost(o, AlwChecked(t, o).obj)
  BY <1>1, LostFields DEF LeafChecked, KeepChecked, AlwChecked
<1>7. /\ o.type = "and" => CorrectAndExit(n, kid) = AndChecked(o, kid)
      /\ o.type = "pal" => CorrectAndExit(n, kid) = PalChecked(o, kid)
      /\ o.type = "prj" => CorrectAndExit(n, kid) = PrjChecked(o)
      /\ o.type = "leaf" => CorrectAndExit(n, kid) = LeafChecked(t, o)
      /\ o.type = "keep" => CorrectAndExit(n, kid) = KeepChecked(t, o)
      /\ o.type = "alw" => CorrectAndExit(n, kid) = AlwChecked(t, o)
  BY DEF CorrectAndExit, o
<1>8. o.type \in {"and", "pal", "prj", "leaf", "keep", "alw"}
  BY <1>1 DEF Types, Groups
<1>9. Lost(o, CorrectAndExit(n, kid).obj)
  BY <1>3, <1>4, <1>5, <1>6, <1>7, <1>8
<1>10. QED
  BY <1>9 DEF o

(* The tree as the two recursions see it.                                  *)
LEMMA TreeDescends ==
  ASSUME NEW U, NEW W, NEW top \in Nat, NEW D \in [Owners -> 0 .. top],
         TreeOK(node, threadIDToNode, U, W, D)
  PROVE  LET all == [n \in Present |-> ToSet(node[n].childs)]
             some == [n \in Present |-> IF node[n].type \in {"and", "pal"} THEN ToSet(node[n].childs) ELSE {}]
             depth == [n \in Present |-> D[Thread(n)]]
         IN /\ Present = In(node, threadIDToNode)
            /\ Descends(Present, all, depth, top) /\ Descends(Present, some, depth, top)
<1>. DEFINE all == [n \in Present |-> ToSet(node[n].childs)]
            some == [n \in Present |-> IF node[n].type \in {"and", "pal"} THEN ToSet(node[n].childs) ELSE {}]
            depth == [n \in Present |-> D[Thread(n)]]
<1>. USE DEF TreeOK
<1>1. Present = In(node, threadIDToNode) /\ Present \subseteq DOMAIN node
  BY DEF Present, Current, In
<1>2. \A n \in Present : \A c \in ToSet(node[n].childs) : c \in Present /\ node[c].father = n
  BY <1>1 DEF Joined
<1>3. \A n \in Present : n \in Names /\ n # Null /\ Thread(n) \in Owners
  BY <1>1, Fields, NullIsNoName
<1>4. \A n \in Present : \A c \in ToSet(node[n].childs) : c \in Present /\ D[Thread(n)] < D[Thread(c)]
  BY <1>1, <1>2, <1>3 DEF Deep
<1>5. depth \in [Present -> 0 .. top]
  BY <1>3
<1>6. all \in [Present -> SUBSET Present] /\ some \in [Present -> SUBSET Present]
  BY <1>4
<1>7. \A n \in Present : \A c \in ToSet(node[n].childs) : depth[n] < depth[c]
  BY <1>4
<1>8. QED
  BY <1>1, <1>5, <1>6, <1>7 DEF Descends

LeavesAlone(n, W, D) ==
  /\ Shrunk(node, CheckedHeap(n))
  /\ CheckedGone(n) \subseteq DOMAIN node /\ W \cap CheckedGone(n) = {}
  /\ \A m \in Present \ CheckedGone(n) : ToSet(CheckedHeap(n)[m].childs) \cap CheckedGone(n) = {}
  /\ \A m \in CheckedGone(n) : D[Thread(n)] < D[Thread(m)]
  /\ \A m \in Present : D[Thread(m)] < D[Thread(n)] => CheckedHeap(n)[m] = node[m]

LEMMA CheckedTree ==
  ASSUME NEW U, NEW W, NEW top \in Nat, NEW D \in [Owners -> 0 .. top],
         TreeOK(node, threadIDToNode, U, W, D), NEW n \in Present
  PROVE  LeavesAlone(n, W, D)
<1>. DEFINE all == [m \in Present |-> ToSet(node[m].childs)]
            some == [m \in Present |-> IF node[m].type \in {"and", "pal"} THEN ToSet(node[m].childs) ELSE {}]
            depth == [m \in Present |-> D[Thread(m)]]
            P == Descended[n]
            gone == CheckedGone(n)
            g == CheckedHeap(n)
<1>. USE DEF TreeOK
<1>1. /\ Present = In(node, threadIDToNode) /\ Present \subseteq DOMAIN node
      /\ Descends(Present, all, depth, top) /\ Descends(Present, some, depth, top)
  <2>1. Present \subseteq DOMAIN node
    BY DEF Present
  <2>2. QED
    BY <2>1, TreeDescends
<1>2. /\ P \subseteq Present
      /\ \A m \in P : D[Thread(n)] <= D[Thread(m)]
  <2>1. \A m \in Reach(some)[n] : m \in Present /\ depth[n] <= depth[m]
    BY <1>1, ReachIsBelow
  <2>2. QED
    BY <2>1 DEF Descended
<1>3. \A m \in Present : Checked[m] = CorrectAndExit(m, [c \in ToSet(node[m].childs) |-> Checked[c]])
  BY <1>1, CheckedEquation
<1>4. \A m \in Present : Lost(node[m], Checked[m].obj)
  BY <1>1, <1>3, CheckedLoses
<1>5. /\ DOMAIN g = DOMAIN node
      /\ \A m \in DOMAIN node : g[m] = IF m \in P THEN Checked[m].obj ELSE node[m]
  BY DEF CheckedHeap
<1>6. gone = UNION {ToSet(node[m].childs) \ ToSet(Checked[m].obj.childs) : m \in P}
  BY DEF CheckedGone
<1>. HIDE DEF P, g, gone
<1>7. Shrunk(node, g)
  <2>1. \A m \in DOMAIN node : Lost(node[m], g[m])
    BY <1>1, <1>2, <1>4, <1>5, LostFields DEF HeapTyped
  <2>2. \A m \in DOMAIN node : g[m] \in Objects
    BY <2>1 DEF Lost
  <2>3. HeapTyped(g)
    BY <1>5, <2>2 DEF HeapTyped
  <2>4. QED
    BY <1>5, <2>1, <2>3 DEF Shrunk, Lost
<1>8. \A x \in gone : \E m \in P : x \in ToSet(node[m].childs) /\ x \notin ToSet(Checked[m].obj.childs)
  BY <1>6
<1>9. \A m \in Present : \A c \in ToSet(node[m].childs) : c \in Present /\ node[c].father = m /\ D[Thread(m)] < D[Thread(c)]
  <2>1. \A m \in Present : \A c \in ToSet(node[m].childs) : c \in Present /\ node[c].father = m
    BY <1>1 DEF Joined
  <2>2. \A m \in Present : m # Null
    BY <1>1, Fields, NullIsNoName
  <2>3. QED
    BY <1>1, <2>1, <2>2 DEF Deep
<1>10. gone \subseteq Present /\ W \cap gone = {}
  BY <1>1, <1>2, <1>8, <1>9 DEF Apart
<1>11. ASSUME NEW m \in Present \ gone, NEW x \in ToSet(g[m].childs), x \in gone PROVE FALSE
  <2>1. PICK k \in P : x \in ToSet(node[k].childs) /\ x \notin ToSet(Checked[k].obj.childs)
    BY <1>8, <1>11
  <2>2. x \in ToSet(node[m].childs)
    BY <1>1, <1>7 DEF Shrunk
  <2>3. m = k
    BY <1>2, <1>9, <2>1, <2>2
  <2>4. QED
    BY <1>1, <1>2, <1>5, <2>1, <2>3
<1>12. ASSUME NEW m \in gone PROVE D[Thread(n)] < D[Thread(m)]
  <2>1. PICK k \in P : m \in ToSet(node[k].childs)
    BY <1>8
  <2>2. D[Thread(n)] <= D[Thread(k)] /\ D[Thread(k)] < D[Thread(m)]
    BY <1>2, <1>9, <2>1
  <2>3. D[Thread(n)] \in Nat /\ D[Thread(k)] \in Nat /\ D[Thread(m)] \in Nat
    BY <1>1, <1>2, <1>10, Fields
  <2>4. QED
    BY <2>2, <2>3
<1>13. ASSUME NEW m \in Present, D[Thread(m)] < D[Thread(n)] PROVE g[m] = node[m]
  <2>1. D[Thread(n)] \in Nat /\ D[Thread(m)] \in Nat
    BY <1>1, Fields
  <2>2. m \notin P
    BY <1>2, <1>13, <2>1
  <2>3. QED
    BY <1>1, <1>5, <2>2
<1>14. gone \subseteq DOMAIN node
  BY <1>1, <1>10
<1>15. \A m \in Present \ gone : ToSet(g[m].childs) \cap gone = {}
  BY <1>11
<1>16. QED
  BY <1>7, <1>10, <1>12, <1>13, <1>14, <1>15 DEF gone, g, LeavesAlone

(* What ~Node deletes: the object and what is below it.                    *)
BelowGood(n, W, D) ==
  /\ n \in Below[n] /\ Below[n] \subseteq Present
  /\ W \cap Below[n] \subseteq {n}
  /\ \A m \in Below[n] : m = n \/ D[Thread(n)] < D[Thread(m)]
  /\ \A m \in Present \ Below[n] : ToSet(node[m].childs) \cap Below[n] \subseteq {n}

LEMMA BelowTree ==
  ASSUME NEW U, NEW W, NEW top \in Nat, NEW D \in [Owners -> 0 .. top],
         TreeOK(node, threadIDToNode, U, W, D), NEW n \in Present
  PROVE  BelowGood(n, W, D)
<1>. DEFINE all == [m \in Present |-> ToSet(node[m].childs)]
            some == [m \in Present |-> IF node[m].type \in {"and", "pal"} THEN ToSet(node[m].childs) ELSE {}]
            depth == [m \in Present |-> D[Thread(m)]]
<1>. USE DEF TreeOK
<1>1. Present = In(node, threadIDToNode) /\ Descends(Present, all, depth, top)
  BY TreeDescends
<1>2. /\ n \in Reach(all)[n]
      /\ \A x \in Reach(all)[n] :
           /\ x \in Present /\ depth[n] <= depth[x]
           /\ x = n \/ (depth[n] < depth[x] /\ \E y \in Reach(all)[n] : x \in all[y])
  <2>. HIDE DEF all, depth
  <2>1. QED
    BY <1>1, ReachIsBelow
<1>3. /\ n \in Below[n] /\ Below[n] \subseteq Present
      /\ \A x \in Below[n] :
           x = n \/ (D[Thread(n)] < D[Thread(x)] /\ \E y \in Below[n] : x \in ToSet(node[y].childs))
  BY <1>2 DEF Below
<1>4. \A m \in Present : \A c \in ToSet(node[m].childs) : c \in Present /\ node[c].father = m
  BY <1>1 DEF Joined
<1>5. ASSUME NEW k \in W, k \in Below[n] PROVE k = n
  BY <1>1, <1>3, <1>5 DEF Apart
<1>6. ASSUME NEW m \in Present \ Below[n], NEW x \in ToSet(node[m].childs), x \in Below[n] PROVE x = n
  BY <1>3, <1>4, <1>6
<1>7. QED
  BY <1>3, <1>5, <1>6 DEF BelowGood
=============================================================================
