-------------------------- MODULE ThreadTreeShape --------------------------
(***************************************************************************)
(* The shape of the tree is kept by every step of ThreadTree, for any      *)
(* programs: who runs below whom, what the manager's stack still refers to *)
(* and which children of keep nodes wait are one invariant.                *)
(***************************************************************************)
EXTENDS ThreadTreeProofs, FiniteSetTheorems

-----------------------------------------------------------------------------
(* A depth that grows from a thread to those it creates.                   *)
Levels == Cardinality(Threads)
Depth == CHOOSE depth \in [Owners -> 0 .. Levels] : Deepens(prog, depth)

(* What is left to run creates each thread once, below its creator.        *)
Kids(t, i) == ToSet(todo[t][i].kids)
Unborn == UNION {UNION {Kids(t, i) : i \in DOMAIN todo[t]} : t \in Threads}

TodoOK ==
  /\ prog \in Programs
  /\ todo \in [Threads -> Seq(Slices)]
  /\ \A t \in Threads : \A i \in DOMAIN todo[t] :
       IsInjective(todo[t][i].kids) /\ \A c \in Kids(t, i) : Depth[t] < Depth[c]
  /\ \A t, u \in Threads : \A i \in DOMAIN todo[t] : \A j \in DOMAIN todo[u] :
       t # u \/ i # j => Kids(t, i) \cap Kids(u, j) = {}

(* A frame of a walk is about a present object and its children; the       *)
(* frames above it are about objects below that one.                       *)
Walks(x) == x.op \in {"childs", "child", "prj", "prjp", "prjq", "prjran"}
Goes(x) == Walks(x) \/ x.op = "excute"

WalkOK(x, h, M) ==
  /\ x.node \in In(h, M)
  /\ x.op = "childs" => x.i \in Nat \ {0}
  /\ x.op = "child" => x.i \in 1 .. Len(h[x.node].childs)
  /\ x.op = "prjp" => Len(h[x.node].childs) >= 2
  /\ x.op = "prjran" => Len(h[x.node].childs) >= 1

Under(y, x, D) == D[Thread(y.node)] < D[Thread(x.node)]

StackGood(s, h, M, D) ==
  /\ \A j \in 1 .. Len(s) : Walks(s[j]) => WalkOK(s[j], h, M)
  /\ \A j \in 1 .. Len(s) : \A i \in 1 .. j - 1 : Walks(s[j]) => Goes(s[i]) /\ Under(s[j], s[i], D)
  /\ \A j \in 1 .. Len(s) : s[j].op = "keeps" => j = Len(s) - 1 /\ s[j].i \in Nat \ {0}

StackOK == StackGood(stack, node, threadIDToNode, Depth)

(* The children of keep nodes that the loop over keepChilds has before it. *)
Index(s, ks) == {k \in 1 .. Len(ks) : \A j \in 1 .. Len(s) : s[j].op = "keeps" => s[j].i <= k}
Waiting(s, ks) == {ks[k] : k \in Index(s, ks)}
WaitGood(s, ks) ==
  ks \in Seq(Names) /\ \A k, l \in Index(s, ks) : ks[k] = ks[l] => k = l

GlobalsOK ==
  /\ prsnt \in Seq(Threads)
  /\ {changedNode, prjNode} \subseteq Names \cup {Null}
  /\ stateNum \in 0 .. MaxStates
  /\ process \in {"alive", "killed", "exited"}

RootThere == stack # <<>> => root \in DOMAIN node

ShapeInv ==
  /\ TodoOK
  /\ TreeOK(node, threadIDToNode, Unborn, Waiting(stack, keepChilds), Depth)
  /\ StackOK
  /\ WaitGood(stack, keepChilds)
  /\ RootThere
  /\ GlobalsOK

-----------------------------------------------------------------------------
LEMMA DepthGrows ==
  ASSUME prog \in Programs
  PROVE  /\ Levels \in Nat
         /\ Depth \in [Owners -> 0 .. Levels] /\ Depth \in [Owners -> Nat]
         /\ Depth[Main] = 0 /\ Deepens(prog, Depth)
<1>1. Levels \in Nat
  BY ProgramsAssumption, FS_CardinalityType DEF Levels
<1>2. \E depth \in [Owners -> 0 .. Levels] : Deepens(prog, depth)
  BY ProgramsAssumption DEF Owners, Levels
<1>3. Depth \in [Owners -> 0 .. Levels] /\ Deepens(prog, Depth)
  BY <1>2 DEF Depth
<1>4. Depth \in [Owners -> Nat]
  BY <1>1, <1>3
<1>5. QED
  BY <1>1, <1>3, <1>4 DEF Deepens

LEMMA DepthStays == prog' = prog => Depth' = Depth
BY DEF Depth, Deepens, Created

LEMMA UnbornAreThreads == TodoOK => Unborn \subseteq Threads
<1>. SUFFICES ASSUME TodoOK, NEW t \in Threads, NEW i \in DOMAIN todo[t], NEW c \in Kids(t, i)
              PROVE  c \in Threads
  BY DEF Unborn
<1>1. todo[t] \in Seq(Slices)
  BY DEF TodoOK
<1>2. todo[t][i] \in Slices
  BY <1>1
<1>3. todo[t][i].kids \in Seq(Threads)
  BY <1>2 DEF Slices
<1>4. QED
  BY <1>3 DEF Kids, ToSet

(* A slice is run: its threads are born, and no other slice has them.      *)
LEMMA SliceIsRun ==
  ASSUME TodoOK, NEW t \in Threads, todo[t] # <<>>, prog' = prog,
         todo' = [todo EXCEPT ![t] = Tail(@)]
  PROVE  LET s == Head(todo[t])
         IN /\ s \in Slices /\ s.kids \in Seq(Threads) /\ IsInjective(s.kids)
            /\ ToSet(s.kids) \subseteq Unborn
            /\ \A c \in ToSet(s.kids) : Depth[t] < Depth[c]
            /\ TodoOK' /\ Unborn' \subseteq Unborn \ ToSet(s.kids)
<1>. DEFINE s == Head(todo[t])
<1>1. todo \in [Threads -> Seq(Slices)] /\ prog \in Programs
  BY DEF TodoOK
<1>2. todo[t] \in Seq(Slices) /\ 1 \in DOMAIN todo[t] /\ s = todo[t][1]
  BY <1>1
<1>3. s \in Slices /\ s.kids \in Seq(Threads)
  <2>1. s \in Slices
    <3>1. \A S : \A u \in Seq(S) : 1 \in DOMAIN u => u[1] \in S
      OBVIOUS
    <3>. HIDE DEF s
    <3>2. QED
      BY <1>2, <3>1
  <2>2. QED
    BY <2>1 DEF Slices
<1>4. Kids(t, 1) = ToSet(s.kids)
  BY <1>2 DEF Kids
<1>5. IsInjective(s.kids) /\ \A c \in ToSet(s.kids) : Depth[t] < Depth[c]
  BY <1>2, <1>4 DEF TodoOK
<1>6. ToSet(s.kids) \subseteq Unborn
  BY <1>2, <1>4 DEF Unborn
<1>7. /\ Tail(todo[t]) \in Seq(Slices)
      /\ \A i \in DOMAIN Tail(todo[t]) : i + 1 \in DOMAIN todo[t] /\ i + 1 # 1 /\ Tail(todo[t])[i] = todo[t][i + 1]
      /\ \A i, j \in DOMAIN Tail(todo[t]) : i # j => i + 1 # j + 1
  <2>1. Len(todo[t]) \in Nat /\ Len(Tail(todo[t])) = Len(todo[t]) - 1 /\ Tail(todo[t]) \in Seq(Slices)
    BY <1>2
  <2>2. DOMAIN Tail(todo[t]) = 1 .. Len(todo[t]) - 1 /\ DOMAIN todo[t] = 1 .. Len(todo[t])
    BY <1>2, <2>1
  <2>3. \A i \in 1 .. Len(todo[t]) - 1 : Tail(todo[t])[i] = todo[t][i + 1]
    BY <1>2
  <2>4. QED
    BY <2>1, <2>2, <2>3
<1>8. /\ todo' \in [Threads -> Seq(Slices)] /\ todo'[t] = Tail(todo[t])
      /\ \A u \in Threads : u # t => todo'[u] = todo[u]
  BY <1>1, <1>7
<1>. DEFINE Old(u, i) == IF u = t THEN i + 1 ELSE i
<1>9. \A u \in Threads : \A i \in DOMAIN todo'[u] :
        /\ Old(u, i) \in DOMAIN todo[u] /\ todo'[u][i] = todo[u][Old(u, i)]
        /\ u = t => Old(u, i) # 1
  BY <1>7, <1>8
<1>10. \A u \in Threads : \A i, j \in DOMAIN todo'[u] : i # j => Old(u, i) # Old(u, j)
  BY <1>7, <1>8
<1>. HIDE DEF Old
<1>11. Depth' = Depth
  BY DepthStays
<1>12. \A u \in Threads : \A i \in DOMAIN todo'[u] : Kids(u, i)' = Kids(u, Old(u, i))
  BY <1>9 DEF Kids
<1>13. TodoOK'
  <2>1. \A u \in Threads : \A i \in DOMAIN todo'[u] :
          IsInjective(todo'[u][i].kids) /\ \A c \in Kids(u, i)' : Depth'[u] < Depth'[c]
    BY <1>9, <1>11, <1>12 DEF TodoOK
  <2>2. ASSUME NEW u \in Threads, NEW v \in Threads, NEW i \in DOMAIN todo'[u], NEW j \in DOMAIN todo'[v],
               u # v \/ i # j
        PROVE  Kids(u, i)' \cap Kids(v, j)' = {}
    <3>1. Old(u, i) \in DOMAIN todo[u] /\ Old(v, j) \in DOMAIN todo[v]
      BY <1>9
    <3>2. u # v \/ Old(u, i) # Old(v, j)
      BY <1>10, <2>2
    <3>3. Kids(u, Old(u, i)) \cap Kids(v, Old(v, j)) = {}
      BY <3>1, <3>2 DEF TodoOK
    <3>4. QED
      BY <1>12, <3>3
  <2>3. QED
    BY <1>1, <1>8, <2>1, <2>2 DEF TodoOK
<1>14. Unborn' \subseteq Unborn \ ToSet(s.kids)
  <2>1. SUFFICES ASSUME NEW u \in Threads, NEW i \in DOMAIN todo'[u], NEW c \in Kids(u, i)'
                 PROVE  c \in Unborn /\ c \notin ToSet(s.kids)
    BY DEF Unborn
  <2>2. c \in Kids(u, Old(u, i)) /\ Old(u, i) \in DOMAIN todo[u]
    BY <1>9, <1>12
  <2>3. c \in Unborn
    BY <2>2 DEF Unborn
  <2>4. u # t \/ Old(u, i) # 1
    BY <1>9
  <2>5. Kids(u, Old(u, i)) \cap Kids(t, 1) = {}
    BY <1>2, <2>2, <2>4 DEF TodoOK
  <2>6. QED
    BY <1>4, <2>2, <2>3, <2>5
<1>15. QED
  BY <1>3, <1>5, <1>6, <1>13, <1>14

-----------------------------------------------------------------------------
(* Objects that lie higher in the tree than n stay, with their children.   *)
Higher(n, h, M, g, N, D) ==
  \A m \in In(h, M) :
    D[Thread(m)] < D[Thread(n)] => m \in In(g, N) /\ Len(g[m].childs) >= Len(h[m].childs)

Stays(n) == Higher(n, node, threadIDToNode, node', threadIDToNode', Depth)

(* The frames a step puts in the place of the one on top.                  *)
FramesGood(frames, top, len, h, M, D) ==
  \A i \in 1 .. Len(frames) :
    /\ Walks(frames[i]) => WalkOK(frames[i], h, M)
    /\ Walks(frames[i]) => \A k \in 1 .. i - 1 : Goes(frames[k]) /\ Under(frames[i], frames[k], D)
    /\ frames[i].op = "keeps" => i = Len(frames) + len - 2 /\ frames[i].i \in Nat \ {0}
    /\ Goes(top) => /\ Goes(frames[i]) /\ Thread(frames[i].node) \in Owners
                    /\ D[Thread(top.node)] <= D[Thread(frames[i].node)]

LEMMA StillWalks ==
  ASSUME NEW x, NEW h, NEW M, NEW g, NEW N, Walks(x), WalkOK(x, h, M), HeapTyped(h),
         x.node \in In(g, N) /\ HeapTyped(g) /\ Len(g[x.node].childs) >= Len(h[x.node].childs)
  PROVE  WalkOK(x, g, N)
<1>1. x.node \in DOMAIN h /\ x.node \in DOMAIN g
  BY DEF WalkOK, In
<1>2. Len(h[x.node].childs) \in Nat /\ Len(g[x.node].childs) \in Nat
  <2>1. h[x.node].childs \in Seq(Names) /\ g[x.node].childs \in Seq(Names)
    BY <1>1, Fields
  <2>2. QED
    BY <2>1
<1>3. QED
  BY <1>2 DEF WalkOK

LEMMA StackStep ==
  ASSUME HeapTyped(node), HeapTyped(node'), prog \in Programs, prog' = prog,
         StackOK, IsSeq, stack # <<>>, NEW F, NEW frames \in Seq(F), Do(frames),
         FramesGood(frames, Top, Len(stack), node', threadIDToNode', Depth),
         Goes(Top) => Thread(Top.node) \in Owners /\ Stays(Top.node)
  PROVE  StackOK'
<1>. DEFINE k == Len(frames)
            n == Len(stack)
            new == stack'
<1>1. /\ k \in Nat /\ n \in Nat /\ n > 0 /\ Top = stack[1]
      /\ Len(new) = k + n - 1
      /\ \A i \in 1 .. k : new[i] = frames[i]
      /\ \A i \in k + 1 .. Len(new) : new[i] = stack[i - k + 1]
  BY Pushed DEF Do, IsSeq, Top
<1>2. Depth' = Depth /\ Depth \in [Owners -> Nat]
  BY DepthStays, DepthGrows
<1>3. /\ \A j \in 1 .. n : Walks(stack[j]) => WalkOK(stack[j], node, threadIDToNode)
      /\ \A j \in 1 .. n : \A i \in 1 .. j - 1 : Walks(stack[j]) => Goes(stack[i]) /\ Under(stack[j], stack[i], Depth)
      /\ \A j \in 1 .. n : stack[j].op = "keeps" => j = n - 1 /\ stack[j].i \in Nat \ {0}
  BY DEF StackOK, StackGood
<1>4. \A i \in 1 .. k :
         /\ Walks(frames[i]) => WalkOK(frames[i], node', threadIDToNode')
         /\ Walks(frames[i]) => \A l \in 1 .. i - 1 : Goes(frames[l]) /\ Under(frames[i], frames[l], Depth)
         /\ frames[i].op = "keeps" => i = k + n - 2 /\ frames[i].i \in Nat \ {0}
         /\ Goes(Top) => /\ Goes(frames[i]) /\ Thread(frames[i].node) \in Owners
                         /\ Depth[Thread(Top.node)] <= Depth[Thread(frames[i].node)]
  BY DEF FramesGood
<1>. HIDE DEF k, n, new
<1>5. \A j \in 1 .. Len(new) : \/ j \in 1 .. k
                               \/ j \in k + 1 .. Len(new) /\ j - k + 1 \in 2 .. n
  BY <1>1
<1>6. ASSUME NEW j \in k + 1 .. Len(new), j - k + 1 \in 2 .. n, Walks(new[j])
      PROVE  /\ Walks(stack[j - k + 1]) /\ new[j] = stack[j - k + 1]
             /\ Goes(Top) /\ Under(new[j], Top, Depth)
             /\ WalkOK(new[j], node, threadIDToNode)
  <2>1. new[j] = stack[j - k + 1] /\ j - k + 1 \in 1 .. n /\ 1 \in 1 .. (j - k + 1) - 1
    BY <1>1, <1>6
  <2>2. QED
    BY <1>1, <1>3, <1>6, <2>1
<1>7. ASSUME NEW j \in 1 .. Len(new), Walks(new[j]) PROVE WalkOK(new[j], node', threadIDToNode')
  <2>1. CASE j \in 1 .. k
    BY <1>1, <1>4, <1>7, <2>1
  <2>2. CASE j \in k + 1 .. Len(new) /\ j - k + 1 \in 2 .. n
    <3>1. Goes(Top) /\ Under(new[j], Top, Depth) /\ WalkOK(new[j], node, threadIDToNode)
      BY <1>6, <1>7, <2>2
    <3>2. new[j].node \in In(node, threadIDToNode)
      BY <3>1 DEF WalkOK
    <3>3. Depth[Thread(new[j].node)] < Depth[Thread(Top.node)]
      BY <3>1 DEF Under
    <3>4. new[j].node \in In(node', threadIDToNode')
          /\ Len(node'[new[j].node].childs) >= Len(node[new[j].node].childs)
      BY <3>1, <3>2, <3>3 DEF Stays, Higher
    <3>5. QED
      BY <1>7, <3>1, <3>4, StillWalks
  <2>3. QED
    BY <1>5, <2>1, <2>2
<1>8. ASSUME NEW j \in 1 .. Len(new), NEW i \in 1 .. j - 1, Walks(new[j])
      PROVE  Goes(new[i]) /\ Under(new[j], new[i], Depth)
  <2>1. CASE j \in 1 .. k
    <3>1. i \in 1 .. k /\ new[i] = frames[i] /\ new[j] = frames[j]
      BY <1>1, <2>1
    <3>2. QED
      BY <1>4, <1>8, <2>1, <3>1
  <2>2. CASE j \in k + 1 .. Len(new) /\ j - k + 1 \in 2 .. n
    <3>1. Goes(Top) /\ Under(new[j], Top, Depth) /\ Walks(stack[j - k + 1]) /\ new[j] = stack[j - k + 1]
      BY <1>6, <1>8, <2>2
    <3>2. CASE i \in 1 .. k
      <4>1. new[i] = frames[i] /\ Goes(frames[i]) /\ Thread(frames[i].node) \in Owners
            /\ Depth[Thread(Top.node)] <= Depth[Thread(frames[i].node)]
        BY <1>1, <1>4, <3>1, <3>2
      <4>2. Thread(new[j].node) \in Owners /\ Thread(Top.node) \in Owners
        <5>1. new[j].node \in DOMAIN node
          BY <1>6, <1>8, <2>2 DEF WalkOK, In
        <5>2. QED
          BY <3>1, <5>1, Fields
      <4>3. \A a, b, c \in Owners : Depth[a] < Depth[b] /\ Depth[b] <= Depth[c] => Depth[a] < Depth[c]
        BY <1>2
      <4>4. Depth[Thread(new[j].node)] < Depth[Thread(Top.node)]
        BY <3>1 DEF Under
      <4>5. Depth[Thread(new[j].node)] < Depth[Thread(frames[i].node)]
        BY <4>1, <4>2, <4>3, <4>4
      <4>6. QED
        BY <4>1, <4>5 DEF Under
    <3>3. CASE i \in k + 1 .. Len(new)
      <4>c. new[i] = stack[i - k + 1]
        BY <1>1, <3>3
      <4>d. j - k + 1 \in 1 .. n
        BY <2>2
      <4>1. new[i] = stack[i - k + 1] /\ j - k + 1 \in 1 .. n
        BY <4>c, <4>d
      <4>. HIDE DEF new
      <4>a. i \in Int /\ j \in Int /\ i <= j - 1 /\ i >= k + 1 /\ k \in Nat
        BY <1>1, <3>3
      <4>b. i - k + 1 \in 1 .. (j - k + 1) - 1
        BY ONLY <4>a
      <4>2. QED
        BY <1>3, <3>1, <4>1, <4>b
    <3>4. i \in 1 .. Len(new)
      BY <1>1
    <3>5. QED
      BY <1>5, <3>2, <3>3, <3>4
  <2>3. QED
    BY <1>5, <2>1, <2>2
<1>9. ASSUME NEW j \in 1 .. Len(new), new[j].op = "keeps" PROVE j = Len(new) - 1 /\ new[j].i \in Nat \ {0}
  <2>1. CASE j \in 1 .. k
    <3>1. new[j] = frames[j]
      BY <1>1, <2>1
    <3>2. j = k + n - 2 /\ new[j].i \in Nat \ {0}
      BY <1>4, <1>9, <2>1, <3>1
    <3>3. QED
      BY <1>1, <3>2
  <2>2. CASE j \in k + 1 .. Len(new) /\ j - k + 1 \in 2 .. n
    <3>1. new[j] = stack[j - k + 1] /\ j - k + 1 \in 1 .. n
      BY <1>1, <2>2
    <3>2. j - k + 1 = n - 1 /\ new[j].i \in Nat \ {0}
      BY <1>3, <1>9, <3>1
    <3>3. QED
      BY <1>1, <3>2
  <2>3. QED
    BY <1>5, <2>1, <2>2
<1>10. StackGood(new, node', threadIDToNode', Depth)
  BY <1>7, <1>8, <1>9 DEF StackGood
<1>11. QED
  BY <1>2, <1>10 DEF StackOK, new

Ready ==
  /\ HeapTyped(node) /\ HeapTyped(node') /\ prog \in Programs /\ prog' = prog
  /\ StackOK /\ IsSeq /\ stack # <<>>

(* A call returns.                                                         *)
LEMMA Returns ==
  ASSUME Ready, Do(<<>>), Goes(Top) => Thread(Top.node) \in Owners /\ Stays(Top.node)
  PROVE  StackOK'
<1>1. <<>> \in Seq({}) /\ \A i \in 1 .. Len(<<>>) : FALSE
  OBVIOUS
<1>2. FramesGood(<<>>, Top, Len(stack), node', threadIDToNode', Depth)
  BY <1>1 DEF FramesGood
<1>3. QED
  BY <1>1, <1>2, StackStep DEF Ready

(* A walk over the children of an object goes on.                          *)
LEMMA WalkGoesOn ==
  ASSUME Ready, NEW x, Do(<<x>>), Walks(x), x.node = Top.node, WalkOK(x, node', threadIDToNode'),
         Thread(Top.node) \in Owners, Stays(Top.node)
  PROVE  StackOK'
<1>1. <<x>> \in Seq({x}) /\ Len(<<x>>) = 1 /\ <<x>>[1] = x
  OBVIOUS
<1>2. Goes(x) /\ x.op # "keeps"
  BY DEF Goes, Walks
<1>3. Depth[Thread(Top.node)] <= Depth[Thread(x.node)]
  <2>1. Depth[Thread(Top.node)] \in Nat
    BY DepthGrows DEF Ready
  <2>2. QED
    BY <2>1
<1>4. \A i \in 1 .. Len(<<x>>) : i = 1 /\ <<x>>[i] = x
  BY <1>1
<1>5. \A k \in 1 .. 1 - 1 : FALSE
  OBVIOUS
<1>6. FramesGood(<<x>>, Top, Len(stack), node', threadIDToNode', Depth)
  BY <1>2, <1>3, <1>4, <1>5 DEF FramesGood
<1>7. QED
  BY <1>1, <1>6, StackStep DEF Ready

(* A walk executes a child.                                                *)
LEMMA WalkCalls ==
  ASSUME Ready, NEW x, NEW c, Do(<<Excute(c), x>>), Walks(x), x.node = Top.node,
         WalkOK(x, node', threadIDToNode'), Thread(Top.node) \in Owners, Stays(Top.node),
         Thread(c) \in Owners, Depth[Thread(Top.node)] < Depth[Thread(c)]
  PROVE  StackOK'
<1>. DEFINE y == Excute(c)
<1>1. y.op = "excute" /\ y.node = c
  BY DEF Excute, Frame
<1>2. Goes(x) /\ x.op # "keeps" /\ Goes(y) /\ y.op # "keeps" /\ ~Walks(y)
  BY <1>1 DEF Goes, Walks
<1>3. Under(x, y, Depth)
  BY <1>1 DEF Under
<1>4. /\ Depth[Thread(Top.node)] <= Depth[Thread(x.node)] /\ Thread(x.node) \in Owners
      /\ Depth[Thread(Top.node)] <= Depth[Thread(y.node)] /\ Thread(y.node) \in Owners
  <2>1. Depth[Thread(Top.node)] \in Nat /\ Depth[Thread(c)] \in Nat
    BY DepthGrows DEF Ready
  <2>2. QED
    BY <1>1, <2>1
<1>. HIDE DEF y
<1>5. <<y, x>> \in Seq({x, y}) /\ Len(<<y, x>>) = 2 /\ <<y, x>>[1] = y /\ <<y, x>>[2] = x
  OBVIOUS
<1>6. \A i \in 1 .. Len(<<y, x>>) :
        \/ i = 1 /\ <<y, x>>[i] = y
        \/ i = 2 /\ <<y, x>>[i] = x /\ \A k \in 1 .. i - 1 : <<y, x>>[k] = y
  BY <1>5
<1>7. FramesGood(<<y, x>>, Top, Len(stack), node', threadIDToNode', Depth)
  BY <1>2, <1>3, <1>4, <1>6 DEF FramesGood
<1>8. Do(<<y, x>>)
  BY DEF y
<1>9. QED
  BY <1>5, <1>7, <1>8, StackStep DEF Ready

(* Outside a walk.                                                         *)
LEMMA NoWalk ==
  ASSUME Ready, ~Goes(Top), NEW F, NEW frames \in Seq(F), Do(frames),
         \A i \in 1 .. Len(frames) :
           /\ ~Walks(frames[i])
           /\ frames[i].op = "keeps" => i = Len(frames) + Len(stack) - 2 /\ frames[i].i \in Nat \ {0}
  PROVE  StackOK'
<1>1. FramesGood(frames, Top, Len(stack), node', threadIDToNode', Depth)
  BY DEF FramesGood
<1>2. QED
  BY <1>1, StackStep DEF Ready

-----------------------------------------------------------------------------
(* The call on top leaves the children of keep nodes alone.                *)
LEMMA OthersWait ==
  ASSUME StackOK, IsSeq, stack # <<>>, NEW F, NEW frames \in Seq(F), Do(frames),
         WaitGood(stack, keepChilds), Top.op # "keeps"
  PROVE  /\ WaitGood(stack', keepChilds)
         /\ Waiting(stack', keepChilds) \subseteq Waiting(stack, keepChilds)
<1>. DEFINE m == Len(frames)
            n == Len(stack)
            new == stack'
            ks == keepChilds
<1>1. /\ m \in Nat /\ n \in Nat /\ n > 0 /\ Top = stack[1]
      /\ Len(new) = m + n - 1
      /\ \A i \in m + 1 .. Len(new) : new[i] = stack[i - m + 1]
  BY Pushed DEF Do, IsSeq, Top
<1>2. ASSUME NEW j \in 1 .. n, stack[j].op = "keeps"
      PROVE  \E i \in 1 .. Len(new) : new[i] = stack[j]
  <2>1. j # 1
    BY <1>1, <1>2
  <2>2. j + m - 1 \in m + 1 .. Len(new) /\ (j + m - 1) - m + 1 = j
    BY <1>1, <2>1
  <2>3. new[j + m - 1] = stack[j]
    BY <1>1, <2>2
  <2>4. j + m - 1 \in 1 .. Len(new)
    BY <1>1, <2>2
  <2>. HIDE DEF new
  <2>5. QED
    BY <2>3, <2>4
<1>. HIDE DEF new
<1>3. Index(new, ks) \subseteq Index(stack, ks)
  BY <1>2 DEF Index
<1>4. WaitGood(new, ks) /\ Waiting(new, ks) \subseteq Waiting(stack, ks)
  BY <1>3 DEF WaitGood, Waiting
<1>5. QED
  BY <1>4 DEF new

(* No step but a slice adds to the children of keep nodes that wait; the   *)
(* loop over them takes one each time.                                     *)
LEMMA WaitsStep ==
  ASSUME StackOK, IsSeq, stack # <<>>, NEW F, NEW frames \in Seq(F), Do(frames),
         keepChilds' = keepChilds, WaitGood(stack, keepChilds),
         Top.op = "keeps" => \E i \in 1 .. Len(frames) : frames[i].op = "keeps" /\ frames[i].i = Top.i + 1
  PROVE  /\ WaitGood(stack, keepChilds)' /\ Waiting(stack, keepChilds)' \subseteq Waiting(stack, keepChilds)
         /\ Top.op = "keeps" /\ Top.i <= Len(keepChilds) =>
              /\ KeepChild \in Waiting(stack, keepChilds)
              /\ Waiting(stack, keepChilds)' \subseteq Waiting(stack, keepChilds) \ {KeepChild}
<1>. DEFINE m == Len(frames)
            n == Len(stack)
            new == stack'
            ks == keepChilds
<1>1. /\ m \in Nat /\ n \in Nat /\ n > 0 /\ Top = stack[1]
      /\ Len(new) = m + n - 1
      /\ \A i \in 1 .. m : new[i] = frames[i]
      /\ \A i \in m + 1 .. Len(new) : new[i] = stack[i - m + 1]
  BY Pushed DEF Do, IsSeq, Top
<1>2. \A j \in 1 .. n : stack[j].op = "keeps" => j = n - 1 /\ stack[j].i \in Nat \ {0}
  BY DEF StackOK, StackGood
<1>3. ks \in Seq(Names) /\ \A k, l \in Index(stack, ks) : ks[k] = ks[l] => k = l
  BY DEF WaitGood
<1>4. 1 \in 1 .. n
  BY <1>1
<1>5. Index(stack, ks) \subseteq 1 .. Len(ks) /\ Index(new, ks) \subseteq 1 .. Len(ks) /\ Len(ks) \in Nat
  BY <1>3 DEF Index
<1>6. CASE Top.op = "keeps"
  <2>1. PICK a \in 1 .. m : frames[a].op = "keeps" /\ frames[a].i = Top.i + 1
    BY <1>6
  <2>2. a \in 1 .. Len(new) /\ new[a] = frames[a]
    BY <1>1
  <2>3. n - 1 = 1 /\ Top.i \in Nat \ {0}
    BY <1>1, <1>2, <1>4, <1>6
  <2>4. \A k \in Index(new, ks) : Top.i + 1 <= k
    BY <2>1, <2>2 DEF Index
  <2>5. \A j \in 1 .. n : stack[j].op = "keeps" => stack[j].i = Top.i
    BY <1>1, <1>2, <2>3
  <2>6. \A k \in Index(new, ks) : Top.i <= k /\ k # Top.i
    BY <1>5, <2>3, <2>4
  <2>7. Index(new, ks) \subseteq Index(stack, ks)
    BY <1>5, <2>5, <2>6 DEF Index
  <2>8. ASSUME Top.i <= Len(ks) PROVE Top.i \in Index(stack, ks)
    BY <1>5, <2>3, <2>5, <2>8 DEF Index
  <2>9. \A k \in Index(new, ks) : Top.i <= Len(ks) => ks[k] # ks[Top.i]
    BY <1>3, <2>6, <2>7, <2>8
  <2>. HIDE DEF new
  <2>10. WaitGood(new, ks) /\ Waiting(new, ks) \subseteq Waiting(stack, ks)
    BY <1>3, <2>7 DEF WaitGood, Waiting
  <2>11. Top.i <= Len(ks) => KeepChild \in Waiting(stack, ks)
    BY <2>8 DEF Waiting, KeepChild
  <2>12. Top.i <= Len(ks) => KeepChild \notin Waiting(new, ks)
    BY <2>9 DEF Waiting, KeepChild
  <2>13. QED
    BY <2>10, <2>11, <2>12 DEF new
<1>7. CASE Top.op # "keeps"
  BY <1>7, OthersWait
<1>8. QED
  BY <1>6, <1>7

-----------------------------------------------------------------------------
LEMMA ShapeFacts ==
  ASSUME ShapeInv
  PROVE  /\ prog \in Programs /\ HeapTyped(node)
         /\ Levels \in Nat /\ Depth \in [Owners -> 0 .. Levels] /\ Depth \in [Owners -> Nat]
         /\ Depth[Main] = 0
         /\ Unborn \subseteq Threads
         /\ TreeOK(node, threadIDToNode, Unborn, Waiting(stack, keepChilds), Depth)
         /\ Present = In(node, threadIDToNode)
<1>1. TodoOK /\ TreeOK(node, threadIDToNode, Unborn, Waiting(stack, keepChilds), Depth)
  BY DEF ShapeInv
<1>2. prog \in Programs
  BY <1>1 DEF TodoOK
<1>3. HeapTyped(node)
  BY <1>1 DEF TreeOK
<1>4. Present = In(node, threadIDToNode)
  BY DEF Present, Current, In
<1>5. QED
  BY <1>1, <1>2, <1>3, <1>4, DepthGrows, UnbornAreThreads

LEMMA ChildFacts ==
  ASSUME ShapeInv, NEW n \in In(node, threadIDToNode), NEW c \in ToSet(node[n].childs)
  PROVE  /\ c \in In(node, threadIDToNode) /\ node[c].father = n
         /\ Thread(n) \in Owners /\ Thread(c) \in Owners
         /\ Depth[Thread(n)] < Depth[Thread(c)]
         /\ c # root /\ c \notin Waiting(stack, keepChilds)
<1>1. TreeOK(node, threadIDToNode, Unborn, Waiting(stack, keepChilds), Depth)
  BY DEF ShapeInv
<1>2. c \in In(node, threadIDToNode) /\ node[c].father = n
  BY <1>1 DEF TreeOK, Joined
<1>3. n \in DOMAIN node /\ c \in DOMAIN node
  BY <1>2 DEF In
<1>4. n \in Names /\ Thread(n) \in Owners /\ Thread(c) \in Owners
  BY <1>3, ShapeFacts, Fields
<1>5. Depth[Thread(n)] < Depth[Thread(c)]
  BY <1>1, <1>2, <1>3, <1>4, NullIsNoName DEF TreeOK, Deep
<1>6. c # root
  <2>1. SUFFICES ASSUME c = root PROVE FALSE
    OBVIOUS
  <2>2. Thread(c) = Main
    BY <2>1 DEF root, Thread
  <2>3. Depth[Thread(n)] \in Nat /\ Depth[Main] = 0
    BY <1>4, ShapeFacts
  <2>4. QED
    BY <1>5, <2>2, <2>3
<1>7. c \notin Waiting(stack, keepChilds)
  BY <1>1 DEF TreeOK, Apart
<1>8. QED
  BY <1>2, <1>4, <1>5, <1>6, <1>7

(* What a step that runs no slice has to keep.                             *)
Kept ==
  /\ ShapeInv /\ LoopInv /\ stack # <<>>
  /\ UNCHANGED <<prog, todo, keepChilds>>
  /\ TreeOK(node', threadIDToNode', Unborn, Waiting(stack, keepChilds), Depth)
  /\ root \in DOMAIN node'
  /\ Goes(Top) => Top.node \in In(node, threadIDToNode) /\ Stays(Top.node)
  /\ GlobalsOK'

LEMMA SliceStays ==
  ASSUME UNCHANGED <<prog, todo>>
  PROVE  Unborn' = Unborn /\ Depth' = Depth /\ (TodoOK => TodoOK')
<1>1. Depth' = Depth
  BY DepthStays
<1>2. \A t, i : Kids(t, i)' = Kids(t, i)
  BY DEF Kids
<1>3. Unborn' = Unborn
  BY <1>2 DEF Unborn
<1>4. TodoOK => TodoOK'
  BY <1>1, <1>2 DEF TodoOK
<1>5. QED
  BY <1>1, <1>3, <1>4

LEMMA KeptIsReady ==
  ASSUME Kept
  PROVE  Ready /\ (Goes(Top) => Thread(Top.node) \in Owners /\ Stays(Top.node))
<1>1. HeapTyped(node) /\ HeapTyped(node') /\ prog \in Programs
  BY ShapeFacts DEF Kept, TreeOK
<1>2. Ready
  BY <1>1 DEF Kept, Ready, ShapeInv, LoopInv, StackShape
<1>3. ASSUME Goes(Top) PROVE Thread(Top.node) \in Owners /\ Stays(Top.node)
  <2>1. Top.node \in DOMAIN node /\ Stays(Top.node)
    BY <1>3 DEF Kept, In
  <2>2. QED
    BY <1>1, <2>1, Fields
<1>4. QED
  BY <1>2, <1>3

LEMMA KeptIsKept ==
  ASSUME Kept, StackOK', NEW F, NEW frames \in Seq(F), Do(frames), Top.op # "keeps"
  PROVE  ShapeInv'
<1>1. WaitGood(stack, keepChilds)' /\ Waiting(stack, keepChilds)' \subseteq Waiting(stack, keepChilds)
  BY KeptIsReady, WaitsStep DEF Kept, ShapeInv, Ready
<1>2. Unborn' = Unborn /\ Depth' = Depth /\ TodoOK'
  BY SliceStays DEF Kept, ShapeInv
<1>3. TreeOK(node', threadIDToNode', Unborn, Waiting(stack, keepChilds)', Depth)
  BY <1>1, FewerTree DEF Kept
<1>4. RootThere'
  BY DEF Kept, RootThere
<1>5. TreeOK(node, threadIDToNode, Unborn, Waiting(stack, keepChilds), Depth)'
  BY <1>2, <1>3
<1>6. QED
  BY <1>1, <1>2, <1>4, <1>5 DEF Kept, ShapeInv

LEMMA PopStep ==
  ASSUME Kept, Do(<<>>), Top.op # "keeps"
  PROVE  ShapeInv'
<1>1. StackOK'
  BY KeptIsReady, Returns
<1>2. <<>> \in Seq({})
  OBVIOUS
<1>3. QED
  BY <1>1, <1>2, KeptIsKept

LEMMA WalkStep ==
  ASSUME Kept, Goes(Top), NEW x, Walks(x), x.node = Top.node, WalkOK(x, node', threadIDToNode'),
         \/ Do(<<x>>)
         \/ \E c : /\ Do(<<Excute(c), x>>)
                  /\ Thread(c) \in Owners /\ Depth[Thread(Top.node)] < Depth[Thread(c)]
  PROVE  ShapeInv'
<1>1. Thread(Top.node) \in Owners /\ Stays(Top.node) /\ Ready
  BY KeptIsReady
<1>2. Top.op # "keeps"
  BY DEF Goes, Walks
<1>3. CASE Do(<<x>>)
  <2>1. StackOK'
    BY <1>1, <1>3, WalkGoesOn
  <2>2. <<x>> \in Seq({x})
    OBVIOUS
  <2>3. QED
    BY <1>2, <1>3, <2>1, <2>2, KeptIsKept
<1>4. ASSUME NEW c, Do(<<Excute(c), x>>), Thread(c) \in Owners, Depth[Thread(Top.node)] < Depth[Thread(c)]
      PROVE  ShapeInv'
  <2>1. StackOK'
    BY <1>1, <1>4, WalkCalls
  <2>2. <<Excute(c), x>> \in Seq({Excute(c), x})
    OBVIOUS
  <2>3. QED
    BY <1>2, <1>4, <2>1, <2>2, KeptIsKept
<1>5. QED
  BY <1>3, <1>4

LEMMA OtherStep ==
  ASSUME Kept, ~Goes(Top), Top.op # "keeps", NEW F, NEW frames \in Seq(F), Do(frames),
         \A i \in 1 .. Len(frames) :
           /\ ~Walks(frames[i])
           /\ frames[i].op = "keeps" => i = Len(frames) + Len(stack) - 2 /\ frames[i].i \in Nat \ {0}
  PROVE  ShapeInv'
<1>1. StackOK'
  BY KeptIsReady, NoWalk
<1>2. QED
  BY <1>1, KeptIsKept

-----------------------------------------------------------------------------
(* What the steps make of the heap.                                        *)
LEMMA HeapSame ==
  ASSUME ShapeInv, SameShape(node, node'), threadIDToNode' = threadIDToNode
  PROVE  /\ TreeOK(node', threadIDToNode', Unborn, Waiting(stack, keepChilds), Depth)
         /\ In(node', threadIDToNode') = In(node, threadIDToNode)
         /\ DOMAIN node' = DOMAIN node
         /\ \A n : Stays(n)
         /\ \A n \in DOMAIN node : node'[n].childs = node[n].childs
<1>1. Shrunk(node, node') /\ \A n \in DOMAIN node : node'[n].childs = node[n].childs
  BY SameIsShrunk
<1>2. /\ TreeOK(node', threadIDToNode', Unborn, Waiting(stack, keepChilds), Depth)
      /\ In(node', threadIDToNode') = In(node, threadIDToNode)
  BY <1>1, ShrunkTree, ShapeFacts
<1>3. \A m \in DOMAIN node : Len(node[m].childs) \in Nat
  <2>1. \A m \in DOMAIN node : node[m].childs \in Seq(Names)
    BY ShapeFacts, Fields
  <2>2. QED
    BY <2>1
<1>4. ASSUME NEW n PROVE Stays(n)
  <2>1. \A m \in In(node, threadIDToNode) : Len(node'[m].childs) >= Len(node[m].childs)
    BY <1>1, <1>3 DEF In
  <2>2. QED
    BY <1>2, <2>1 DEF Stays, Higher
<1>5. DOMAIN node' = DOMAIN node
  BY <1>1 DEF Shrunk
<1>6. QED
  BY <1>1, <1>2, <1>4, <1>5

LEMMA UnchangedIsSame == HeapTyped(node) /\ node' = node => SameShape(node, node')
<1>. SUFFICES ASSUME HeapTyped(node), node' = node PROVE SameShape(node, node')
  OBVIOUS
<1>1. \A n \in DOMAIN node : Same(node[n], node[n])
  BY SameFields DEF HeapTyped
<1>2. QED
  BY <1>1 DEF SameShape

LEMMA HeapRenewed ==
  ASSUME ShapeInv, NEW c \in In(node, threadIDToNode), c # root,
         c \notin Waiting(stack, keepChilds), Renew(c)
  PROVE  /\ TreeOK(node', threadIDToNode', Unborn, Waiting(stack, keepChilds), Depth)
         /\ \A m \in In(node, threadIDToNode) \ {c} :
              m \in In(node', threadIDToNode') /\ Len(node'[m].childs) = Len(node[m].childs)
         /\ root \in DOMAIN node => root \in DOMAIN node'
         /\ \A n : Thread(n) \in Owners /\ Depth[Thread(n)] <= Depth[Thread(c)] => Stays(n)
         /\ Thread(Successor(c)) = Thread(c)
<1>1. PICK q \in BOOLEAN : node' = GetNewNode(node, c, q)
  BY DEF Renew
<1>2. threadIDToNode' = [threadIDToNode EXCEPT ![Thread(c)] = Successor(c)]
  BY DEF Renew
<1>3. /\ TreeOK(node', threadIDToNode', Unborn, Waiting(stack, keepChilds), Depth)
      /\ In(node', threadIDToNode') = (In(node, threadIDToNode) \ {c}) \cup {Successor(c)}
      /\ \A m \in DOMAIN node \ {c} : m \in DOMAIN node' /\ Len(node'[m].childs) = Len(node[m].childs)
      /\ Thread(Successor(c)) = Thread(c)
  <2>1. /\ Unborn \in SUBSET Threads /\ Depth \in [Owners -> Nat]
        /\ TreeOK(node, threadIDToNode, Unborn, Waiting(stack, keepChilds), Depth)
    BY ShapeFacts
  <2>2. c \in In(node, threadIDToNode) /\ c # root /\ c \notin Waiting(stack, keepChilds) /\ q \in BOOLEAN
    OBVIOUS
  <2>3. HasRenewed(node, threadIDToNode, GetNewNode(node, c, q), Renewed(threadIDToNode, c), Unborn,
                   Waiting(stack, keepChilds), Depth, c)
    BY ONLY <2>1, <2>2, RenewedTree
  <2>4. HasRenewed(node, threadIDToNode, node', threadIDToNode', Unborn,
                   Waiting(stack, keepChilds), Depth, c)
    BY <1>1, <1>2, <2>3 DEF Renewed
  <2>5. QED
    BY <2>4 DEF HasRenewed
<1>4. \A m \in In(node, threadIDToNode) \ {c} :
         m \in In(node', threadIDToNode') /\ Len(node'[m].childs) = Len(node[m].childs)
  BY <1>3 DEF In
<1>5. ASSUME NEW n, Thread(n) \in Owners, Depth[Thread(n)] <= Depth[Thread(c)] PROVE Stays(n)
  <2>1. c \in DOMAIN node
    BY DEF In
  <2>2. Thread(c) \in Owners
    BY <2>1, ShapeFacts, Fields
  <2>3. Depth[Thread(n)] \in Nat /\ Depth[Thread(c)] \in Nat
    BY <1>5, <2>2, ShapeFacts
  <2>4. ASSUME NEW m \in In(node, threadIDToNode), Depth[Thread(m)] < Depth[Thread(n)]
        PROVE  m \in In(node', threadIDToNode') /\ Len(node'[m].childs) >= Len(node[m].childs)
    <3>1. m # c
      BY <1>5, <2>3, <2>4
    <3>2. node[m].childs \in Seq(Names)
      BY ShapeFacts, Fields DEF In
    <3>3. Len(node[m].childs) \in Nat
      BY <3>2
    <3>4. QED
      BY <1>4, <3>1, <3>3
  <2>5. QED
    BY <2>4 DEF Stays, Higher
<1>6. QED
  BY <1>3, <1>4, <1>5

(* delete, after children have been taken from the objects that stay.      *)
LEMMA HeapDeleted ==
  ASSUME NEW U, NEW W, NEW D, TreeOK(node, threadIDToNode, U, W, D),
         NEW k, Shrunk(node, k), NEW h, SameShape(k, h), NEW gone \in SUBSET DOMAIN node,
         \A m \in In(node, threadIDToNode) \ gone : ToSet(k[m].childs) \cap gone = {},
         W \cap gone = {}, Delete(h, gone)
  PROVE  /\ TreeOK(node', threadIDToNode', U, W, D)
         /\ In(node', threadIDToNode') = In(node, threadIDToNode) \ gone
         /\ DOMAIN node' = DOMAIN node \ gone
         /\ \A m \in DOMAIN node \ gone : node'[m].childs = k[m].childs
         /\ process' \in {process, "killed"}
<1>. DEFINE M == threadIDToNode
<1>1. node' = Without2(h, gone) /\ M' = Unmapped(M, gone) /\ process' \in {process, "killed"}
  BY DEF Delete, Without2, Unmapped
<1>2. TreeOK(k, M, U, W, D) /\ In(k, M) = In(node, M)
  BY ShrunkTree
<1>3. Shrunk(k, h) /\ \A m \in DOMAIN k : h[m].childs = k[m].childs
  BY SameIsShrunk
<1>4. TreeOK(h, M, U, W, D) /\ In(h, M) = In(k, M)
  BY <1>2, <1>3, ShrunkTree
<1>5. DOMAIN h = DOMAIN node /\ DOMAIN k = DOMAIN node
  BY <1>3 DEF Shrunk
<1>6. \A m \in In(h, M) \ gone : ToSet(h[m].childs) \cap gone = {}
  BY <1>2, <1>3, <1>4, <1>5 DEF In
<1>7. gone \in SUBSET DOMAIN h
  BY <1>5
<1>8. TreeOK(Without2(h, gone), Unmapped(M, gone), U, W, D)
  BY ONLY <1>4, <1>6, <1>7, W \cap gone = {}, DeletedTree
<1>9. In(Without2(h, gone), Unmapped(M, gone)) = In(h, M) \ gone
  BY ONLY <1>4, <1>6, <1>7, W \cap gone = {}, DeletedTree
<1>10. DOMAIN node' = DOMAIN node \ gone /\ \A m \in DOMAIN node \ gone : node'[m].childs = k[m].childs
  BY <1>1, <1>3, <1>5 DEF Without2
<1>11. QED
  BY <1>1, <1>2, <1>4, <1>8, <1>9, <1>10

(* isCorrectAndExit of n, and what it deletes.                             *)
LEMMA HeapChecked ==
  ASSUME ShapeInv, NEW n \in In(node, threadIDToNode), NEW h, SameShape(CheckedHeap(n), h),
         Delete(h, CheckedGone(n))
  PROVE  /\ TreeOK(node', threadIDToNode', Unborn, Waiting(stack, keepChilds), Depth)
         /\ root \in DOMAIN node => root \in DOMAIN node'
         /\ n \in In(node', threadIDToNode')
         /\ \A m \in In(node, threadIDToNode) :
              Depth[Thread(m)] < Depth[Thread(n)] =>
                m \in In(node', threadIDToNode') /\ node'[m].childs = node[m].childs
         /\ Stays(n)
         /\ process' \in {process, "killed"}
<1>. DEFINE M == threadIDToNode
            W == Waiting(stack, keepChilds)
            gone == CheckedGone(n)
<1>1. /\ TreeOK(node, M, Unborn, W, Depth) /\ Levels \in Nat /\ Depth \in [Owners -> 0 .. Levels]
      /\ Depth \in [Owners -> Nat] /\ Depth[Main] = 0
      /\ Present = In(node, M) /\ n \in Present
  BY ShapeFacts
<1>. HIDE DEF W, gone
<1>2. /\ Shrunk(node, CheckedHeap(n))
      /\ gone \subseteq DOMAIN node /\ W \cap gone = {}
      /\ \A m \in Present \ gone : ToSet(CheckedHeap(n)[m].childs) \cap gone = {}
      /\ \A m \in gone : Depth[Thread(n)] < Depth[Thread(m)]
      /\ \A m \in Present : Depth[Thread(m)] < Depth[Thread(n)] => CheckedHeap(n)[m] = node[m]
  <2>1. LeavesAlone(n, W, Depth)
    BY ONLY <1>1, CheckedTree
  <2>2. QED
    BY <2>1 DEF gone, LeavesAlone
<1>3. /\ TreeOK(node', M', Unborn, W, Depth)
      /\ In(node', M') = In(node, M) \ gone
      /\ DOMAIN node' = DOMAIN node \ gone
      /\ \A m \in DOMAIN node \ gone : node'[m].childs = CheckedHeap(n)[m].childs
      /\ process' \in {process, "killed"}
  <2>1. Delete(h, gone)
    BY DEF gone
  <2>2. \A m \in In(node, M) \ gone : ToSet(CheckedHeap(n)[m].childs) \cap gone = {}
    BY <1>1, <1>2
  <2>3. QED
    BY <1>1, <1>2, <2>1, <2>2, HeapDeleted
<1>4. \A m \in In(node, M) : m \in DOMAIN node /\ Thread(m) \in Owners /\ Depth[Thread(m)] \in Nat
  <2>1. ASSUME NEW m \in In(node, M) PROVE m \in DOMAIN node /\ Thread(m) \in Owners
    <3>1. m \in DOMAIN node
      BY DEF In
    <3>2. QED
      BY <3>1, ShapeFacts, Fields
  <2>2. QED
    BY <1>1, <2>1
<1>5. \A m \in In(node, M) : Depth[Thread(m)] <= Depth[Thread(n)] => m \notin gone
  BY <1>2, <1>4
<1>6. n \in In(node', M')
  BY <1>3, <1>4, <1>5
<1>7. ASSUME root \in DOMAIN node PROVE root \in DOMAIN node'
  <2>1. Thread(root) = Main
    BY DEF root, Thread
  <2>2. Depth[Thread(n)] \in Nat
    BY <1>4
  <2>3. root \notin gone
    BY <1>1, <1>2, <2>1, <2>2
  <2>4. QED
    BY <1>3, <1>7, <2>3
<1>8. \A m \in In(node, M) :
        Depth[Thread(m)] < Depth[Thread(n)] => m \in In(node', M') /\ node'[m].childs = node[m].childs
  <2>1. ASSUME NEW m \in In(node, M), Depth[Thread(m)] < Depth[Thread(n)]
        PROVE  m \in In(node', M') /\ node'[m].childs = node[m].childs
    <3>1. m \notin gone
      BY <1>4, <1>5, <2>1
    <3>2. m \in DOMAIN node \ gone /\ m \in Present
      BY <1>1, <1>4, <3>1
    <3>3. QED
      BY <1>2, <1>3, <2>1, <3>1, <3>2
  <2>2. QED
    BY <2>1
<1>9. Stays(n)
  <2>1. ASSUME NEW m \in In(node, M) PROVE Len(node[m].childs) \in Nat
    <3>1. node[m].childs \in Seq(Names)
      BY <1>4, ShapeFacts, Fields
    <3>2. QED
      BY <3>1
  <2>2. QED
    BY <1>8, <2>1 DEF Stays, Higher
<1>10. QED
  BY <1>3, <1>6, <1>7, <1>8, <1>9 DEF W

-----------------------------------------------------------------------------
(* The steps that leave the shape of the heap alone.                       *)
LEMMA GlobalsKept ==
  ASSUME GlobalsOK, UNCHANGED <<prsnt, changedNode, prjNode, stateNum>>,
         process' \in {process, "killed", "exited"}
  PROVE  GlobalsOK'
BY DEF GlobalsOK

LEMMA TopWalks ==
  ASSUME ShapeInv, LoopInv, stack # <<>>, Walks(Top)
  PROVE  /\ WalkOK(Top, node, threadIDToNode) /\ Goes(Top) /\ Top.op # "keeps"
         /\ Top.node \in In(node, threadIDToNode) /\ Top.node \in DOMAIN node
         /\ node[Top.node].childs \in Seq(Names)
         /\ Depth[Thread(Top.node)] \in Nat /\ Thread(Top.node) \in Owners
<1>1. 1 \in 1 .. Len(stack) /\ Top = stack[1]
  BY DEF LoopInv, StackShape, IsSeq, Top
<1>2. WalkOK(Top, node, threadIDToNode)
  BY <1>1 DEF ShapeInv, StackOK, StackGood
<1>3. Goes(Top) /\ Top.op # "keeps"
  BY DEF Goes, Walks
<1>4. Top.node \in In(node, threadIDToNode) /\ Top.node \in DOMAIN node
  BY <1>2 DEF WalkOK, In
<1>5. node[Top.node].childs \in Seq(Names) /\ Thread(Top.node) \in Owners
  BY <1>4, ShapeFacts, Fields
<1>6. Depth[Thread(Top.node)] \in Nat
  BY <1>5, ShapeFacts
<1>7. QED
  BY <1>2, <1>3, <1>4, <1>5, <1>6

LEMMA KeptSame ==
  ASSUME ShapeInv, LoopInv, stack # <<>>, UNCHANGED <<prog, todo, keepChilds, threadIDToNode>>,
         SameShape(node, node'), Goes(Top) => Top.node \in In(node, threadIDToNode), GlobalsOK'
  PROVE  Kept
<1>1. /\ TreeOK(node', threadIDToNode', Unborn, Waiting(stack, keepChilds), Depth)
      /\ DOMAIN node' = DOMAIN node
      /\ \A n : Stays(n)
  BY HeapSame
<1>2. root \in DOMAIN node'
  BY <1>1 DEF ShapeInv, RootThere
<1>3. QED
  BY <1>1, <1>2 DEF Kept

Plain(x) == ~Walks(x) /\ x.op # "keeps"

LEMMA PlainFrames ==
  /\ \A n : Plain(Excute(n)) /\ Plain(UpdateNode(n))
  /\ \A op \in LoopOps \cup {"unchanged"} : \A n, i : Plain(Frame(op, n, i))
BY DEF Plain, Walks, Excute, UpdateNode, Frame, LoopOps

LEMMA PlainStep ==
  ASSUME Kept, ~Goes(Top), Top.op # "keeps", NEW F, \A x \in F : Plain(x), NEW frames \in Seq(F),
         Do(frames)
  PROVE  ShapeInv'
<1>1. \A i \in 1 .. Len(frames) : Plain(frames[i])
  <2>1. \A i \in 1 .. Len(frames) : frames[i] \in F
    OBVIOUS
  <2>2. QED
    BY <2>1
<1>2. QED
  BY <1>1, OtherStep DEF Plain

(* Steps of the loop, with no change to the heap.                          *)
LEMMA LoopKeepsShape ==
  ASSUME ShapeInv, LoopInv,
         Round \/ Reset \/ Sort \/ Sorted \/ Take \/ UpdateChanged \/ Unchanged \/ Taken
  PROVE  ShapeInv'
<1>1. GlobalsOK /\ HeapTyped(node)
  BY ShapeFacts DEF ShapeInv
<1>2. ASSUME NEW op \in LoopOps \cup {"unchanged"}, At(op),
             UNCHANGED <<prog, todo, node, threadIDToNode, keepChilds>>, GlobalsOK'
      PROVE  Kept /\ ~Goes(Top) /\ Top.op # "keeps"
  <2>1. stack # <<>> /\ Top.op = op
    BY <1>2 DEF At, Top
  <2>2. ~Goes(Top) /\ Top.op # "keeps"
    BY <2>1 DEF Goes, Walks, LoopOps
  <2>3. SameShape(node, node')
    BY <1>1, <1>2, UnchangedIsSame
  <2>4. QED
    BY <1>2, <2>1, <2>2, <2>3, KeptSame
<1>3. ASSUME Kept /\ ~Goes(Top) /\ Top.op # "keeps", NEW x, Plain(x), Do(<<x>>) PROVE ShapeInv'
  <2>1. <<x>> \in Seq({x})
    OBVIOUS
  <2>2. QED
    BY <1>3, <2>1, PlainStep
<1>4. ASSUME Kept /\ ~Goes(Top) /\ Top.op # "keeps", NEW x, NEW y, Plain(x), Plain(y), Do(<<x, y>>)
      PROVE  ShapeInv'
  <2>1. <<x, y>> \in Seq({x, y})
    OBVIOUS
  <2>2. QED
    BY <1>4, <2>1, PlainStep
<1>5. ASSUME Kept /\ ~Goes(Top) /\ Top.op # "keeps", NEW x, NEW y, NEW z, Plain(x), Plain(y), Plain(z),
             Do(<<x, y, z>>) \/ Do(<<x, y>> \o <<z>>)
      PROVE  ShapeInv'
  <2>1. <<x, y, z>> \in Seq({x, y, z}) /\ <<x, y>> \o <<z>> \in Seq({x, y, z})
    OBVIOUS
  <2>2. QED
    BY <1>5, <2>1, PlainStep
<1>6. CASE Round
  <2>1. At("round") /\ Do(<<Excute(root), Frame("reset", Null, 0)>>)
        /\ UNCHANGED <<prog, todo, node, threadIDToNode, keepChilds>>
    BY <1>6 DEF Round, globals
  <2>2. GlobalsOK'
    BY <1>1, <1>6, ProgramsAssumption DEF Round, globals, GlobalsOK
  <2>3. "round" \in LoopOps /\ Plain(Excute(root)) /\ Plain(Frame("reset", Null, 0))
    BY PlainFrames DEF LoopOps
  <2>4. QED
    BY <1>2, <1>4, <2>1, <2>2, <2>3
<1>7. CASE Reset
  <2>1. At("reset") /\ Do(<<Frame("sort", Null, 0)>>)
        /\ UNCHANGED <<prog, todo, node, threadIDToNode, keepChilds>>
    BY <1>7 DEF Reset
  <2>2. GlobalsOK'
    BY <1>1, <1>7 DEF Reset, GlobalsOK
  <2>3. "reset" \in LoopOps /\ Plain(Frame("sort", Null, 0))
    BY PlainFrames DEF LoopOps
  <2>4. QED
    BY <1>2, <1>3, <2>1, <2>2, <2>3
<1>8. CASE Sort
  <2>1. At("sort") /\ UNCHANGED <<prog, todo, node, threadIDToNode, keepChilds>>
        /\ (Do(<<Frame("take", Null, 0)>>) \/ Do(<<Excute(prjNode), Frame("sorted", Null, 0)>>))
    BY <1>8 DEF Sort, globals
  <2>2. GlobalsOK'
    BY <1>1, <1>8, GlobalsKept DEF Sort, globals
  <2>3. "sort" \in LoopOps /\ Plain(Excute(prjNode)) /\ Plain(Frame("sorted", Null, 0))
        /\ Plain(Frame("take", Null, 0))
    BY PlainFrames DEF LoopOps
  <2>4. QED
    BY <1>2, <1>3, <1>4, <2>1, <2>2, <2>3
<1>9. CASE Sorted
  <2>1. At("sorted") /\ Do(<<Frame("take", Null, 0)>>)
        /\ UNCHANGED <<prog, todo, node, threadIDToNode, keepChilds>>
    BY <1>9 DEF Sorted
  <2>2. GlobalsOK'
    BY <1>1, <1>9 DEF Sorted, GlobalsOK
  <2>3. "sorted" \in LoopOps /\ Plain(Frame("take", Null, 0))
    BY PlainFrames DEF LoopOps
  <2>4. QED
    BY <1>2, <1>3, <2>1, <2>2, <2>3
<1>10. CASE Take
  <2>. DEFINE n == threadIDToNode[Last(prsnt)]
              z == Frame("changed", n, Len(prsnt) - 1)
  <2>1. At("take") /\ Do(<<Excute(n), UpdateNode(n), z>>)
        /\ UNCHANGED <<prog, todo, node, threadIDToNode, keepChilds>>
    BY <1>10 DEF Take
  <2>2. prsnt' \in Seq(Threads)
    <3>1. prsnt \in Seq(Threads) /\ prsnt # <<>> /\ prsnt' = Front(prsnt)
      BY <1>1, <1>10 DEF Take, GlobalsOK
    <3>2. Len(prsnt) - 1 \in 0 .. Len(prsnt) /\ \A i \in 1 .. Len(prsnt) - 1 : prsnt[i] \in Threads
      BY <3>1
    <3>3. Front(prsnt) \in Seq(Threads)
      BY <3>1, <3>2 DEF Front
    <3>4. QED
      BY <3>1, <3>3
  <2>3. GlobalsOK'
    BY <1>1, <1>10, <2>2 DEF Take, GlobalsOK
  <2>4. "take" \in LoopOps /\ Plain(Excute(n)) /\ Plain(UpdateNode(n)) /\ Plain(z)
    BY PlainFrames DEF LoopOps
  <2>. HIDE DEF n, z
  <2>5. QED
    BY <1>2, <1>5, <2>1, <2>3, <2>4
<1>11. CASE UpdateChanged
  <2>. DEFINE x == UpdateNode(changedNode)
              y == Frame("unchanged", Null, 0)
              z == Frame("taken", Null, Top.i)
  <2>1. At("changed") /\ UNCHANGED <<prog, todo, node, threadIDToNode, keepChilds>>
    BY <1>11 DEF UpdateChanged, globals
  <2>2. GlobalsOK'
    BY <1>1, <1>11, GlobalsKept DEF UpdateChanged, globals
  <2>3. "changed" \in LoopOps /\ Plain(x) /\ Plain(y) /\ Plain(z)
    BY PlainFrames DEF LoopOps
  <2>4. Do(<<z>>) \/ Do(<<x, y>> \o <<z>>)
    <3>1. Do((IF changedNode = Null THEN <<>> ELSE <<x, y>>) \o <<z>>)
      BY <1>11 DEF UpdateChanged
    <3>. HIDE DEF x, y, z
    <3>2. <<>> \o <<z>> = <<z>>
      OBVIOUS
    <3>3. QED
      BY <3>1, <3>2
  <2>. HIDE DEF x, y, z
  <2>5. QED
    BY <1>2, <1>3, <1>5, <2>1, <2>2, <2>3, <2>4
<1>12. CASE Unchanged
  <2>1. At("unchanged") /\ Do(<<>>)
        /\ UNCHANGED <<prog, todo, node, threadIDToNode, keepChilds>>
    BY <1>12 DEF Unchanged, Pop
  <2>2. GlobalsOK'
    BY <1>1, <1>12 DEF Unchanged, GlobalsOK
  <2>3. QED
    BY <1>2, <2>1, <2>2, PopStep
<1>13. CASE Taken
  <2>1. At("taken") /\ UNCHANGED <<prog, todo, node, threadIDToNode, keepChilds>>
        /\ (Do(<<Frame("sort", Null, 0)>>) \/ Do(<<Frame("take", Null, 0)>>))
    BY <1>13 DEF Taken, globals
  <2>2. GlobalsOK'
    BY <1>1, <1>13, GlobalsKept DEF Taken, globals
  <2>3. "taken" \in LoopOps /\ Plain(Frame("sort", Null, 0)) /\ Plain(Frame("take", Null, 0))
    BY PlainFrames DEF LoopOps
  <2>4. QED
    BY <1>2, <1>3, <2>1, <2>2, <2>3
<1>14. QED
  BY <1>6, <1>7, <1>8, <1>9, <1>10, <1>11, <1>12, <1>13

-----------------------------------------------------------------------------
(* The walk.                                                               *)
LEMMA ExcuteTop ==
  ASSUME ShapeInv, At("excute"), Current(Top.node)
  PROVE  /\ stack # <<>> /\ Goes(Top) /\ Top.op # "keeps" /\ Top.op = "excute"
         /\ Top.node \in In(node, threadIDToNode)
<1>1. stack # <<>> /\ Top.op = "excute"
  BY DEF At, Top
<1>2. Top.node \in In(node, threadIDToNode)
  BY DEF Current, In
<1>3. QED
  BY <1>1, <1>2 DEF Goes

LEMMA ChildAt ==
  ASSUME ShapeInv, NEW n \in In(node, threadIDToNode), NEW i \in 1 .. Len(node[n].childs)
  PROVE  node[n].childs[i] \in ToSet(node[n].childs)
<1>1. node[n].childs \in Seq(Names)
  BY ShapeFacts, Fields DEF In
<1>2. i \in DOMAIN node[n].childs
  BY <1>1
<1>3. QED
  BY <1>2 DEF ToSet

LEMMA KeptRenewed ==
  ASSUME ShapeInv, LoopInv, stack # <<>>, UNCHANGED <<prog, todo, keepChilds>>, GlobalsOK',
         Walks(Top), NEW c \in ToSet(node[Top.node].childs), Renew(c)
  PROVE  /\ Kept /\ Top.node \in In(node', threadIDToNode')
         /\ Len(node'[Top.node].childs) = Len(node[Top.node].childs)
         /\ Thread(Successor(c)) \in Owners /\ Depth[Thread(Top.node)] < Depth[Thread(Successor(c))]
<1>. DEFINE n == Top.node
<1>1. n \in In(node, threadIDToNode) /\ Depth[Thread(n)] \in Nat /\ Thread(n) \in Owners
  BY TopWalks
<1>2. /\ c \in In(node, threadIDToNode) /\ Thread(c) \in Owners /\ Depth[Thread(n)] < Depth[Thread(c)]
      /\ c # root /\ c \notin Waiting(stack, keepChilds)
  BY <1>1, ChildFacts
<1>3. Depth[Thread(c)] \in Nat /\ n # c /\ Depth[Thread(n)] <= Depth[Thread(c)]
  <2>1. Depth[Thread(c)] \in Nat
    BY <1>2, ShapeFacts
  <2>2. QED
    BY <1>1, <1>2, <2>1
<1>. HIDE DEF n
<1>4. /\ TreeOK(node', threadIDToNode', Unborn, Waiting(stack, keepChilds), Depth)
      /\ \A m \in In(node, threadIDToNode) \ {c} :
           m \in In(node', threadIDToNode') /\ Len(node'[m].childs) = Len(node[m].childs)
      /\ root \in DOMAIN node => root \in DOMAIN node'
      /\ Thread(Successor(c)) = Thread(c)
  BY <1>2, HeapRenewed
<1>5. Stays(n)
  BY <1>1, <1>2, <1>3, HeapRenewed
<1>6. root \in DOMAIN node'
  BY <1>4 DEF ShapeInv, RootThere
<1>7. n \in In(node', threadIDToNode') /\ Len(node'[n].childs) = Len(node[n].childs)
  BY <1>1, <1>3, <1>4
<1>8. Kept
  BY <1>1, <1>4, <1>5, <1>6 DEF Kept, n
<1>9. QED
  BY <1>2, <1>4, <1>7, <1>8 DEF n

LEMMA KeptChecked ==
  ASSUME ShapeInv, LoopInv, stack # <<>>,
         UNCHANGED <<prog, todo, keepChilds, prsnt, changedNode, prjNode, stateNum>>,
         NEW n \in In(node, threadIDToNode), NEW h, SameShape(CheckedHeap(n), h),
         Delete(h, CheckedGone(n)),
         Goes(Top) => /\ Top.node \in In(node, threadIDToNode)
                      /\ n = Top.node \/ n \in ToSet(node[Top.node].childs)
  PROVE  /\ Kept
         /\ Goes(Top) => Top.node \in In(node', threadIDToNode')
         /\ Goes(Top) /\ n # Top.node => node'[Top.node].childs = node[Top.node].childs
<1>1. /\ TreeOK(node', threadIDToNode', Unborn, Waiting(stack, keepChilds), Depth)
      /\ root \in DOMAIN node => root \in DOMAIN node'
      /\ n \in In(node', threadIDToNode')
      /\ \A m \in In(node, threadIDToNode) :
           Depth[Thread(m)] < Depth[Thread(n)] =>
             m \in In(node', threadIDToNode') /\ node'[m].childs = node[m].childs
      /\ Stays(n)
      /\ process' \in {process, "killed"}
  BY HeapChecked
<1>2. GlobalsOK'
  BY <1>1, GlobalsKept DEF ShapeInv
<1>3. root \in DOMAIN node'
  BY <1>1 DEF ShapeInv, RootThere
<1>4. ASSUME Goes(Top)
      PROVE  /\ Stays(Top.node) /\ Top.node \in In(node', threadIDToNode')
             /\ n # Top.node => node'[Top.node].childs = node[Top.node].childs
  <2>1. CASE n = Top.node
    BY <1>1, <2>1
  <2>2. CASE n \in ToSet(node[Top.node].childs) /\ n # Top.node
    <3>1. Top.node \in In(node, threadIDToNode)
      BY <1>4
    <3>2. Depth[Thread(Top.node)] < Depth[Thread(n)] /\ Thread(n) \in Owners /\ Thread(Top.node) \in Owners
      BY <2>2, <3>1, ChildFacts
    <3>3. \A a, b, c \in Owners : Depth[a] < Depth[b] /\ Depth[b] < Depth[c] => Depth[a] < Depth[c]
      <4>1. Depth \in [Owners -> Nat]
        BY ShapeFacts
      <4>2. QED
        BY <4>1
    <3>4. \A m \in In(node, threadIDToNode) : Thread(m) \in Owners
      BY ShapeFacts, Fields DEF In
    <3>5. Stays(Top.node)
      BY <1>1, <3>2, <3>3, <3>4 DEF Stays, Higher
    <3>6. QED
      BY <1>1, <3>1, <3>2, <3>5
  <2>3. QED
    BY <1>4, <2>1, <2>2
<1>5. QED
  BY <1>1, <1>2, <1>3, <1>4 DEF Kept

LEMMA ExcuteKeepsShape ==
  ASSUME ShapeInv, LoopInv, ExcuteNothing \/ ExcuteEnded \/ ExcuteGroup
  PROVE  ShapeInv'
<1>1. At("excute") /\ Current(Top.node)
  BY DEF ExcuteNothing, ExcuteEnded, ExcuteGroup, GroupOnTop
<1>2. stack # <<>> /\ Goes(Top) /\ Top.op # "keeps" /\ Top.node \in In(node, threadIDToNode)
  BY <1>1, ExcuteTop
<1>3. GlobalsOK /\ HeapTyped(node)
  BY ShapeFacts DEF ShapeInv
<1>4. CASE ExcuteNothing
  <2>1. Do(<<>>) /\ UNCHANGED <<prog, todo, keepChilds, threadIDToNode>> /\ node' = node
    BY <1>4 DEF ExcuteNothing, Pop, globals
  <2>2. GlobalsOK'
    BY <1>3, <1>4, GlobalsKept DEF ExcuteNothing, globals
  <2>3. Kept
    BY <1>2, <1>3, <2>1, <2>2, UnchangedIsSame, KeptSame
  <2>4. QED
    BY <1>2, <2>1, <2>3, PopStep
<1>5. HeapTyped(CheckedHeap(Top.node))
  BY <1>2, ShapeFacts, CheckedTree DEF LeavesAlone, Shrunk
<1>6. CASE ExcuteEnded
  <2>1. UNCHANGED <<prog, todo, keepChilds, prsnt, changedNode, prjNode, stateNum>> /\ Do(<<>>)
    BY <1>6 DEF ExcuteEnded, Pop, globals
  <2>. DEFINE h == [CheckedHeap(Top.node) EXCEPT ![Top.node].newType = "leaf"]
  <2>2. Delete(h, CheckedGone(Top.node))
    BY <1>6 DEF ExcuteEnded
  <2>3. SameShape(CheckedHeap(Top.node), h)
    BY <1>5, SameHeaps DEF Types
  <2>. HIDE DEF h
  <2>4. Kept
    BY <1>2, <2>1, <2>2, <2>3, KeptChecked
  <2>5. QED
    BY <1>2, <2>1, <2>4, PopStep
<1>7. CASE ExcuteGroup
  <2>. DEFINE x == IF node[Top.node].type = "prj" THEN Frame("prj", Top.node, 0) ELSE Frame("childs", Top.node, 1)
  <2>1. UNCHANGED <<prog, todo, keepChilds, prsnt, changedNode, prjNode, stateNum>> /\ Do(<<x>>)
    BY <1>7 DEF ExcuteGroup, globals
  <2>2. Delete(CheckedHeap(Top.node), CheckedGone(Top.node))
    BY <1>7 DEF ExcuteGroup
  <2>3. SameShape(CheckedHeap(Top.node), CheckedHeap(Top.node))
    BY <1>5, SameFields DEF SameShape, HeapTyped
  <2>4. Kept /\ Top.node \in In(node', threadIDToNode')
    BY <1>2, <2>1, <2>2, <2>3, KeptChecked
  <2>5. x.op \in {"prj", "childs"} /\ x.node = Top.node /\ (x.op = "childs" => x.i = 1)
    BY DEF Frame
  <2>. HIDE DEF x
  <2>6. Walks(x) /\ WalkOK(x, node', threadIDToNode')
    BY <2>4, <2>5 DEF Walks, WalkOK
  <2>7. QED
    BY <1>2, <2>1, <2>4, <2>5, <2>6, WalkStep
<1>8. QED
  BY <1>4, <1>6, <1>7

(* A child that is to be executed lies below.                              *)
LEMMA ChildBelow ==
  ASSUME ShapeInv, LoopInv, stack # <<>>, Walks(Top), NEW i \in 1 .. Len(node[Top.node].childs)
  PROVE  LET c == node[Top.node].childs[i]
         IN /\ c \in ToSet(node[Top.node].childs) /\ c \in In(node, threadIDToNode)
            /\ Thread(c) \in Owners /\ Depth[Thread(Top.node)] < Depth[Thread(c)]
<1>1. Top.node \in In(node, threadIDToNode)
  BY TopWalks
<1>. DEFINE n == Top.node
            c == node[n].childs[i]
<1>2. c \in ToSet(node[n].childs)
  BY <1>1, ChildAt
<1>. HIDE DEF c
<1>3. c \in In(node, threadIDToNode) /\ Thread(c) \in Owners /\ Depth[Thread(n)] < Depth[Thread(c)]
  BY <1>1, <1>2, ChildFacts
<1>4. QED
  BY <1>2, <1>3 DEF c

LEMMA WalkKeepsShape ==
  ASSUME ShapeInv, LoopInv, Childs \/ Child \/ Prj \/ PrjRenewP \/ PrjPRuns \/ PrjRanQ
  PROVE  ShapeInv'
<1>. DEFINE n == Top.node
            s == node[n].childs
<1>1. stack # <<>> /\ Walks(Top)
  BY DEF Childs, Child, Prj, PrjRenewP, PrjPRuns, PrjRanQ, At, Walks, Top
<1>2. /\ n \in In(node, threadIDToNode) /\ WalkOK(Top, node, threadIDToNode) /\ Goes(Top)
      /\ Top.op # "keeps" /\ Len(s) \in Nat
  <2>1. s \in Seq(Names)
    BY <1>1, TopWalks
  <2>2. Len(s) \in Nat
    BY <2>1
  <2>3. QED
    BY <1>1, <2>2, TopWalks
<1>3. GlobalsOK /\ HeapTyped(node)
  BY ShapeFacts DEF ShapeInv
<1>4. /\ UNCHANGED <<prog, todo, keepChilds>> /\ UNCHANGED <<prsnt, changedNode, prjNode, stateNum>>
      /\ process' = process
  BY DEF Childs, Child, Prj, PrjRenewP, PrjPRuns, PrjRanQ, globals, Pop
<1>5. GlobalsOK'
  BY <1>3, <1>4, GlobalsKept
<1>6. ASSUME SameShape(node, node'), threadIDToNode' = threadIDToNode
      PROVE  Kept /\ n \in In(node', threadIDToNode') /\ node'[n].childs = s
  <2>1. Kept
    BY <1>1, <1>2, <1>4, <1>5, <1>6, KeptSame
  <2>2. n \in DOMAIN node
    BY <1>2 DEF In
  <2>3. QED
    BY <1>2, <1>6, <2>1, <2>2, HeapSame
<1>7. ASSUME node' = node, threadIDToNode' = threadIDToNode
      PROVE  Kept /\ n \in In(node', threadIDToNode') /\ node'[n].childs = s
  BY <1>3, <1>6, <1>7, UnchangedIsSame
<1>8. ASSUME NEW i \in 1 .. Len(s), Renew(s[i])
      PROVE  /\ Kept /\ n \in In(node', threadIDToNode') /\ Len(node'[n].childs) = Len(s)
             /\ Thread(Successor(s[i])) \in Owners /\ Depth[Thread(n)] < Depth[Thread(Successor(s[i]))]
  <2>1. s[i] \in ToSet(s)
    BY <1>2, ChildAt
  <2>2. QED
    BY <1>1, <1>4, <1>5, <1>8, <2>1, KeptRenewed
<1>9. ASSUME NEW i \in 1 .. Len(s)
      PROVE  Thread(s[i]) \in Owners /\ Depth[Thread(n)] < Depth[Thread(s[i])]
  BY <1>1, ChildBelow
<1>10. \A op, m, i : Frame(op, m, i).op = op /\ Frame(op, m, i).node = m /\ Frame(op, m, i).i = i
  BY DEF Frame
<1>11. CASE Childs
  <2>1. Top.op = "childs" /\ Top.i \in Nat \ {0}
    BY <1>2, <1>11 DEF Childs, At, Top, WalkOK
  <2>2. Kept /\ n \in In(node', threadIDToNode') /\ node'[n].childs = s
    BY <1>7, <1>11 DEF Childs
  <2>3. CASE Top.i > Len(s)
    <3>1. Do(<<>>)
      BY <1>11, <2>3 DEF Childs
    <3>2. QED
      BY <1>2, <2>2, <3>1, PopStep
  <2>4. CASE ~(Top.i > Len(s))
    <3>. DEFINE x == Frame("child", n, Top.i)
    <3>1. Do(<<Excute(s[Top.i]), x>>)
      BY <1>11, <2>4 DEF Childs
    <3>2. Top.i \in 1 .. Len(s)
      BY <1>2, <2>1, <2>4
    <3>3. x.op = "child" /\ x.node = n /\ x.i = Top.i
      BY <1>10
    <3>4. Walks(x) /\ WalkOK(x, node', threadIDToNode')
      BY <2>2, <3>2, <3>3 DEF Walks, WalkOK
    <3>. HIDE DEF x, s
    <3>5. QED
      BY <1>2, <1>9, <2>2, <3>1, <3>2, <3>3, <3>4, WalkStep
  <2>5. QED
    BY <2>3, <2>4
<1>12. CASE Child
  <2>1. Top.op = "child" /\ Top.i \in 1 .. Len(s)
    BY <1>2, <1>12 DEF Child, At, Top, WalkOK
  <2>2. ASSUME NEW i \in {Top.i, Top.i + 1}, Do(<<Frame("childs", n, i)>>), Kept,
               n \in In(node', threadIDToNode')
        PROVE  ShapeInv'
    <3>. DEFINE x == Frame("childs", n, i)
    <3>1. i \in Nat \ {0}
      BY <1>2, <2>1, <2>2
    <3>2. x.op = "childs" /\ x.node = n /\ x.i = i
      BY <1>10
    <3>3. Walks(x) /\ WalkOK(x, node', threadIDToNode')
      BY <2>2, <3>1, <3>2 DEF Walks, WalkOK
    <3>. HIDE DEF x
    <3>4. Do(<<x>>)
      BY <2>2 DEF x
    <3>5. QED
      BY <1>2, <2>2, <3>2, <3>3, <3>4, WalkStep
  <2>3. CASE Changed(s[Top.i])
    <3>1. Renew(s[Top.i]) /\ Do(<<Frame("childs", n, Top.i)>>)
      BY <1>12, <2>3 DEF Child
    <3>2. Kept /\ n \in In(node', threadIDToNode')
      BY <1>8, <2>1, <3>1
    <3>3. QED
      BY <2>2, <3>1, <3>2
  <2>4. CASE ~Changed(s[Top.i])
    <3>1. node' = node /\ threadIDToNode' = threadIDToNode /\ Do(<<Frame("childs", n, Top.i + 1)>>)
      BY <1>12, <2>4 DEF Child
    <3>2. Kept /\ n \in In(node', threadIDToNode')
      BY <1>7, <3>1
    <3>3. QED
      BY <2>2, <3>1, <3>2
  <2>5. QED
    BY <2>3, <2>4
<1>13. ASSUME NEW x, x = Frame("prjq", n, 0), Do(<<x>>), Kept, n \in In(node', threadIDToNode') PROVE ShapeInv'
  <2>1. x.op = "prjq" /\ x.node = n
    BY <1>10, <1>13
  <2>2. Walks(x) /\ WalkOK(x, node', threadIDToNode')
    BY <1>13, <2>1 DEF Walks, WalkOK
  <2>3. QED
    BY <1>2, <1>13, <2>1, <2>2, WalkStep
<1>14. ASSUME NEW op \in {"prjp", "prjran"}, NEW c, Do(<<Excute(c), Frame(op, n, 0)>>), Kept,
              n \in In(node', threadIDToNode'),
              Len(node'[n].childs) >= (IF op = "prjp" THEN 2 ELSE 1),
              Thread(c) \in Owners, Depth[Thread(n)] < Depth[Thread(c)]
       PROVE  ShapeInv'
  <2>. DEFINE x == Frame(op, n, 0)
  <2>1. x.op = op /\ x.node = n
    BY <1>10
  <2>2. Walks(x) /\ WalkOK(x, node', threadIDToNode')
    BY <1>14, <2>1 DEF Walks, WalkOK
  <2>. HIDE DEF x
  <2>3. Do(<<Excute(c), x>>)
    BY <1>14 DEF x
  <2>4. QED
    BY <1>2, <1>14, <2>1, <2>2, <2>3, WalkStep
<1>15. CASE Prj
  <2>1. CASE Len(s) <= 1
    <3>1. node' = [node EXCEPT ![n].extQ = TRUE] /\ threadIDToNode' = threadIDToNode
          /\ Do(<<Frame("prjq", n, 0)>>)
      BY <1>15, <2>1 DEF Prj
    <3>2. SameShape(node, node')
      BY <1>3, <3>1, SameHeaps
    <3>3. QED
      BY <1>6, <1>13, <3>1, <3>2
  <2>2. CASE ~(Len(s) <= 1)
    <3>1. node' = node /\ threadIDToNode' = threadIDToNode
          /\ Do(<<Excute(s[2]), Frame("prjp", n, 0)>>)
      BY <1>15, <2>2 DEF Prj
    <3>2. 2 \in 1 .. Len(s) /\ Len(s) >= 2
      BY <1>2, <2>2
    <3>3. Kept /\ n \in In(node', threadIDToNode') /\ node'[n].childs = s
      BY <1>7, <3>1
    <3>4. Len(node'[n].childs) >= 2
      BY <3>2, <3>3
    <3>. HIDE DEF s
    <3>5. QED
      BY <1>9, <1>14, <3>1, <3>2, <3>3, <3>4
  <2>3. QED
    BY <2>1, <2>2
<1>16. CASE PrjRenewP
  <2>1. Renew(s[2]) /\ Do(<<Excute(Successor(s[2])), Frame("prjp", n, 0)>>)
    BY <1>16 DEF PrjRenewP, CurrentP
  <2>2. Len(s) >= 2 /\ 2 \in 1 .. Len(s)
    <3>1. Top.op = "prjp"
      BY <1>16 DEF PrjRenewP, At, Top
    <3>2. Len(s) >= 2
      BY <1>2, <3>1 DEF WalkOK
    <3>3. QED
      BY <1>2, <3>2
  <2>3. /\ Kept /\ n \in In(node', threadIDToNode') /\ Len(node'[n].childs) = Len(s)
        /\ Thread(Successor(s[2])) \in Owners /\ Depth[Thread(n)] < Depth[Thread(Successor(s[2]))]
    BY <1>8, <2>1, <2>2
  <2>4. Len(node'[n].childs) >= 2
    BY <2>2, <2>3
  <2>. HIDE DEF s
  <2>5. QED
    BY <1>14, <2>1, <2>3, <2>4
<1>17. CASE PrjPRuns
  <2>1. node' = node /\ threadIDToNode' = threadIDToNode /\ Do(<<Frame("prjq", n, 0)>>)
    BY <1>17 DEF PrjPRuns
  <2>2. QED
    BY <1>7, <1>13, <2>1
<1>18. CASE PrjRanQ
  <2>1. CASE Changed(s[1])
    <3>1. Renew(s[1]) /\ Do(<<Excute(Successor(s[1])), Frame("prjran", n, 0)>>)
      BY <1>18, <2>1 DEF PrjRanQ
    <3>2. Len(s) >= 1 /\ 1 \in 1 .. Len(s)
      <4>1. Top.op = "prjran"
        BY <1>18 DEF PrjRanQ, At, Top
      <4>2. Len(s) >= 1
        BY <1>2, <4>1 DEF WalkOK
      <4>3. QED
        BY <1>2, <4>2
    <3>3. /\ Kept /\ n \in In(node', threadIDToNode') /\ Len(node'[n].childs) = Len(s)
          /\ Thread(Successor(s[1])) \in Owners /\ Depth[Thread(n)] < Depth[Thread(Successor(s[1]))]
      BY <1>8, <3>1, <3>2
    <3>4. Len(node'[n].childs) >= 1
      BY <3>2, <3>3
    <3>. HIDE DEF s
    <3>5. QED
      BY <1>14, <3>1, <3>3, <3>4
  <2>2. CASE ~Changed(s[1])
    <3>1. node' = [node EXCEPT ![n].extQ = FALSE] /\ threadIDToNode' = threadIDToNode /\ Do(<<>>)
      BY <1>18, <2>2 DEF PrjRanQ, Pop
    <3>2. SameShape(node, node')
      BY <1>3, <3>1, SameHeaps
    <3>3. Kept
      BY <1>6, <3>1, <3>2
    <3>4. QED
      BY <1>2, <3>1, <3>3, PopStep
  <2>3. QED
    BY <2>1, <2>2
<1>19. QED
  BY <1>11, <1>12, <1>15, <1>16, <1>17, <1>18

(* q of a prj.                                                             *)
LEMMA PrjQKeepsShape ==
  ASSUME ShapeInv, LoopInv, PrjQ
  PROVE  ShapeInv'
<1>. DEFINE n == Top.node
            q == node[n].childs[1]
<1>1. stack # <<>> /\ Walks(Top)
  BY DEF PrjQ, At, Walks, Top
<1>2. /\ n \in In(node, threadIDToNode) /\ n \in DOMAIN node /\ Goes(Top) /\ Top.op # "keeps"
      /\ node[n].childs \in Seq(Names) /\ Depth[Thread(n)] \in Nat
  BY <1>1, TopWalks
<1>3. 1 \in 1 .. Len(node[n].childs) /\ Len(node[n].childs) >= 1
  <2>1. node[n].childs # <<>>
    BY DEF PrjQ
  <2>2. QED
    BY <1>2, <2>1
<1>4. /\ q \in ToSet(node[n].childs) /\ q \in In(node, threadIDToNode)
      /\ Thread(q) \in Owners /\ Depth[Thread(n)] < Depth[Thread(q)]
  BY <1>1, <1>3, ChildBelow
<1>5. q # n
  BY <1>2, <1>4
<1>6. GlobalsOK /\ HeapTyped(node) /\ node[n].extQ \in BOOLEAN
  BY <1>2, ShapeFacts, Fields DEF ShapeInv
<1>7. UNCHANGED <<prog, todo, keepChilds>> /\ UNCHANGED <<prsnt, changedNode, prjNode, stateNum>>
  BY DEF PrjQ, globals
<1>8. CASE node[n].extQ
  <2>. DEFINE h == [CheckedHeap(q) EXCEPT ![n].hasExtQ = node[n].extQ]
  <2>1. Delete(h, CheckedGone(q))
    BY <1>8 DEF PrjQ
  <2>2. HeapTyped(CheckedHeap(q))
    BY <1>4, ShapeFacts, CheckedTree DEF LeavesAlone, Shrunk
  <2>3. SameShape(CheckedHeap(q), h)
    BY <1>6, <2>2, SameHeaps
  <2>. HIDE DEF h
  <2>4. /\ Kept /\ n \in In(node', threadIDToNode') /\ node'[n].childs = node[n].childs
    BY <1>1, <1>2, <1>4, <1>5, <1>7, <2>1, <2>3, KeptChecked
  <2>5. CASE ~Checked[q].exit
    <3>. DEFINE x == Frame("prjran", n, 0)
    <3>1. Do(<<Excute(q), x>>)
      BY <1>8, <2>5 DEF PrjQ
    <3>2. x.op = "prjran" /\ x.node = n
      BY DEF Frame
    <3>3. Walks(x) /\ WalkOK(x, node', threadIDToNode')
      BY <1>3, <2>4, <3>2 DEF Walks, WalkOK
    <3>. HIDE DEF x, q
    <3>4. QED
      BY <1>2, <1>4, <2>4, <3>1, <3>2, <3>3, WalkStep
  <2>6. CASE Checked[q].exit
    <3>1. Do(<<>>)
      BY <1>8, <2>6 DEF PrjQ
    <3>2. QED
      BY <1>2, <2>4, <3>1, PopStep
  <2>7. QED
    BY <2>5, <2>6
<1>9. CASE ~node[n].extQ
  <2>. DEFINE h == [node EXCEPT ![n].hasExtQ = node[n].extQ]
              W == Waiting(stack, keepChilds)
  <2>1. Delete(h, {}) /\ Do(<<>>)
    BY <1>9 DEF PrjQ
  <2>2. SameShape(node, h)
    BY <1>6, SameHeaps
  <2>3. Shrunk(node, node)
    BY <1>6, UnchangedIsSame, SameIsShrunk DEF Shrunk
  <2>. HIDE DEF h
  <2>4. /\ TreeOK(node', threadIDToNode', Unborn, W, Depth)
        /\ In(node', threadIDToNode') = In(node, threadIDToNode) \ {}
        /\ DOMAIN node' = DOMAIN node \ {}
        /\ \A m \in DOMAIN node \ {} : node'[m].childs = node[m].childs
        /\ process' \in {process, "killed"}
    <3>. DEFINE gone == {}
    <3>1. TreeOK(node, threadIDToNode, Unborn, W, Depth)
      BY ShapeFacts
    <3>2. /\ gone \in SUBSET DOMAIN node /\ W \cap gone = {} /\ Delete(h, gone)
          /\ \A m \in In(node, threadIDToNode) \ gone : ToSet(node[m].childs) \cap gone = {}
      BY <2>1
    <3>. HIDE DEF W, gone
    <3>3. /\ TreeOK(node', threadIDToNode', Unborn, W, Depth)
          /\ In(node', threadIDToNode') = In(node, threadIDToNode) \ gone
          /\ DOMAIN node' = DOMAIN node \ gone
          /\ \A m \in DOMAIN node \ gone : node'[m].childs = node[m].childs
          /\ process' \in {process, "killed"}
      BY ONLY <2>2, <2>3, <3>1, <3>2, HeapDeleted
    <3>4. QED
      BY <3>3 DEF gone
  <2>5. GlobalsOK'
    BY <1>6, <1>7, <2>4, GlobalsKept
  <2>6. Stays(n)
    <3>1. ASSUME NEW m \in In(node, threadIDToNode) PROVE Len(node'[m].childs) >= Len(node[m].childs)
      <4>1. m \in DOMAIN node
        BY DEF In
      <4>2. node[m].childs \in Seq(Names) /\ node'[m].childs = node[m].childs
        BY <1>6, <2>4, <4>1, Fields
      <4>3. Len(node[m].childs) \in Nat
        BY <4>2
      <4>4. QED
        BY <4>2, <4>3
    <3>2. QED
      BY <2>4, <3>1 DEF Stays, Higher
  <2>7. root \in DOMAIN node'
    BY <1>1, <2>4 DEF ShapeInv, RootThere
  <2>8. Kept
    BY <1>1, <1>2, <1>7, <2>4, <2>5, <2>6, <2>7 DEF Kept
  <2>9. QED
    BY <1>2, <2>1, <2>8, PopStep
<1>10. QED
  BY <1>8, <1>9

(* The end of a p.                                                         *)
LEMMA SecondRemoved ==
  ASSUME NEW S, NEW s \in Seq(S), Len(s) >= 2
  PROVE  LET left == RemoveAt(s, 2)
         IN /\ left \in Seq(S) /\ Len(left) = Len(s) - 1
            /\ Len(left) >= 2 => left[2] = s[3]
            /\ \A i \in 1 .. Len(left) : left[i] = s[IF i = 1 THEN 1 ELSE i + 1]
            /\ ToSet(left) \subseteq ToSet(s)
            /\ IsInjective(s) => IsInjective(left) /\ s[2] \notin ToSet(left)
<1>. DEFINE a == SubSeq(s, 1, 1)
            b == SubSeq(s, 3, Len(s))
            left == RemoveAt(s, 2)
<1>1. left = a \o b
  BY DEF RemoveAt
<1>2. a \in Seq(S) /\ Len(a) = 1 /\ a[1] = s[1]
  OBVIOUS
<1>4. Len(s) \in Nat /\ Len(s) >= 2
  OBVIOUS
<1>3. b \in Seq(S) /\ Len(b) = Len(s) - 2 /\ \A i \in 1 .. Len(b) : b[i] = s[i + 2]
  <2>1. \A i \in 3 .. Len(s) : s[i] \in S
    OBVIOUS
  <2>2. /\ b \in Seq(S) /\ Len(b) = IF 3 <= Len(s) THEN Len(s) - 3 + 1 ELSE 0
        /\ \A i \in 1 .. Len(s) - 3 + 1 : b[i] = s[3 + i - 1]
    BY ONLY <1>4, <2>1, SubSeqProperties
  <2>. HIDE DEF b
  <2>a. \A k \in Nat : k >= 2 => (IF 3 <= k THEN k - 3 + 1 ELSE 0) = k - 2
    OBVIOUS
  <2>b. (IF 3 <= Len(s) THEN Len(s) - 3 + 1 ELSE 0) = Len(s) - 2
    BY ONLY <1>4, <2>a
  <2>3. Len(b) = Len(s) - 2
    BY ONLY <2>2, <2>b
  <2>4. \A i \in 1 .. Len(b) : i \in 1 .. Len(s) - 3 + 1 /\ 3 + i - 1 = i + 2
    BY <1>4, <2>3
  <2>5. QED
    BY <2>2, <2>3, <2>4
<1>. DEFINE Old(i) == IF i = 1 THEN 1 ELSE i + 1
<1>. HIDE DEF a, b, left
<1>0. /\ a \o b \in Seq(S) /\ Len(a \o b) = Len(a) + Len(b)
      /\ \A i \in 1 .. Len(a) + Len(b) : (a \o b)[i] = IF i <= Len(a) THEN a[i] ELSE b[i - Len(a)]
  BY ONLY <1>2, <1>3, ConcatProperties
<1>5. left \in Seq(S) /\ Len(left) = Len(s) - 1
  BY <1>0, <1>1, <1>2, <1>3, <1>4
<1>6. \A i \in 1 .. Len(left) : Old(i) \in 1 .. Len(s) /\ Old(i) # 2 /\ left[i] = s[Old(i)]
  <2>1. ASSUME NEW i \in 1 .. Len(left) PROVE left[i] = s[Old(i)]
    <3>1. CASE i = 1
      <4>1. 1 \in 1 .. Len(a) + Len(b) /\ 1 <= Len(a)
        BY <1>2, <1>3, <1>4
      <4>2. QED
        BY <1>0, <1>1, <1>2, <3>1, <4>1
    <3>2. CASE i # 1
      <4>1. /\ i - 1 \in 1 .. Len(b) /\ i \in 1 .. Len(a) + Len(b) /\ (i - 1) + 2 = i + 1
            /\ ~(i <= Len(a)) /\ i - Len(a) = i - 1
        BY <1>2, <1>3, <1>4, <1>5, <3>2
      <4>2. (a \o b)[i] = b[i - 1]
        BY <1>0, <4>1
      <4>3. b[i - 1] = s[i + 1]
        BY <1>3, <4>1
      <4>4. QED
        BY <1>1, <3>2, <4>2, <4>3
    <3>3. QED
      BY <3>1, <3>2
  <2>2. QED
    BY <1>4, <1>5, <2>1
<1>7. \A i, j \in 1 .. Len(left) : Old(i) = Old(j) => i = j
  BY <1>4, <1>5
<1>8. Len(left) >= 2 => left[2] = s[3]
  BY <1>4, <1>5, <1>6
<1>12. \A i \in 1 .. Len(left) : left[i] = s[IF i = 1 THEN 1 ELSE i + 1]
  BY <1>6
<1>. HIDE DEF Old
<1>9. DOMAIN left = 1 .. Len(left) /\ DOMAIN s = 1 .. Len(s) /\ 2 \in DOMAIN s
  BY <1>4, <1>5
<1>10. ToSet(left) \subseteq ToSet(s)
  BY <1>6, <1>9 DEF ToSet
<1>11. ASSUME IsInjective(s) PROVE IsInjective(left) /\ s[2] \notin ToSet(left)
  <2>1. \A i, j \in 1 .. Len(s) : s[i] = s[j] => i = j
    BY <1>9, <1>11 DEF IsInjective
  <2>2. IsInjective(left)
    BY <1>6, <1>7, <1>9, <2>1 DEF IsInjective
  <2>3. s[2] \notin ToSet(left)
    BY <1>6, <1>9, <2>1 DEF ToSet
  <2>4. QED
    BY <2>2, <2>3
<1>13. QED
  BY <1>5, <1>8, <1>10, <1>11, <1>12 DEF left

(* delete of c, which is nobody's child any more.                          *)
LEMMA HeapBelow ==
  ASSUME ShapeInv, NEW c \in In(node, threadIDToNode), c # root,
         NEW W \in SUBSET Waiting(stack, keepChilds), c \notin W,
         NEW k, Shrunk(node, k), \A m \in In(node, threadIDToNode) : c \notin ToSet(k[m].childs),
         Delete(k, Below[c])
  PROVE  /\ TreeOK(node', threadIDToNode', Unborn, W, Depth)
         /\ root \in DOMAIN node => root \in DOMAIN node'
         /\ \A m \in In(node, threadIDToNode) :
              Depth[Thread(m)] < Depth[Thread(c)] =>
                m \in In(node', threadIDToNode') /\ node'[m].childs = k[m].childs
         /\ process' \in {process, "killed"}
<1>. DEFINE M == threadIDToNode
            gone == Below[c]
<1>1. /\ TreeOK(node, M, Unborn, Waiting(stack, keepChilds), Depth)
      /\ Levels \in Nat /\ Depth \in [Owners -> 0 .. Levels]
      /\ Depth \in [Owners -> Nat] /\ Depth[Main] = 0
      /\ Present = In(node, M) /\ c \in Present
  BY ShapeFacts
<1>2. TreeOK(node, M, Unborn, W, Depth)
  BY <1>1, FewerTree
<1>3. BelowGood(c, W, Depth)
  BY ONLY <1>1, <1>2, BelowTree
<1>4. /\ c \in gone /\ gone \subseteq In(node, M) /\ W \cap gone \subseteq {c}
      /\ \A m \in gone : m = c \/ Depth[Thread(c)] < Depth[Thread(m)]
      /\ \A m \in In(node, M) \ gone : ToSet(node[m].childs) \cap gone \subseteq {c}
  BY <1>1, <1>3 DEF BelowGood
<1>. HIDE DEF gone
<1>5. gone \in SUBSET DOMAIN node /\ W \cap gone = {}
  BY <1>4 DEF In
<1>6. \A m \in In(node, M) \ gone : ToSet(k[m].childs) \cap gone = {}
  <2>1. ASSUME NEW m \in In(node, M) \ gone, NEW x \in ToSet(k[m].childs), x \in gone PROVE FALSE
    <3>1. m \in DOMAIN node
      BY DEF In
    <3>2. x \in ToSet(node[m].childs)
      BY <3>1 DEF Shrunk
    <3>3. x = c
      BY <1>4, <2>1, <3>2
    <3>4. QED
      BY <2>1, <3>3
  <2>2. QED
    BY <2>1
<1>7. SameShape(k, k)
  BY SameFields DEF SameShape, Shrunk, HeapTyped
<1>8. Delete(k, gone)
  BY DEF gone
<1>9. /\ TreeOK(node', M', Unborn, W, Depth)
      /\ In(node', M') = In(node, M) \ gone
      /\ DOMAIN node' = DOMAIN node \ gone
      /\ \A m \in DOMAIN node \ gone : node'[m].childs = k[m].childs
      /\ process' \in {process, "killed"}
  BY <1>2, <1>5, <1>6, <1>7, <1>8, HeapDeleted
<1>10. \A m \in In(node, M) : m \in DOMAIN node /\ Thread(m) \in Owners /\ Depth[Thread(m)] \in Nat
  <2>1. ASSUME NEW m \in In(node, M) PROVE m \in DOMAIN node /\ Thread(m) \in Owners
    <3>1. m \in DOMAIN node
      BY DEF In
    <3>2. QED
      BY <3>1, ShapeFacts, Fields
  <2>2. QED
    BY <1>1, <2>1
<1>11. ASSUME root \in DOMAIN node PROVE root \in DOMAIN node'
  <2>1. Thread(root) = Main /\ Depth[Thread(c)] \in Nat
    BY <1>10 DEF root, Thread
  <2>2. root \notin gone
    BY <1>1, <1>4, <2>1
  <2>3. QED
    BY <1>9, <1>11, <2>2
<1>12. ASSUME NEW m \in In(node, M), Depth[Thread(m)] < Depth[Thread(c)]
       PROVE  m \in In(node', M') /\ node'[m].childs = k[m].childs
  <2>1. Depth[Thread(m)] \in Nat /\ Depth[Thread(c)] \in Nat /\ m \in DOMAIN node
    BY <1>10
  <2>2. m \notin gone
    BY <1>4, <1>12, <2>1
  <2>3. QED
    BY <1>9, <2>1, <2>2
<1>13. QED
  BY <1>9, <1>11, <1>12

LEMMA PrjNextPKeepsShape ==
  ASSUME ShapeInv, LoopInv, PrjNextP
  PROVE  ShapeInv'
<1>. DEFINE n == Top.node
            s == node[n].childs
            c == s[2]
            left == RemoveAt(s, 2)
            k == [node EXCEPT ![n].extQ = TRUE, ![n].childs = left]
<1>1. stack # <<>> /\ Walks(Top) /\ Top.op = "prjp"
  BY DEF PrjNextP, At, Walks, Top
<1>2. /\ n \in In(node, threadIDToNode) /\ n \in DOMAIN node /\ Goes(Top) /\ Top.op # "keeps"
      /\ s \in Seq(Names) /\ WalkOK(Top, node, threadIDToNode) /\ Thread(n) \in Owners
      /\ Depth[Thread(n)] \in Nat
  BY <1>1, TopWalks
<1>3. Len(s) >= 2 /\ Len(s) \in Nat /\ 2 \in 1 .. Len(s)
  <2>1. Len(s) >= 2
    BY <1>1, <1>2 DEF WalkOK
  <2>2. Len(s) \in Nat
    BY <1>2
  <2>3. QED
    BY <2>1, <2>2
<1>4. c \in ToSet(s)
  BY <1>2, <1>3, ChildAt
<1>5. /\ c \in In(node, threadIDToNode) /\ node[c].father = n
      /\ Thread(c) \in Owners /\ Depth[Thread(n)] < Depth[Thread(c)]
      /\ c # root /\ c \notin Waiting(stack, keepChilds)
  BY <1>2, <1>4, ChildFacts
<1>6. IsInjective(s)
  BY <1>2, ShapeFacts DEF TreeOK, Joined
<1>7. /\ left \in Seq(Names) /\ Len(left) = Len(s) - 1 /\ (Len(left) >= 2 => left[2] = s[3])
      /\ ToSet(left) \subseteq ToSet(s) /\ IsInjective(left) /\ c \notin ToSet(left)
  BY <1>2, <1>3, <1>6, SecondRemoved
<1>. HIDE DEF left, c
<1>8. /\ DOMAIN k = DOMAIN node /\ k[n] = [node[n] EXCEPT !.extQ = TRUE, !.childs = left]
      /\ \A m \in DOMAIN node \ {n} : k[m] = node[m]
  BY <1>2
<1>. HIDE DEF k
<1>9. HeapTyped(node)
  BY ShapeFacts
<1>10. /\ k[n] \in Objects /\ k[n].father = node[n].father /\ k[n].type = node[n].type
       /\ k[n].childs = left
  <2>1. node[n] \in Objects
    BY <1>2, <1>9 DEF HeapTyped
  <2>2. QED
    BY <1>7, <1>8, <2>1 DEF Objects
<1>11. Shrunk(node, k)
  <2>1. HeapTyped(k)
    BY <1>8, <1>9, <1>10 DEF HeapTyped
  <2>2. ASSUME NEW m \in DOMAIN node
        PROVE  /\ k[m].father = node[m].father /\ k[m].type = node[m].type
               /\ ToSet(k[m].childs) \subseteq ToSet(node[m].childs)
               /\ IsInjective(node[m].childs) => IsInjective(k[m].childs)
    BY <1>7, <1>8, <1>10
  <2>3. QED
    BY <1>8, <2>1, <2>2 DEF Shrunk
<1>12. ASSUME NEW m \in In(node, threadIDToNode) PROVE c \notin ToSet(k[m].childs)
  <2>1. CASE m = n
    BY <1>7, <1>10, <2>1
  <2>2. CASE m # n
    <3>1. k[m] = node[m]
      BY <1>8, <2>2 DEF In
    <3>2. \A d \in ToSet(node[m].childs) : node[d].father = m
      BY ShapeFacts DEF TreeOK, Joined
    <3>3. QED
      BY <1>5, <2>2, <3>1, <3>2
  <2>3. QED
    BY <2>1, <2>2
<1>13. Delete(k, Below[c])
  BY DEF PrjNextP, CurrentP, k, left, c
<1>14. /\ TreeOK(node', threadIDToNode', Unborn, Waiting(stack, keepChilds), Depth)
       /\ root \in DOMAIN node => root \in DOMAIN node'
       /\ \A m \in In(node, threadIDToNode) :
            Depth[Thread(m)] < Depth[Thread(c)] =>
              m \in In(node', threadIDToNode') /\ node'[m].childs = k[m].childs
       /\ process' \in {process, "killed"}
  BY <1>5, <1>11, <1>12, <1>13, HeapBelow
<1>15. n \in In(node', threadIDToNode') /\ node'[n].childs = left
  BY <1>2, <1>5, <1>10, <1>14
<1>16. Stays(n)
  <2>1. ASSUME NEW m \in In(node, threadIDToNode), Depth[Thread(m)] < Depth[Thread(n)]
        PROVE  m \in In(node', threadIDToNode') /\ Len(node'[m].childs) >= Len(node[m].childs)
    <3>1. m \in DOMAIN node /\ Thread(m) \in Owners /\ node[m].childs \in Seq(Names)
      <4>1. m \in DOMAIN node
        BY DEF In
      <4>2. QED
        BY <1>9, <4>1, Fields
    <3>2. Depth[Thread(m)] \in Nat /\ Depth[Thread(c)] \in Nat /\ Len(node[m].childs) \in Nat
      BY <1>5, <3>1, ShapeFacts
    <3>3. m # n /\ Depth[Thread(m)] < Depth[Thread(c)]
      BY <1>2, <1>5, <2>1, <3>2
    <3>4. node'[m].childs = node[m].childs /\ m \in In(node', threadIDToNode')
      BY <1>8, <1>14, <3>1, <3>3
    <3>5. QED
      BY <3>2, <3>4
  <2>2. QED
    BY <2>1 DEF Stays, Higher
<1>17. UNCHANGED <<prog, todo, keepChilds>> /\ UNCHANGED <<prsnt, changedNode, prjNode, stateNum>>
  BY DEF PrjNextP, globals
<1>18. GlobalsOK' /\ root \in DOMAIN node'
  BY <1>1, <1>14, <1>17, GlobalsKept DEF ShapeInv, RootThere
<1>19. Kept
  BY <1>1, <1>2, <1>14, <1>16, <1>17, <1>18 DEF Kept
<1>20. CASE Len(left) = 1
  <2>. DEFINE x == Frame("prjq", n, 0)
  <2>1. Do(<<x>>)
    BY <1>20 DEF PrjNextP, left
  <2>2. x.op = "prjq" /\ x.node = n
    BY DEF Frame
  <2>3. Walks(x) /\ WalkOK(x, node', threadIDToNode')
    BY <1>15, <2>2 DEF Walks, WalkOK
  <2>. HIDE DEF x
  <2>4. QED
    BY <1>2, <1>19, <2>1, <2>2, <2>3, WalkStep
<1>21. CASE Len(left) # 1
  <2>. DEFINE x == Frame("prjp", n, 0)
  <2>1. Do(<<Excute(left[2]), x>>)
    BY <1>21 DEF PrjNextP, left
  <2>2. Len(left) >= 2 /\ left[2] = s[3] /\ 3 \in 1 .. Len(s)
    <3>1. \A a \in Nat : a >= 2 /\ a - 1 # 1 => a - 1 >= 2 /\ 3 \in 1 .. a
      OBVIOUS
    <3>. HIDE DEF s
    <3>2. Len(s) - 1 >= 2 /\ 3 \in 1 .. Len(s)
      BY ONLY <1>3, <1>7, <1>21, <3>1
    <3>3. QED
      BY <1>7, <3>2
  <2>3. Thread(left[2]) \in Owners /\ Depth[Thread(n)] < Depth[Thread(left[2])]
    BY <1>1, <2>2, ChildBelow
  <2>4. x.op = "prjp" /\ x.node = n
    BY DEF Frame
  <2>5. Walks(x) /\ WalkOK(x, node', threadIDToNode')
    BY <1>15, <2>2, <2>4 DEF Walks, WalkOK
  <2>. HIDE DEF x
  <2>6. QED
    BY <1>2, <1>19, <2>1, <2>3, <2>4, <2>5, WalkStep
<1>22. QED
  BY <1>20, <1>21

-----------------------------------------------------------------------------
(* updateNode.                                                             *)
LEMMA UpdateKeepsShape ==
  ASSUME ShapeInv, LoopInv, UpdateNothing \/ UpdateNodeRenews
  PROVE  ShapeInv'
<1>. DEFINE n == Top.node
            W == Waiting(stack, keepChilds)
<1>1. stack # <<>> /\ Top.op = "update"
  BY DEF UpdateNothing, UpdateNodeRenews, At, Top
<1>2. ~Goes(Top) /\ Top.op # "keeps"
  BY <1>1 DEF Goes, Walks
<1>3. GlobalsOK /\ HeapTyped(node) /\ TreeOK(node, threadIDToNode, Unborn, W, Depth)
  BY ShapeFacts DEF ShapeInv
<1>4. UNCHANGED <<prog, todo, keepChilds>> /\ GlobalsOK'
  <2>1. UNCHANGED <<prog, todo, keepChilds>> /\ UNCHANGED <<prsnt, changedNode, prjNode, stateNum>>
        /\ process' = process
    BY DEF UpdateNothing, UpdateNodeRenews, globals
  <2>2. QED
    BY <1>3, <2>1, GlobalsKept
<1>5. CASE UpdateNothing
  <2>1. node' = node /\ threadIDToNode' = threadIDToNode /\ Do(<<>>)
    BY <1>5 DEF UpdateNothing, Pop
  <2>2. Kept
    BY <1>1, <1>2, <1>3, <1>4, <2>1, UnchangedIsSame, KeptSame
  <2>3. QED
    BY <1>2, <2>1, <2>2, PopStep
<1>6. CASE UpdateNodeRenews
  <2>1. n \in DOMAIN node /\ n # root /\ Found(n) /\ Renew(n)
        /\ Do(<<Excute(Successor(n)), UpdateNode(Successor(n))>>)
    BY <1>6 DEF UpdateNodeRenews
  <2>2. node[n].father \in DOMAIN node /\ n \in ToSet(node[node[n].father].childs)
    <3>1. node[n].father \in DOMAIN node /\ Contains(node[node[n].father].childs, n)
      BY <2>1 DEF Found
    <3>2. node[node[n].father].childs \in Seq(Names)
      BY <1>3, <3>1, Fields
    <3>3. \E i \in 1 .. Len(node[node[n].father].childs) : node[node[n].father].childs[i] = n
      BY <3>1 DEF Contains
    <3>4. QED
      BY <3>1, <3>2, <3>3 DEF ToSet
  <2>3. n \in In(node, threadIDToNode)
    BY <1>3, <2>1, <2>2 DEF TreeOK, Held
  <2>4. n \notin W
    BY <1>3, <2>2 DEF TreeOK, Apart
  <2>. HIDE DEF n
  <2>5. /\ TreeOK(node', threadIDToNode', Unborn, W, Depth)
        /\ root \in DOMAIN node => root \in DOMAIN node'
    BY <2>1, <2>3, <2>4, HeapRenewed
  <2>6. Kept
    BY <1>1, <1>2, <1>4, <2>5 DEF Kept, ShapeInv, RootThere
  <2>. DEFINE x == Excute(Successor(n))
              y == UpdateNode(Successor(n))
  <2>7. Plain(x) /\ Plain(y) /\ Do(<<x, y>>)
    BY <2>1, PlainFrames
  <2>. HIDE DEF x, y
  <2>8. <<x, y>> \in Seq({x, y})
    OBVIOUS
  <2>9. QED
    BY <1>2, <2>6, <2>7, <2>8, PlainStep
<1>7. QED
  BY <1>5, <1>6

(* The end of a state, and of the statement.                               *)
LEMMA StateEndsKeepsShape ==
  ASSUME ShapeInv, LoopInv, StateEnds
  PROVE  ShapeInv'
<1>1. stack # <<>> /\ Top.op = "take" /\ At("take")
  BY DEF StateEnds, At, Top
<1>2. ~Goes(Top) /\ Top.op # "keeps"
  BY <1>1 DEF Goes, Walks
<1>3. root \in In(node, threadIDToNode)
  <2>1. root \in DOMAIN node /\ Thread(root) = Main
    BY <1>1 DEF ShapeInv, RootThere, root, Thread
  <2>2. threadIDToNode[Main] = root
    BY <2>1, ShapeFacts DEF TreeOK, RootStays
  <2>3. QED
    BY <2>1, <2>2 DEF In
<1>4. /\ UNCHANGED <<prog, todo, keepChilds>> /\ UNCHANGED <<prsnt, changedNode, prjNode, stateNum>>
      /\ Delete(CheckedHeap(root), CheckedGone(root))
  BY DEF StateEnds, globals
<1>5. SameShape(CheckedHeap(root), CheckedHeap(root))
  <2>1. HeapTyped(CheckedHeap(root))
    BY <1>3, ShapeFacts, CheckedTree DEF LeavesAlone, Shrunk
  <2>2. QED
    BY <2>1, SameFields DEF SameShape, HeapTyped
<1>6. Kept
  BY <1>1, <1>2, <1>3, <1>4, <1>5, KeptChecked
<1>7. Len(stack) = 1
  <2>1. 1 \in 1 .. Len(stack) /\ stack[1] = Top
    BY <1>1 DEF LoopInv, StackShape, IsSeq, Top
  <2>2. QED
    BY <1>1, <2>1 DEF LoopInv, StackShape, AloneIsAlone, Alone
<1>8. CASE keepChilds = <<>>
  <2>. DEFINE x == Frame("round", Null, 0)
  <2>1. Do(<<x>>) /\ Plain(x)
    BY <1>8, PlainFrames DEF StateEnds, LoopOps
  <2>. HIDE DEF x
  <2>2. <<x>> \in Seq({x})
    OBVIOUS
  <2>3. QED
    BY <1>2, <1>6, <2>1, <2>2, PlainStep
<1>9. CASE keepChilds # <<>>
  <2>. DEFINE x == Frame("keeps", Null, 1)
              y == Frame("sort", Null, 0)
  <2>1. Do(<<x, y>>)
    BY <1>9 DEF StateEnds
  <2>2. ~Walks(x) /\ ~Walks(y) /\ y.op # "keeps" /\ x.i = 1
    BY DEF Walks, Frame
  <2>. HIDE DEF x, y
  <2>3. <<x, y>> \in Seq({x, y}) /\ Len(<<x, y>>) = 2 /\ <<x, y>>[1] = x /\ <<x, y>>[2] = y
    OBVIOUS
  <2>4. \A i \in 1 .. Len(<<x, y>>) :
          /\ ~Walks(<<x, y>>[i])
          /\ <<x, y>>[i].op = "keeps" => i = Len(<<x, y>>) + Len(stack) - 2 /\ <<x, y>>[i].i \in Nat \ {0}
    <3>1. \A i \in 1 .. Len(<<x, y>>) : (i = 1 /\ <<x, y>>[i] = x) \/ (i = 2 /\ <<x, y>>[i] = y)
      BY <2>3
    <3>2. Len(<<x, y>>) + Len(stack) - 2 = 1
      BY <1>7, <2>3
    <3>3. QED
      BY <2>2, <3>1, <3>2
  <2>5. QED
    BY <1>2, <1>6, <2>1, <2>3, <2>4, OtherStep
<1>10. QED
  BY <1>8, <1>9

-----------------------------------------------------------------------------
(* The loop over the children of keep nodes.                               *)
LEMMA KeepsStep ==
  ASSUME ShapeInv, LoopInv, At("keeps"), UNCHANGED <<prog, todo, keepChilds>>,
         Top.i <= Len(keepChilds),
         TreeOK(node', threadIDToNode', Unborn, Waiting(stack, keepChilds) \ {KeepChild}, Depth),
         root \in DOMAIN node', GlobalsOK',
         NEW F, NEW frames \in Seq(F), Do(frames), Len(frames) > 0,
         \A i \in 1 .. Len(frames) - 1 : Plain(frames[i]),
         frames[Len(frames)] = Frame("keeps", Null, Top.i + 1)
  PROVE  ShapeInv'
<1>1. stack # <<>> /\ Top.op = "keeps" /\ ~Goes(Top)
  BY DEF At, Top, Goes, Walks
<1>2. Ready /\ StackOK /\ IsSeq
  BY <1>1, ShapeFacts DEF Ready, ShapeInv, LoopInv, StackShape, TreeOK
<1>3. Len(frames) \in Nat /\ Len(frames) \in 1 .. Len(frames)
  <2>1. Len(frames) \in Nat
    OBVIOUS
  <2>2. QED
    BY <2>1
<1>4. Len(stack) = 2 /\ Top.i \in Nat \ {0}
  <2>1. 1 \in 1 .. Len(stack) /\ stack[1] = Top /\ Len(stack) \in Nat
    BY <1>1, <1>2 DEF IsSeq, Top
  <2>2. 1 = Len(stack) - 1 /\ Top.i \in Nat \ {0}
    BY <1>1, <1>2, <2>1 DEF StackOK, StackGood
  <2>3. QED
    BY <2>1, <2>2
<1>. DEFINE x == Frame("keeps", Null, Top.i + 1)
<1>5. x.op = "keeps" /\ x.i = Top.i + 1 /\ x.i \in Nat \ {0} /\ ~Walks(x)
  BY <1>4 DEF Frame, Walks
<1>6. frames[Len(frames)] = x
  OBVIOUS
<1>. HIDE DEF x
<1>7. ASSUME NEW i \in 1 .. Len(frames)
      PROVE  /\ ~Walks(frames[i])
             /\ frames[i].op = "keeps" => i = Len(frames) + Len(stack) - 2 /\ frames[i].i \in Nat \ {0}
  <2>1. CASE i = Len(frames)
    <3>1. frames[i] = x /\ i = Len(frames) + Len(stack) - 2
      BY <1>3, <1>4, <1>6, <2>1
    <3>2. QED
      BY <1>5, <3>1
  <2>2. CASE i # Len(frames)
    <3>1. i \in 1 .. Len(frames) - 1
      BY <1>3, <2>2
    <3>2. QED
      BY <3>1 DEF Plain
  <2>3. QED
    BY <2>1, <2>2
<1>8. StackOK'
  BY <1>1, <1>2, <1>7, NoWalk
<1>9. \E i \in 1 .. Len(frames) : frames[i].op = "keeps" /\ frames[i].i = Top.i + 1
  BY <1>3, <1>5, <1>6
<1>10. /\ WaitGood(stack, keepChilds)'
       /\ Waiting(stack, keepChilds)' \subseteq Waiting(stack, keepChilds) \ {KeepChild}
  BY <1>1, <1>2, <1>9, WaitsStep DEF ShapeInv
<1>11. TreeOK(node', threadIDToNode', Unborn, Waiting(stack, keepChilds)', Depth)
  BY <1>10, FewerTree
<1>12. Unborn' = Unborn /\ Depth' = Depth /\ TodoOK'
  BY SliceStays DEF ShapeInv
<1>13. TreeOK(node, threadIDToNode, Unborn, Waiting(stack, keepChilds), Depth)'
  BY <1>11, <1>12
<1>14. QED
  BY <1>8, <1>10, <1>12, <1>13 DEF ShapeInv, RootThere

LEMMA KeepChildWaits ==
  ASSUME ShapeInv, LoopInv, At("keeps"), Top.i <= Len(keepChilds)
  PROVE  /\ KeepChild \in Waiting(stack, keepChilds) /\ KeepChild \in In(node, threadIDToNode)
         /\ KeepChild # root /\ KeepChild \in Names /\ KeepChild \in DOMAIN node
         /\ \A m \in In(node, threadIDToNode) : KeepChild \notin ToSet(node[m].childs)
<1>1. Top.op = "keeps" /\ 1 \in 1 .. Len(stack) /\ stack[1] = Top
  BY DEF At, Top, LoopInv, StackShape, IsSeq
<1>2. \A j \in 1 .. Len(stack) : stack[j].op = "keeps" => j = Len(stack) - 1 /\ stack[j].i \in Nat \ {0}
  BY DEF ShapeInv, StackOK, StackGood
<1>3. Top.i \in Nat \ {0} /\ \A j \in 1 .. Len(stack) : stack[j].op = "keeps" => stack[j].i = Top.i
  BY <1>1, <1>2
<1>4. keepChilds \in Seq(Names)
  BY DEF ShapeInv, WaitGood
<1>5. Top.i \in Index(stack, keepChilds)
  BY <1>3, <1>4 DEF Index
<1>6. KeepChild \in Waiting(stack, keepChilds)
  BY <1>5 DEF Waiting, KeepChild
<1>7. /\ KeepChild \in In(node, threadIDToNode) /\ KeepChild # root
      /\ \A m \in In(node, threadIDToNode) : KeepChild \notin ToSet(node[m].childs)
  BY <1>6, ShapeFacts DEF TreeOK, Apart
<1>8. KeepChild \in DOMAIN node
  BY <1>7 DEF In
<1>9. QED
  BY <1>6, <1>7, <1>8, ShapeFacts, Fields

LEMMA KeepsKeepShape ==
  ASSUME ShapeInv, LoopInv, KeepChildDropped \/ KeepChildJoins \/ KeepsDone
  PROVE  ShapeInv'
<1>. DEFINE W == Waiting(stack, keepChilds)
            c == KeepChild
            x == Frame("keeps", Null, Top.i + 1)
<1>1. At("keeps") /\ stack # <<>> /\ Top.op = "keeps" /\ ~Goes(Top)
  BY DEF KeepChildDropped, KeepChildJoins, KeepsDone, At, Top, Goes, Walks
<1>2. GlobalsOK /\ HeapTyped(node) /\ root \in DOMAIN node
      /\ TreeOK(node, threadIDToNode, Unborn, W, Depth)
  BY <1>1, ShapeFacts DEF ShapeInv, RootThere
<1>3. CASE KeepChildDropped
  <2>1. /\ Top.i <= Len(keepChilds) /\ Do(<<x>>) /\ Delete(node, Below[c])
        /\ UNCHANGED <<prog, todo, keepChilds>> /\ UNCHANGED <<prsnt, changedNode, prjNode, stateNum>>
    BY <1>3 DEF KeepChildDropped, globals
  <2>2. /\ c \in In(node, threadIDToNode) /\ c # root
        /\ \A m \in In(node, threadIDToNode) : c \notin ToSet(node[m].childs)
    BY <1>1, <2>1, KeepChildWaits
  <2>. HIDE DEF c
  <2>3. Shrunk(node, node)
    BY <1>2, UnchangedIsSame, SameIsShrunk DEF Shrunk
  <2>4. W \ {c} \in SUBSET W /\ c \notin W \ {c}
    OBVIOUS
  <2>5. /\ TreeOK(node', threadIDToNode', Unborn, W \ {c}, Depth)
        /\ root \in DOMAIN node => root \in DOMAIN node'
        /\ process' \in {process, "killed"}
    BY <2>1, <2>2, <2>3, <2>4, HeapBelow
  <2>6. GlobalsOK'
    BY <1>2, <2>1, <2>5, GlobalsKept
  <2>. HIDE DEF x
  <2>7. <<x>> \in Seq({x}) /\ Len(<<x>>) = 1 /\ <<x>>[1] = x
    OBVIOUS
  <2>8. \A i \in 1 .. 1 - 1 : FALSE
    OBVIOUS
  <2>9. /\ Len(<<x>>) > 0 /\ \A i \in 1 .. Len(<<x>>) - 1 : Plain(<<x>>[i])
        /\ <<x>>[Len(<<x>>)] = Frame("keeps", Null, Top.i + 1)
    BY <2>7, <2>8 DEF x
  <2>10. TreeOK(node', threadIDToNode', Unborn, W \ {KeepChild}, Depth)
    BY <2>5 DEF c
  <2>11. QED
    BY <1>1, <1>2, <2>1, <2>5, <2>6, <2>7, <2>9, <2>10, KeepsStep
<1>4. CASE KeepChildJoins
  <2>. DEFINE f == node[c].father
              y == Excute(c)
              z == UpdateNode(c)
              v == UpdateNode(f)
              g == [node EXCEPT ![f].childs = @ \o <<c>>]
  <2>1. /\ Top.i <= Len(keepChilds) /\ Do(<<y, z, v, x>>)
        /\ node' = Lengthened([node EXCEPT ![f].childs = Append(@, c)], f)
        /\ threadIDToNode' = threadIDToNode /\ process' = process
        /\ UNCHANGED <<prog, todo, keepChilds>> /\ UNCHANGED <<prsnt, changedNode, prjNode, stateNum>>
    BY <1>4 DEF KeepChildJoins, globals
  <2>2. c \in W /\ c \in Names
    BY <1>1, <2>1, KeepChildWaits
  <2>3. \A m \in DOMAIN node : Append(node[m].childs, c) = node[m].childs \o <<c>>
    <3>1. ASSUME NEW m \in DOMAIN node PROVE Append(node[m].childs, c) = node[m].childs \o <<c>>
      <4>1. node[m].childs \in Seq(Names)
        BY <1>2, Fields
      <4>. DEFINE t == node[m].childs
      <4>. HIDE DEF t, c
      <4>2. t \in Seq(Names)
        BY <4>1 DEF t
      <4>3. \A S : \A u \in Seq(S) : \A d \in S : Append(u, d) = u \o <<d>>
        BY AppendIsConcat
      <4>4. Append(t, c) = t \o <<c>>
        BY <2>2, <4>2, <4>3
      <4>5. QED
        BY <4>4 DEF t
    <3>2. QED
      BY <3>1
  <2>4. [node EXCEPT ![f].childs = Append(@, c)] = g
    BY <2>3
  <2>5. <<c>> \in Seq(Names) /\ IsInjective(<<c>>) /\ ToSet(<<c>>) = {c}
    <3>1. <<c>> \in Seq(Names) /\ DOMAIN <<c>> = {1} /\ <<c>>[1] = c
      BY <2>2
    <3>2. QED
      BY <3>1 DEF IsInjective, ToSet
  <2>6. TreeOK(g, threadIDToNode, Unborn, W \ {c}, Depth) /\ DOMAIN g = DOMAIN node
    <3>1. /\ ToSet(<<c>>) \subseteq W /\ \A k \in ToSet(<<c>>) : node[k].father = f
          /\ Depth \in [Owners -> Nat]
      BY <2>2, <2>5, ShapeFacts
    <3>2. HasJoined(node, threadIDToNode, Unborn, W, Depth, <<c>>, g)
      BY ONLY <1>2, <2>5, <3>1, JoinedTree
    <3>. HIDE DEF g
    <3>3. QED
      BY <2>5, <3>2 DEF HasJoined
  <2>. HIDE DEF g, f, W, c
  <2>7. node' = Lengthened(g, f)
    BY <2>1, <2>4
  <2>8. SameShape(g, node')
    BY <2>6, <2>7, LengthenedSame DEF TreeOK
  <2>9. TreeOK(node', threadIDToNode', Unborn, W \ {c}, Depth) /\ root \in DOMAIN node'
    <3>1. Shrunk(g, node')
      BY <2>8, SameIsShrunk
    <3>2. TreeOK(node', threadIDToNode, Unborn, W \ {c}, Depth)
      BY <2>6, <3>1, ShrunkTree
    <3>3. QED
      BY <1>2, <2>1, <2>6, <3>1, <3>2 DEF Shrunk
  <2>10. GlobalsOK'
    BY <1>2, <2>1, GlobalsKept
  <2>11. Plain(y) /\ Plain(z) /\ Plain(v)
    BY PlainFrames
  <2>. HIDE DEF x, y, z, v
  <2>12. /\ <<y, z, v, x>> \in Seq({x, y, z, v}) /\ Len(<<y, z, v, x>>) = 4
         /\ <<y, z, v, x>>[1] = y /\ <<y, z, v, x>>[2] = z /\ <<y, z, v, x>>[3] = v /\ <<y, z, v, x>>[4] = x
    OBVIOUS
  <2>13. \A i \in 1 .. 4 - 1 : i \in {1, 2, 3}
    OBVIOUS
  <2>14. /\ Len(<<y, z, v, x>>) > 0 /\ \A i \in 1 .. Len(<<y, z, v, x>>) - 1 : Plain(<<y, z, v, x>>[i])
         /\ <<y, z, v, x>>[Len(<<y, z, v, x>>)] = Frame("keeps", Null, Top.i + 1)
    BY <2>11, <2>12, <2>13 DEF x
  <2>15. TreeOK(node', threadIDToNode', Unborn, Waiting(stack, keepChilds) \ {KeepChild}, Depth)
    BY <2>9 DEF c, W
  <2>16. QED
    BY <1>1, <2>1, <2>9, <2>10, <2>12, <2>14, <2>15, KeepsStep
<1>5. CASE KeepsDone
  <2>1. /\ Do(<<>>) /\ keepChilds' = <<>> /\ node' = node /\ threadIDToNode' = threadIDToNode
        /\ UNCHANGED <<prog, todo>> /\ UNCHANGED <<prsnt, changedNode, prjNode, stateNum>>
        /\ process' = process
    BY <1>5 DEF KeepsDone, Pop
  <2>2. Ready
    BY <1>1, <1>2, <2>1, ShapeFacts DEF Ready, ShapeInv, LoopInv, StackShape
  <2>3. StackOK'
    BY <1>1, <2>1, <2>2, Returns
  <2>4. Index(stack', <<>>) = {} /\ <<>> \in Seq(Names)
    <3>1. \A k \in 1 .. Len(<<>>) : FALSE
      OBVIOUS
    <3>2. QED
      BY <3>1 DEF Index
  <2>5. WaitGood(stack, keepChilds)' /\ Waiting(stack, keepChilds)' = {}
    <3>1. WaitGood(stack', <<>>) /\ Waiting(stack', <<>>) = {}
      BY <2>4 DEF WaitGood, Waiting
    <3>2. QED
      BY <2>1, <3>1
  <2>6. Unborn' = Unborn /\ Depth' = Depth /\ TodoOK'
    BY <2>1, SliceStays DEF ShapeInv
  <2>7. TreeOK(node, threadIDToNode, Unborn, {}, Depth)
    BY <1>2, FewerTree
  <2>8. TreeOK(node, threadIDToNode, Unborn, Waiting(stack, keepChilds), Depth)'
    BY <2>1, <2>5, <2>6, <2>7
  <2>9. GlobalsOK'
    BY <1>2, <2>1, GlobalsKept
  <2>10. RootThere'
    BY <1>2, <2>1 DEF RootThere
  <2>11. QED
    BY <2>3, <2>5, <2>6, <2>8, <2>9, <2>10 DEF ShapeInv
<1>6. QED
  BY <1>3, <1>4, <1>5

(* The end of the statement: nothing waits, and the stack is empty.        *)
LEMMA DeleteRootKeepsShape ==
  ASSUME ShapeInv, LoopInv, DeleteRoot
  PROVE  ShapeInv'
<1>1. /\ At("round") /\ stack # <<>> /\ Top.op = "round" /\ ~Goes(Top) /\ Top.op # "keeps"
      /\ Do(<<>>) /\ Delete(node, Below[root])
      /\ UNCHANGED <<prog, todo, keepChilds>> /\ UNCHANGED <<prsnt, changedNode, prjNode, stateNum>>
  BY DEF DeleteRoot, At, Top, Goes, Walks, Pop, globals
<1>2. keepChilds = <<>>
  BY <1>1 DEF LoopInv, NoneLeft
<1>3. stack' = <<>>
  <2>1. InLoop(Head(stack)) /\ StackShape
    BY <1>1 DEF InLoop, LoopOps, Top, LoopInv
  <2>2. stack' = <<>> \o <<>>
    BY <1>1, <2>1, LoopStep
  <2>3. QED
    BY <2>2
<1>4. \A s : Index(s, <<>>) = {}
  <2>1. \A k \in 1 .. Len(<<>>) : FALSE
    OBVIOUS
  <2>2. QED
    BY <2>1 DEF Index
<1>5. \A s : WaitGood(s, <<>>) /\ Waiting(s, <<>>) = {}
  <2>1. <<>> \in Seq(Names)
    OBVIOUS
  <2>2. QED
    BY <1>4, <2>1 DEF WaitGood, Waiting
<1>6. /\ HeapTyped(node) /\ Levels \in Nat /\ Depth \in [Owners -> 0 .. Levels]
      /\ TreeOK(node, threadIDToNode, Unborn, {}, Depth)
      /\ Present = In(node, threadIDToNode)
  BY <1>2, <1>5, ShapeFacts
<1>7. root \in In(node, threadIDToNode)
  <2>1. root \in DOMAIN node /\ Thread(root) = Main
    BY <1>1 DEF ShapeInv, RootThere, root, Thread
  <2>2. threadIDToNode[Main] = root
    BY <1>6, <2>1 DEF TreeOK, RootStays
  <2>3. QED
    BY <2>1, <2>2 DEF In
<1>. DEFINE gone == Below[root]
            nobody == {}
<1>8. BelowGood(root, {}, Depth)
  BY <1>6, <1>7, BelowTree
<1>9. /\ gone \subseteq In(node, threadIDToNode)
      /\ \A m \in In(node, threadIDToNode) \ gone : ToSet(node[m].childs) \cap gone \subseteq {root}
  BY <1>6, <1>8 DEF BelowGood
<1>. HIDE DEF gone
<1>10. \A m \in In(node, threadIDToNode) \ gone : ToSet(node[m].childs) \cap gone = {}
  <2>1. \A m \in In(node, threadIDToNode) : root \notin ToSet(node[m].childs)
    BY ChildFacts
  <2>2. QED
    BY <1>9, <2>1
<1>11. gone \in SUBSET DOMAIN node /\ {} \cap gone = {} /\ Delete(node, gone)
  BY <1>1, <1>9 DEF In, gone
<1>12. SameShape(node, node) /\ Shrunk(node, node)
  BY <1>6, SameFields, SameIsShrunk DEF SameShape, HeapTyped
<1>13. TreeOK(node', threadIDToNode', Unborn, {}, Depth) /\ process' \in {process, "killed"}
  <2>. DEFINE h == node
  <2>1. TreeOK(node, threadIDToNode, Unborn, nobody, Depth) /\ nobody \cap gone = {}
    BY <1>6, <1>11
  <2>2. Delete(h, gone) /\ SameShape(node, h) /\ gone \in SUBSET DOMAIN node
    BY <1>11, <1>12
  <2>3. Shrunk(node, node)
    BY <1>12
  <2>. HIDE DEF nobody, h
  <2>4. /\ TreeOK(node', threadIDToNode', Unborn, nobody, Depth)
        /\ In(node', threadIDToNode') = In(node, threadIDToNode) \ gone
        /\ DOMAIN node' = DOMAIN node \ gone
        /\ \A m \in DOMAIN node \ gone : node'[m].childs = node[m].childs
        /\ process' \in {process, "killed"}
    BY ONLY <1>10, <2>1, <2>2, <2>3, HeapDeleted
  <2>5. QED
    BY <2>4 DEF nobody
<1>14. Unborn' = Unborn /\ Depth' = Depth /\ TodoOK'
  BY <1>1, SliceStays DEF ShapeInv
<1>15. WaitGood(stack, keepChilds)' /\ Waiting(stack, keepChilds)' = {}
  BY <1>1, <1>2, <1>5
<1>16. TreeOK(node, threadIDToNode, Unborn, Waiting(stack, keepChilds), Depth)'
  BY <1>13, <1>14, <1>15
<1>17. StackOK'
  <2>1. HeapTyped(node')
    BY <1>13 DEF TreeOK
  <2>2. Ready
    BY <1>1, <1>6, <2>1, ShapeFacts DEF Ready, ShapeInv, LoopInv, StackShape
  <2>3. QED
    BY <1>1, <2>2, Returns
<1>18. GlobalsOK'
  BY <1>1, <1>13, GlobalsKept DEF ShapeInv
<1>19. RootThere'
  BY <1>3 DEF RootThere
<1>20. QED
  BY <1>14, <1>15, <1>16, <1>17, <1>18, <1>19 DEF ShapeInv

(* Nothing but the process changes.                                        *)
LEMMA EndsKeepShape ==
  ASSUME ShapeInv, ExitAtOutput \/ Finished \/ UNCHANGED vars
  PROVE  ShapeInv'
<1>1. /\ UNCHANGED <<prog, todo, node, threadIDToNode, prsnt, keepChilds, changedNode, prjNode, stateNum, stack>>
      /\ process' \in {process, "exited"}
  BY DEF ExitAtOutput, Finished, vars, globals
<1>2. Unborn' = Unborn /\ Depth' = Depth /\ TodoOK'
  BY <1>1, SliceStays DEF ShapeInv
<1>3. GlobalsOK'
  BY <1>1, GlobalsKept DEF ShapeInv
<1>4. TreeOK(node, threadIDToNode, Unborn, Waiting(stack, keepChilds), Depth)'
  BY <1>1, <1>2 DEF ShapeInv
<1>5. StackOK' /\ WaitGood(stack, keepChilds)' /\ RootThere'
  BY <1>1, <1>2 DEF ShapeInv, StackOK, RootThere
<1>6. QED
  BY <1>2, <1>3, <1>4, <1>5 DEF ShapeInv

-----------------------------------------------------------------------------
(* A slice: threads are born below n, and n gets a type and a length.      *)
LEMMA SliceHeap ==
  ASSUME ShapeInv, NEW n \in In(node, threadIDToNode), Thread(n) \in Threads,
         todo[Thread(n)] # <<>>, prog' = prog,
         todo' = [todo EXCEPT ![Thread(n)] = Tail(@)]
  PROVE  LET kids == Head(todo[Thread(n)]).kids
         IN /\ TreeOK(AfterSlice(n).node, Mapped(threadIDToNode, kids), Unborn', Waiting(stack, keepChilds), Depth)
            /\ Grown(node, threadIDToNode, AfterSlice(n).node, Mapped(threadIDToNode, kids))
            /\ Pointers(AfterSlice(n))
            /\ TodoOK'
<1>. DEFINE t == Thread(n)
            s == Head(todo[t])
            M == threadIDToNode
            N == Mapped(M, s.kids)
            W == Waiting(stack, keepChilds)
            h1 == AddLeaves(node, n, s.kids)
            h2 == IF s.make = "same" THEN h1 ELSE [h1 EXCEPT ![n].newType = s.make]
            V == Unborn \ ToSet(s.kids)
<1>1. /\ s \in Slices /\ s.kids \in Seq(Threads) /\ IsInjective(s.kids)
      /\ ToSet(s.kids) \subseteq Unborn
      /\ \A c \in ToSet(s.kids) : Depth[t] < Depth[c]
      /\ TodoOK' /\ Unborn' \subseteq V
  BY SliceIsRun DEF ShapeInv
<1>2. /\ TreeOK(node, M, Unborn, W, Depth) /\ Unborn \in SUBSET Threads
      /\ Depth \in [Owners -> Nat] /\ Levels \in Nat /\ Depth \in [Owners -> 0 .. Levels]
      /\ n \in In(node, M)
  BY ShapeFacts
<1>3. s.make \in Types \cup {"same"} /\ s.len \in {"same", "empty", "none"}
  BY <1>1 DEF Slices
<1>. HIDE DEF s, W
<1>4. TreeOK(h1, N, V, W, Depth)
  BY ONLY <1>1, <1>2, AddedTree DEF t
<1>5. Grown(node, M, h1, N)
  BY ONLY <1>1, <1>2, AddedTree DEF t
<1>6. HeapTyped(h1) /\ n \in DOMAIN h1
  BY <1>2, <1>4, <1>5 DEF TreeOK, Grown, In
<1>7. SameShape(h1, h2)
  <2>1. SameShape(h1, h1)
    BY <1>6, SameFields DEF SameShape, HeapTyped
  <2>2. CASE s.make = "same"
    BY <2>1, <2>2
  <2>3. CASE s.make # "same"
    <3>1. s.make \in Types
      BY <1>3, <2>3
    <3>. HIDE DEF h1
    <3>2. QED
      BY <1>6, <2>3, <3>1, SameHeaps
  <2>4. QED
    BY <2>2, <2>3
<1>8. {changedNode, prjNode} \subseteq Names \cup {Null}
  BY DEF ShapeInv, GlobalsOK
<1>9. AfterSlice(n) = IF s.len = "same" THEN Result(h2, changedNode, prjNode) ELSE setNodeLength(h2, n, s.len)
  BY DEF AfterSlice, s
<1>. HIDE DEF h1, h2, N, V
<1>10. HeapTyped(h2) /\ n \in DOMAIN h2 /\ Deep(h2, Depth)
  <2>1. Shrunk(h1, h2) /\ HeapTyped(h2)
    BY <1>7, SameIsShrunk
  <2>2. TreeOK(h2, N, V, W, Depth)
    BY <1>4, <2>1, ShrunkTree
  <2>3. QED
    BY <1>6, <2>1, <2>2 DEF TreeOK, Shrunk
<1>11. SameShape(h2, AfterSlice(n).node) /\ Pointers(AfterSlice(n))
  <2>1. CASE s.len = "same"
    <3>1. AfterSlice(n).node = h2 /\ AfterSlice(n).changedNode = changedNode /\ AfterSlice(n).prjNode = prjNode
      BY <1>9, <2>1, ResultFields
    <3>2. SameShape(h2, h2)
      BY <1>10, SameFields DEF SameShape, HeapTyped
    <3>3. QED
      BY <1>8, <3>1, <3>2 DEF Pointers
  <2>2. CASE s.len # "same"
    <3>1. s.len \in Lengths /\ AfterSlice(n) = setNodeLength(h2, n, s.len)
      BY <1>3, <1>9, <2>2 DEF Lengths
    <3>2. QED
      BY <1>2, <1>8, <1>10, <3>1, LengthSet
  <2>3. QED
    BY <2>1, <2>2
<1>. DEFINE h == AfterSlice(n).node
<1>. HIDE DEF h
<1>12. SameShape(h1, h)
  BY <1>7, <1>11, SameAgain DEF h
<1>13. Shrunk(h1, h) /\ \A m \in DOMAIN h1 : h[m].childs = h1[m].childs /\ h[m].father = h1[m].father /\ h[m].type = h1[m].type
  BY <1>12, SameIsShrunk
<1>14. TreeOK(h, N, V, W, Depth) /\ In(h, N) = In(h1, N) /\ DOMAIN h = DOMAIN h1
  BY <1>4, <1>13, ShrunkTree DEF Shrunk
<1>15. TreeOK(h, N, Unborn', W, Depth)
  BY <1>1, <1>14, FewerTree
<1>16. Grown(node, M, h, N)
  BY <1>5, <1>13, <1>14 DEF Grown
<1>17. QED
  BY <1>1, <1>11, <1>15, <1>16 DEF h, N, W, s

(* Children of a keep node are added to those that wait.                   *)
LEMMA MoreWait ==
  ASSUME NEW s, NEW ks, WaitGood(s, ks), NEW kids \in Seq(Names), IsInjective(kids),
         ToSet(kids) \cap Waiting(s, ks) = {}
  PROVE  /\ WaitGood(s, ks \o kids)
         /\ Waiting(s, ks \o kids) \subseteq Waiting(s, ks) \cup ToSet(kids)
<1>. DEFINE all == ks \o kids
            m == Len(ks)
<1>1. ks \in Seq(Names) /\ \A k, l \in Index(s, ks) : ks[k] = ks[l] => k = l
  BY DEF WaitGood
<1>2. /\ all \in Seq(Names) /\ m \in Nat /\ Len(kids) \in Nat /\ Len(all) = m + Len(kids)
      /\ \A k \in 1 .. m : all[k] = ks[k]
      /\ \A k \in m + 1 .. Len(all) : all[k] = kids[k - m]
  BY <1>1
<1>. HIDE DEF all, m
<1>3. \A k \in Index(s, all) :
        \/ k \in Index(s, ks) /\ all[k] = ks[k]
        \/ k \in Nat /\ k - m \in DOMAIN kids /\ all[k] = kids[k - m]
  <2>1. SUFFICES ASSUME NEW k \in Index(s, all)
                 PROVE  \/ k \in Index(s, ks) /\ all[k] = ks[k]
                        \/ k \in Nat /\ k - m \in DOMAIN kids /\ all[k] = kids[k - m]
    OBVIOUS
  <2>2. k \in 1 .. Len(all) /\ \A j \in 1 .. Len(s) : s[j].op = "keeps" => s[j].i <= k
    BY DEF Index
  <2>3. CASE k <= m
    <3>1. k \in 1 .. m
      BY <1>2, <2>2, <2>3
    <3>2. k \in Index(s, ks)
      BY <2>2, <3>1 DEF Index, m
    <3>3. QED
      BY <1>2, <3>1, <3>2
  <2>4. CASE k > m
    <3>1. k \in m + 1 .. Len(all) /\ k - m \in 1 .. Len(kids) /\ k \in Nat
      BY <1>2, <2>2, <2>4
    <3>2. DOMAIN kids = 1 .. Len(kids)
      OBVIOUS
    <3>3. QED
      BY <1>2, <3>1, <3>2
  <2>5. QED
    BY <1>2, <2>2, <2>3, <2>4
<1>4. /\ \A k \in Index(s, ks) : ks[k] \in Waiting(s, ks)
      /\ \A i \in DOMAIN kids : kids[i] \in ToSet(kids) /\ kids[i] \notin Waiting(s, ks)
  <2>1. \A i \in DOMAIN kids : kids[i] \in ToSet(kids)
    BY DEF ToSet
  <2>2. QED
    BY <2>1 DEF Waiting
<1>5. ASSUME NEW k \in Index(s, all), NEW l \in Index(s, all), all[k] = all[l] PROVE k = l
  <2>1. CASE k \in Index(s, ks) /\ all[k] = ks[k]
    BY <1>1, <1>3, <1>4, <1>5, <2>1
  <2>2. CASE k \in Nat /\ k - m \in DOMAIN kids /\ all[k] = kids[k - m]
    <3>1. l \in Nat /\ l - m \in DOMAIN kids /\ all[l] = kids[l - m]
      BY <1>3, <1>4, <1>5, <2>2
    <3>2. k - m = l - m
      BY <1>5, <2>2, <3>1 DEF IsInjective
    <3>3. QED
      BY <1>2, <2>2, <3>1, <3>2
  <2>3. QED
    BY <1>3, <2>1, <2>2
<1>6. Waiting(s, all) \subseteq Waiting(s, ks) \cup ToSet(kids)
  BY <1>3, <1>4 DEF Waiting
<1>7. QED
  BY <1>2, <1>5, <1>6 DEF WaitGood, all

LEMMA SliceTop ==
  ASSUME ShapeInv, LoopInv, NEW type, type \notin Groups, ThreadOnTop(type)
  PROVE  /\ stack # <<>> /\ Goes(Top) /\ Top.op # "keeps"
         /\ Top.node \in In(node, threadIDToNode) /\ Top.node \in DOMAIN node
         /\ Thread(Top.node) \in Threads /\ todo[Thread(Top.node)] # <<>>
<1>1. /\ At("excute") /\ Current(Top.node) /\ node[Top.node].type \notin Groups
      /\ ~Returned(Thread(Top.node))
  BY DEF ThreadOnTop
<1>2. /\ stack # <<>> /\ Goes(Top) /\ Top.op # "keeps"
      /\ Top.node \in In(node, threadIDToNode)
  BY <1>1, ExcuteTop
<1>3. Top.node \in DOMAIN node
  BY <1>2 DEF In
<1>4. Thread(Top.node) # Main
  <2>1. RootStays(node, threadIDToNode)
    BY ShapeFacts DEF TreeOK
  <2>2. QED
    BY <1>1, <1>3, <2>1 DEF RootStays
<1>5. Thread(Top.node) \in Owners
  BY <1>3, ShapeFacts, Fields
<1>6. QED
  BY <1>1, <1>2, <1>3, <1>4, <1>5 DEF Owners, Returned

(* What a slice does besides changing the heap; X are those that wait now. *)
LEMMA SliceKeepsShape ==
  ASSUME ShapeInv, LoopInv, NEW type, type \notin Groups, ThreadOnTop(type),
         RunSlice(Top.node), UNCHANGED <<prog, stateNum, process>>,
         NEW X, TreeOK(node', threadIDToNode', Unborn', X, Depth),
         WaitGood(stack, keepChilds)', Waiting(stack, keepChilds)' \subseteq X,
         In(node, threadIDToNode) \subseteq In(node', threadIDToNode'),
         \A m \in In(node, threadIDToNode) : m # Top.node => Len(node'[m].childs) >= Len(node[m].childs)
  PROVE  ShapeInv'
<1>. DEFINE n == Top.node
            t == Thread(n)
            s == Head(todo[t])
<1>1. /\ stack # <<>> /\ Goes(Top) /\ Top.op # "keeps"
      /\ n \in In(node, threadIDToNode) /\ n \in DOMAIN node
      /\ t \in Threads /\ todo[t] # <<>>
  BY SliceTop
<1>2. /\ todo' = [todo EXCEPT ![t] = Tail(@)]
      /\ changedNode' = AfterSlice(n).changedNode /\ prjNode' = AfterSlice(n).prjNode
      /\ prsnt' = (IF s.push THEN Append(prsnt, t) ELSE prsnt)
      /\ Do(<<>>)
  BY DEF RunSlice, Pop
<1>3. Pointers(AfterSlice(n)) /\ TodoOK'
  BY <1>1, <1>2, SliceHeap
<1>4. Depth' = Depth
  BY DepthStays
<1>5. GlobalsOK'
  <2>1. GlobalsOK
    BY DEF ShapeInv
  <2>. HIDE DEF s, t, n
  <2>2. prsnt' \in Seq(Threads)
    BY <1>1, <1>2, <2>1 DEF GlobalsOK
  <2>3. {changedNode', prjNode'} \subseteq Names \cup {Null}
    BY <1>2, <1>3 DEF Pointers
  <2>4. QED
    BY <2>1, <2>2, <2>3 DEF GlobalsOK
<1>6. t \in Owners /\ Depth[t] \in Nat
  BY <1>1, ShapeFacts DEF Owners
<1>7. Stays(n)
  BY <1>6 DEF Stays, Higher
<1>8. StackOK'
  <2>1. HeapTyped(node) /\ HeapTyped(node') /\ prog \in Programs
    BY ShapeFacts DEF TreeOK
  <2>2. Ready
    BY <1>1, <2>1 DEF Ready, ShapeInv, LoopInv, StackShape
  <2>3. QED
    BY <1>2, <1>6, <1>7, <2>2, Returns
<1>9. RootThere'
  <2>1. root \in DOMAIN node /\ RootStays(node, threadIDToNode) /\ Thread(root) = Main
    BY <1>1, ShapeFacts DEF ShapeInv, RootThere, TreeOK, root, Thread
  <2>2. root \in In(node, threadIDToNode)
    BY <2>1 DEF RootStays, In
  <2>3. root \in DOMAIN node'
    BY <2>2 DEF In
  <2>4. QED
    BY <2>3 DEF RootThere
<1>10. TreeOK(node', threadIDToNode', Unborn', Waiting(stack, keepChilds)', Depth)
  BY FewerTree
<1>11. TreeOK(node, threadIDToNode, Unborn, Waiting(stack, keepChilds), Depth)'
  BY <1>4, <1>10
<1>12. QED
  BY <1>3, <1>5, <1>8, <1>9, <1>11 DEF ShapeInv

(* The heap a slice makes, before its node gives its children away.        *)
LEMMA SliceGrows ==
  ASSUME ShapeInv, LoopInv, NEW type, type \notin Groups, ThreadOnTop(type),
         RunSlice(Top.node), prog' = prog
  PROVE  LET h == AfterSlice(Top.node).node
         IN /\ TreeOK(h, threadIDToNode', Unborn', Waiting(stack, keepChilds), Depth)
            /\ In(node, threadIDToNode) \subseteq In(h, threadIDToNode')
            /\ \A m \in In(node, threadIDToNode) :
                 m \in DOMAIN h /\ Len(h[m].childs) >= Len(node[m].childs) /\ Len(node[m].childs) \in Nat
            /\ Top.node \in In(node, threadIDToNode)
            /\ WaitGood(stack', keepChilds) /\ Waiting(stack', keepChilds) \subseteq Waiting(stack, keepChilds)
<1>. DEFINE n == Top.node
            t == Thread(n)
            s == Head(todo[t])
            h == AfterSlice(n).node
            N == Mapped(threadIDToNode, s.kids)
<1>1. /\ stack # <<>> /\ Top.op # "keeps"
      /\ n \in In(node, threadIDToNode) /\ t \in Threads /\ todo[t] # <<>>
  BY SliceTop
<1>2. todo' = [todo EXCEPT ![t] = Tail(@)] /\ threadIDToNode' = N /\ Do(<<>>)
  BY DEF RunSlice, Pop, Mapped
<1>3. TreeOK(h, N, Unborn', Waiting(stack, keepChilds), Depth) /\ Grown(node, threadIDToNode, h, N)
  BY <1>1, <1>2, SliceHeap
<1>4. <<>> \in Seq({})
  OBVIOUS
<1>5. WaitGood(stack', keepChilds) /\ Waiting(stack', keepChilds) \subseteq Waiting(stack, keepChilds)
  BY <1>1, <1>2, <1>4, OthersWait DEF ShapeInv, LoopInv, StackShape
<1>6. ASSUME NEW m \in DOMAIN node PROVE Len(node[m].childs) \in Nat
  <2>1. node[m].childs \in Seq(Names)
    BY ShapeFacts, Fields
  <2>2. QED
    BY <2>1
<1>. HIDE DEF h, N, n
<1>7. /\ In(node, threadIDToNode) \subseteq In(h, N)
      /\ \A m \in In(node, threadIDToNode) :
           m \in DOMAIN h /\ Len(h[m].childs) >= Len(node[m].childs) /\ Len(node[m].childs) \in Nat
  BY <1>3, <1>6 DEF Grown, In
<1>8. QED
  BY <1>1, <1>2, <1>3, <1>5, <1>7 DEF h, n

LEMMA ExcuteLeafKeepsShape ==
  ASSUME ShapeInv, LoopInv, ExcuteLeaf
  PROVE  ShapeInv'
<1>. DEFINE W == Waiting(stack, keepChilds)
<1>1. /\ ThreadOnTop("leaf") /\ "leaf" \notin Groups /\ RunSlice(Top.node)
      /\ node' = AfterSlice(Top.node).node /\ keepChilds' = keepChilds
      /\ UNCHANGED <<prog, stateNum, process>>
  BY DEF ExcuteLeaf, Groups
<1>2. /\ TreeOK(node', threadIDToNode', Unborn', W, Depth)
      /\ In(node, threadIDToNode) \subseteq In(node', threadIDToNode')
      /\ \A m \in In(node, threadIDToNode) : Len(node'[m].childs) >= Len(node[m].childs)
      /\ WaitGood(stack', keepChilds) /\ Waiting(stack', keepChilds) \subseteq W
  BY <1>1, SliceGrows
<1>3. WaitGood(stack, keepChilds)' /\ Waiting(stack, keepChilds)' \subseteq W
  BY <1>1, <1>2
<1>4. QED
  BY <1>1, <1>2, <1>3, SliceKeepsShape

LEMMA SliceGives ==
  ASSUME ShapeInv, LoopInv, NEW type, type \notin Groups, ThreadOnTop(type),
         RunSlice(Top.node), prog' = prog
  PROVE  LET n == Top.node
             h == AfterSlice(n).node
         IN Gave(h, threadIDToNode', Unborn', Waiting(stack, keepChilds), Depth, n,
                 [Adopted(h, h[n].childs, h[n].father) EXCEPT ![n].childs = <<>>])
<1>. DEFINE n == Top.node
            h == AfterSlice(n).node
            W == Waiting(stack, keepChilds)
            N == threadIDToNode'
            U == Unborn'
<1>1. TreeOK(h, N, U, W, Depth) /\ n \in In(h, N)
  BY SliceGrows
<1>2. Depth \in [Owners -> Nat] /\ Depth[Main] = 0
  BY ShapeFacts
<1>. HIDE DEF n, h, W, N, U
<1>3. Gave(h, N, U, W, Depth, n, [Adopted(h, h[n].childs, h[n].father) EXCEPT ![n].childs = <<>>])
  BY ONLY <1>1, <1>2, AdoptedTree
<1>4. QED
  BY <1>3 DEF n, h, W, N, U

LEMMA ExcuteKeepKeepsShape ==
  ASSUME ShapeInv, LoopInv, ExcuteKeep
  PROVE  ShapeInv'
<1>. DEFINE n == Top.node
            h == AfterSlice(n).node
            W == Waiting(stack, keepChilds)
            V == Waiting(stack', keepChilds)
            kids == h[n].childs
            X == W \cup ToSet(kids)
<1>1. /\ ThreadOnTop("keep") /\ "keep" \notin Groups /\ RunSlice(n)
      /\ node' = [Adopted(h, kids, h[n].father) EXCEPT ![n].childs = <<>>]
      /\ keepChilds' = keepChilds \o kids
      /\ UNCHANGED <<prog, stateNum, process>>
  BY DEF ExcuteKeep, Groups
<1>2. Gave(h, threadIDToNode', Unborn', W, Depth, n, node')
  BY <1>1, SliceGives
<1>3. /\ In(node, threadIDToNode) \subseteq In(h, threadIDToNode')
      /\ \A m \in In(node, threadIDToNode) : m \in DOMAIN h /\ Len(h[m].childs) >= Len(node[m].childs)
      /\ WaitGood(stack', keepChilds) /\ V \subseteq W
  BY <1>1, SliceGrows
<1>. HIDE DEF h, W, V, n
<1>4. /\ TreeOK(node', threadIDToNode', Unborn', X, Depth)
      /\ In(node, threadIDToNode) \subseteq In(node', threadIDToNode')
      /\ \A m \in In(node, threadIDToNode) : m # n => Len(node'[m].childs) >= Len(node[m].childs)
      /\ ToSet(kids) \cap W = {} /\ IsInjective(kids) /\ kids \in Seq(Names)
  BY <1>2, <1>3 DEF Gave
<1>. HIDE DEF kids
<1>5. ToSet(kids) \cap V = {}
  BY <1>3, <1>4
<1>6. WaitGood(stack', keepChilds \o kids) /\ Waiting(stack', keepChilds \o kids) \subseteq V \cup ToSet(kids)
  BY <1>3, <1>4, <1>5, MoreWait DEF V
<1>7. WaitGood(stack, keepChilds)' /\ Waiting(stack, keepChilds)' \subseteq X
  BY <1>1, <1>3, <1>6
<1>. HIDE DEF X
<1>8. QED
  BY <1>1, <1>4, <1>7, SliceKeepsShape DEF n

LEMMA ExcuteAlwKeepsShape ==
  ASSUME ShapeInv, LoopInv, ExcuteAlw
  PROVE  ShapeInv'
<1>. DEFINE n == Top.node
            h == AfterSlice(n).node
            W == Waiting(stack, keepChilds)
            V == Waiting(stack', keepChilds)
            N == threadIDToNode'
            U == Unborn'
            kids == h[n].childs
            f == h[n].father
            X == W \cup ToSet(kids)
            g == [Adopted(h, kids, f) EXCEPT ![n].childs = <<>>]
            h1 == [g EXCEPT ![f].childs = @ \o kids]
<1>1. /\ ThreadOnTop("alw") /\ "alw" \notin Groups /\ RunSlice(n)
      /\ node' = (IF kids = <<>> THEN h1 ELSE Lengthened(h1, f))
      /\ keepChilds' = keepChilds
      /\ UNCHANGED <<prog, stateNum, process>>
  BY DEF ExcuteAlw, Groups
<1>2. Gave(h, N, U, W, Depth, n, g)
  BY <1>1, SliceGives
<1>3. /\ In(node, threadIDToNode) \subseteq In(h, N)
      /\ \A m \in In(node, threadIDToNode) :
           m \in DOMAIN h /\ Len(h[m].childs) >= Len(node[m].childs) /\ Len(node[m].childs) \in Nat
      /\ WaitGood(stack', keepChilds) /\ V \subseteq W
  BY <1>1, SliceGrows
<1>4. Depth \in [Owners -> Nat]
  BY ShapeFacts
<1>. HIDE DEF h, W, V, N, U, n, g, f
<1>5. /\ TreeOK(g, N, U, X, Depth) /\ In(g, N) = In(h, N) /\ DOMAIN g = DOMAIN h
      /\ \A m \in DOMAIN h \ {n} : g[m].childs = h[m].childs
      /\ \A k \in ToSet(kids) : g[k].father = f
      /\ ToSet(kids) \cap W = {} /\ IsInjective(kids) /\ kids \in Seq(Names)
      /\ ToSet(kids) \subseteq X /\ X \ ToSet(kids) = W
  BY <1>2 DEF Gave, f
<1>. HIDE DEF kids, X
<1>6. /\ TreeOK(h1, N, U, W, Depth) /\ In(h1, N) = In(g, N) /\ DOMAIN h1 = DOMAIN g
      /\ \A m \in DOMAIN g : Len(h1[m].childs) >= Len(g[m].childs)
  <2>1. /\ TreeOK(h1, N, U, X \ ToSet(kids), Depth) /\ In(h1, N) = In(g, N) /\ DOMAIN h1 = DOMAIN g
        /\ \A m \in DOMAIN g : Len(h1[m].childs) >= Len(g[m].childs)
    <3>1. TreeOK(g, N, U, X, Depth) /\ \A k \in ToSet(kids) : g[k].father = f
      BY <1>5
    <3>2. IsInjective(kids) /\ kids \in Seq(Names) /\ ToSet(kids) \subseteq X
      BY <1>5
    <3>3. HasJoined(g, N, U, X, Depth, kids, h1)
      BY ONLY <1>4, <3>1, <3>2, JoinedTree
    <3>. HIDE DEF h1
    <3>4. QED
      BY <3>3 DEF HasJoined
  <2>. HIDE DEF h1
  <2>2. QED
    BY <1>5, <2>1
<1>. HIDE DEF h1
<1>7. SameShape(h1, node')
  <2>1. HeapTyped(h1)
    BY <1>6 DEF TreeOK
  <2>2. SameShape(h1, h1)
    BY <2>1, SameFields DEF SameShape, HeapTyped
  <2>3. QED
    BY <1>1, <2>1, <2>2, LengthenedSame
<1>8. Shrunk(h1, node') /\ \A m \in DOMAIN h1 : node'[m].childs = h1[m].childs
  BY <1>7, SameIsShrunk
<1>9. TreeOK(node', N, U, W, Depth) /\ In(node', N) = In(h1, N)
  BY <1>6, <1>8, ShrunkTree
<1>10. ASSUME NEW m \in In(node, threadIDToNode), m # n PROVE Len(node'[m].childs) >= Len(node[m].childs)
  <2>1. /\ m \in DOMAIN h /\ m \in DOMAIN g /\ m \in DOMAIN h1
        /\ node'[m].childs = h1[m].childs /\ g[m].childs = h[m].childs
    BY <1>3, <1>5, <1>6, <1>8, <1>10
  <2>2. h1[m].childs \in Seq(Names) /\ h[m].childs \in Seq(Names)
    BY <1>5, <1>6, <2>1, Fields DEF TreeOK
  <2>3. Len(h1[m].childs) \in Nat /\ Len(h[m].childs) \in Nat
    BY <2>2
  <2>4. Len(h1[m].childs) >= Len(h[m].childs) /\ Len(h[m].childs) >= Len(node[m].childs)
        /\ Len(node[m].childs) \in Nat
    BY <1>3, <1>6, <2>1
  <2>5. Len(h1[m].childs) >= Len(node[m].childs)
    BY ONLY <2>3, <2>4
  <2>6. QED
    BY <2>1, <2>5
<1>11. WaitGood(stack, keepChilds)' /\ Waiting(stack, keepChilds)' \subseteq W
  BY <1>1, <1>3 DEF V
<1>12. In(node, threadIDToNode) \subseteq In(node', N)
  BY <1>3, <1>5, <1>6, <1>9
<1>13. QED
  BY <1>1, <1>9, <1>10, <1>11, <1>12, SliceKeepsShape DEF n, N, U

-----------------------------------------------------------------------------
(* The root alone, before the threads of the statement are created.        *)
LEMMA RootAlone ==
  ASSUME NEW type \in Groups, NEW q \in BOOLEAN, NEW U \in SUBSET Threads,
         NEW D \in [Owners -> Nat]
  PROVE  LET h == [n \in {root} |-> NewNode(type, Null, <<>>, q)]
             M == [t \in Owners |-> IF t = Main THEN root ELSE Null]
         IN TreeOK(h, M, U, {}, D) /\ root \in In(h, M)
<1>. DEFINE o == NewNode(type, Null, <<>>, q)
            h == [n \in {root} |-> o]
            M == [t \in Owners |-> IF t = Main THEN root ELSE Null]
<1>1. /\ o \in Objects /\ o.type = type /\ o.father = Null /\ o.childs = <<>>
  <2>1. type \in Types /\ <<>> \in Seq(Names) /\ "more" \in Lengths /\ Null \in Names \cup {Null}
    BY DEF Types, Lengths
  <2>2. o \in {Node(type, Null, <<>>), [Node(type, Null, <<>>) EXCEPT !.hasExtQ = q]}
    BY DEF NewNode, Groups, AndNode, PalNode, PrjNode
  <2>3. /\ Node(type, Null, <<>>) \in Objects
        /\ Node(type, Null, <<>>).type = type /\ Node(type, Null, <<>>).father = Null
        /\ Node(type, Null, <<>>).childs = <<>>
    BY <2>1 DEF Node, Objects
  <2>. DEFINE x == Node(type, Null, <<>>)
  <2>. HIDE DEF x, o
  <2>4. \A y \in Objects : LET z == [y EXCEPT !.hasExtQ = q]
                         IN z \in Objects /\ z.type = y.type /\ z.father = y.father /\ z.childs = y.childs
    BY DEF Objects
  <2>5. x \in Objects /\ x.type = type /\ x.father = Null /\ x.childs = <<>>
    BY <2>3 DEF x
  <2>6. o \in {x, [x EXCEPT !.hasExtQ = q]}
    BY <2>2 DEF x
  <2>7. QED
    BY <2>4, <2>5, <2>6
<1>2. /\ root \in Names /\ Thread(root) = Main /\ root[2] = 0 /\ Main \in Owners /\ Main \notin U
      /\ Null \notin Names
  BY ProgramsAssumption, NullIsNoName DEF root, Names, Thread, Owners
<1>3. ToSet(<<>>) = {} /\ IsInjective(<<>>)
  <2>1. DOMAIN <<>> = {}
    OBVIOUS
  <2>2. QED
    BY <2>1 DEF ToSet, IsInjective
<1>. HIDE DEF o
<1>4. DOMAIN h = {root} /\ h[root] = o /\ M \in [Owners -> Names \cup {Null}] /\ M[Main] = root
      /\ \A t \in Owners : M[t] # Null => t = Main
  BY <1>2
<1>. HIDE DEF h, M
<1>5. In(h, M) = {root}
  BY <1>2, <1>4 DEF In
<1>6. HeapTyped(h) /\ MapTyped(h, M)
  BY <1>1, <1>2, <1>4 DEF HeapTyped, MapTyped
<1>7. Joined(h, M) /\ Held(h, M)
  BY <1>1, <1>3, <1>4, <1>5 DEF Joined, Held
<1>8. Deep(h, D) /\ Climbs(h, D) /\ Apart(h, M, {})
  BY <1>1, <1>3, <1>4 DEF Deep, Climbs, Apart
<1>9. AllNamed(h, M, U)
  <2>1. Named(root, M, U)
    BY <1>2, <1>4 DEF Named
  <2>2. QED
    BY <1>1, <1>3, <1>4, <2>1 DEF AllNamed
<1>10. RootStays(h, M)
  BY <1>1, <1>4 DEF RootStays
<1>11. QED
  BY <1>5, <1>6, <1>7, <1>8, <1>9, <1>10 DEF TreeOK, h, M, o

(* What the threads of a program create, and when.                         *)
LEMMA NoneRun ==
  ASSUME prog \in Programs, todo = prog.code
  PROVE  TodoOK /\ Unborn \cap ToSet(prog.top) = {}
<1>1. prog.code \in [Threads -> Seq(Slices)] /\ CreatedOnce(prog) /\ Deepens(prog, Depth)
  <2>1. prog.code \in [Threads -> Seq(Slices)] /\ CreatedOnce(prog)
    BY ProgramsAssumption
  <2>2. QED
    BY <2>1, DepthGrows
<1>2. \A t \in Threads : \A i \in DOMAIN todo[t] : Kids(t, i) \subseteq Created(prog, t)
  BY DEF Kids, Created
<1>3. \A t \in Threads : \A i \in DOMAIN todo[t] :
        IsInjective(todo[t][i].kids) /\ \A c \in Kids(t, i) : Depth[t] < Depth[c]
  BY <1>1, <1>2 DEF CreatedOnce, Deepens
<1>4. ASSUME NEW t \in Threads, NEW u \in Threads, NEW i \in DOMAIN todo[t], NEW j \in DOMAIN todo[u],
             t # u \/ i # j
      PROVE  Kids(t, i) \cap Kids(u, j) = {}
  <2>1. CASE t # u
    <3>1. Created(prog, t) \cap Created(prog, u) = {}
      BY <1>1, <2>1 DEF CreatedOnce
    <3>2. QED
      BY <1>2, <3>1
  <2>2. CASE t = u
    BY <1>1, <1>4, <2>2 DEF CreatedOnce, Kids
  <2>3. QED
    BY <2>1, <2>2
<1>5. TodoOK
  BY <1>1, <1>3, <1>4 DEF TodoOK
<1>6. Unborn \cap ToSet(prog.top) = {}
  BY <1>1, <1>2 DEF Unborn, CreatedOnce
<1>7. QED
  BY <1>5, <1>6

LEMMA ShapeInvInit == Init => ShapeInv
<1>. SUFFICES ASSUME Init PROVE ShapeInv
  OBVIOUS
<1>. DEFINE top == prog.top
            U == Unborn \cup ToSet(top)
            M == [t \in Owners |-> IF t = Main THEN root ELSE Null]
            h(q) == [n \in {root} |-> NewNode(prog.type, Null, <<>>, q)]
<1>1. prog \in Programs /\ todo = prog.code
  BY DEF Init
<1>2. TodoOK /\ Unborn \cap ToSet(top) = {}
  BY <1>1, NoneRun
<1>3. /\ prog.type \in Groups /\ top \in Seq(Threads) /\ IsInjective(top) /\ ToSet(top) \subseteq Threads
      /\ \A t \in Threads : Depth[t] > 0
  <2>1. prog.type \in Groups /\ top \in Seq(Threads) /\ CreatedOnce(prog)
    BY <1>1, ProgramsAssumption
  <2>2. ToSet(top) \subseteq Threads
    BY <2>1 DEF ToSet
  <2>3. QED
    BY <1>1, <2>1, <2>2, DepthGrows DEF CreatedOnce, Deepens
<1>4. Depth \in [Owners -> Nat] /\ Depth[Main] = 0 /\ Thread(root) = Main
  BY <1>1, DepthGrows DEF Thread, root
<1>5. U \in SUBSET Threads
  BY <1>2, <1>3, UnbornAreThreads
<1>6. PICK q \in BOOLEAN : node = AddLeaves(h(q), root, top)
  BY DEF Init
<1>7. TreeOK(h(q), M, U, {}, Depth) /\ root \in In(h(q), M)
  BY <1>3, <1>4, <1>5, RootAlone
<1>8. threadIDToNode = Mapped(M, top)
  <2>1. threadIDToNode = [t \in Owners |-> IF t \in ToSet(top) \cup {Main} THEN <<t, 0>> ELSE Null]
    BY DEF Init, Owners
  <2>2. Main \notin ToSet(top) /\ root = <<Main, 0>>
    BY <1>3, ProgramsAssumption DEF root
  <2>3. QED
    BY <2>1, <2>2 DEF Mapped
<1>9. TreeOK(node, threadIDToNode, U \ ToSet(top), {}, Depth) /\ root \in In(node, threadIDToNode)
  <2>. DEFINE g == h(q)
              nobody == {}
  <2>1. ToSet(top) \subseteq U /\ \A t \in ToSet(top) : Depth[Thread(root)] < Depth[t]
    BY <1>3, <1>4
  <2>2. TreeOK(g, M, U, nobody, Depth) /\ root \in In(g, M)
    BY <1>7
  <2>. HIDE DEF g, nobody, M, U, top
  <2>3. TreeOK(AddLeaves(g, root, top), Mapped(M, top), U \ ToSet(top), nobody, Depth)
        /\ Grown(g, M, AddLeaves(g, root, top), Mapped(M, top))
    BY ONLY <1>3, <1>4, <1>5, <2>1, <2>2, AddedTree
  <2>4. node = AddLeaves(g, root, top)
    BY <1>6 DEF g
  <2>5. QED
    BY <1>8, <2>2, <2>3, <2>4 DEF Grown, nobody
<1>10. Unborn \subseteq U \ ToSet(top)
  BY <1>2
<1>11. TreeOK(node, threadIDToNode, Unborn, {}, Depth)
  <2>1. {} \in SUBSET {}
    OBVIOUS
  <2>. HIDE DEF U, top
  <2>2. QED
    BY <1>9, <1>10, <2>1, FewerTree
<1>12. stack = <<Frame("round", Null, 0)>> /\ keepChilds = <<>>
  BY DEF Init, Frame
<1>13. WaitGood(stack, keepChilds) /\ Waiting(stack, keepChilds) = {}
  <2>1. <<>> \in Seq(Names) /\ \A k \in 1 .. Len(<<>>) : FALSE
    OBVIOUS
  <2>2. Index(stack, <<>>) = {}
    BY <2>1 DEF Index
  <2>3. WaitGood(stack, <<>>) /\ Waiting(stack, <<>>) = {}
    BY <2>1, <2>2 DEF WaitGood, Waiting
  <2>4. QED
    BY <1>12, <2>3
<1>14. StackOK
  <2>. DEFINE x == Frame("round", Null, 0)
  <2>1. ~Walks(x) /\ x.op # "keeps"
    BY DEF Frame, Walks
  <2>. HIDE DEF x
  <2>2. stack = <<x>> /\ Len(<<x>>) = 1 /\ <<x>>[1] = x
    BY <1>12 DEF x
  <2>3. \A j \in 1 .. Len(stack) : ~Walks(stack[j]) /\ stack[j].op # "keeps"
    BY <2>1, <2>2
  <2>4. QED
    BY <2>3 DEF StackOK, StackGood
<1>15. GlobalsOK
  BY ProgramsAssumption DEF Init, GlobalsOK
<1>16. RootThere
  BY <1>9 DEF RootThere, In
<1>17. TreeOK(node, threadIDToNode, Unborn, Waiting(stack, keepChilds), Depth)
  BY <1>11, <1>13
<1>18. QED
  BY <1>2, <1>13, <1>14, <1>15, <1>16, <1>17 DEF ShapeInv

LEMMA ShapeInvStep == ShapeInv /\ LoopInv /\ [Next]_vars => ShapeInv'
<1>. SUFFICES ASSUME ShapeInv, LoopInv, [Next]_vars PROVE ShapeInv'
  OBVIOUS
<1>1. CASE ExcuteLeaf
  BY <1>1, ExcuteLeafKeepsShape
<1>2. CASE ExcuteKeep
  BY <1>2, ExcuteKeepKeepsShape
<1>3. CASE ExcuteAlw
  BY <1>3, ExcuteAlwKeepsShape
<1>4. CASE ExcuteNothing \/ ExcuteEnded \/ ExcuteGroup
  BY <1>4, ExcuteKeepsShape
<1>5. CASE Childs \/ Child \/ Prj \/ PrjRenewP \/ PrjPRuns \/ PrjRanQ
  BY <1>5, WalkKeepsShape
<1>6. CASE PrjNextP
  BY <1>6, PrjNextPKeepsShape
<1>7. CASE PrjQ
  BY <1>7, PrjQKeepsShape
<1>8. CASE UpdateNothing \/ UpdateNodeRenews
  BY <1>8, UpdateKeepsShape
<1>9. CASE KeepChildDropped \/ KeepChildJoins \/ KeepsDone
  BY <1>9, KeepsKeepShape
<1>10. CASE Round \/ Reset \/ Sort \/ Sorted \/ Take \/ UpdateChanged \/ Unchanged \/ Taken
  BY <1>10, LoopKeepsShape
<1>11. CASE StateEnds
  BY <1>11, StateEndsKeepsShape
<1>12. CASE DeleteRoot
  BY <1>12, DeleteRootKeepsShape
<1>13. CASE ExitAtOutput \/ Finished \/ UNCHANGED vars
  BY <1>13, EndsKeepShape
<1>14. QED
  BY <1>1, <1>2, <1>3, <1>4, <1>5, <1>6, <1>7, <1>8, <1>9, <1>10, <1>11, <1>12, <1>13 DEF Next

(* The tree holds together in every state of every run.                    *)
THEOREM ShapeIsKept == Spec => [](ShapeInv /\ LoopInv)
<1>1. Init => ShapeInv /\ LoopInv
  BY ShapeInvInit, LoopInvInit
<1>2. ShapeInv /\ LoopInv /\ [Next]_vars => (ShapeInv /\ LoopInv)'
  BY ShapeInvStep, LoopInvStep
<1>3. QED
  BY <1>1, <1>2, PTL DEF Spec

(* Every object below the root is the node of its thread in                *)
(* threadIDToNode, the father of each of its children, and has none twice. *)
THEOREM TreeKeepsItsShape == Spec => []TreeShape
<1>1. ShapeInv => TreeShape
  <2>. SUFFICES ASSUME ShapeInv, root \in DOMAIN node, NEW n \in Below[root]
                PROVE  /\ Current(n)
                       /\ \A c \in ToSet(node[n].childs) : node[c].father = n
                       /\ IsInjective(node[n].childs)
    BY DEF TreeShape
  <2>1. /\ TreeOK(node, threadIDToNode, Unborn, Waiting(stack, keepChilds), Depth)
        /\ Present = In(node, threadIDToNode)
        /\ Levels \in Nat /\ Depth \in [Owners -> 0 .. Levels]
    BY ShapeFacts
  <2>2. root \in Present
    <3>1. Thread(root) = Main
      BY DEF root, Thread
    <3>2. threadIDToNode[Main] = root
      BY <2>1, <3>1 DEF TreeOK, RootStays
    <3>3. QED
      BY <2>1, <3>1, <3>2 DEF In
  <2>3. BelowGood(root, Waiting(stack, keepChilds), Depth)
    BY <2>1, <2>2, BelowTree
  <2>4. n \in Present
    BY <2>3 DEF BelowGood
  <2>5. QED
    BY <2>1, <2>4 DEF Present, TreeOK, Joined
<1>2. QED
  BY <1>1, ShapeIsKept, PTL

(* Each object keeps its type; the globals hold threads and nodes.         *)
THEOREM TypesAreKept == Spec => []TypeOK
<1>1. ShapeInv => TypeOK
  BY ShapeFacts DEF ShapeInv, TypeOK, HeapTyped, WaitGood, GlobalsOK
<1>2. QED
  BY <1>1, ShapeIsKept, PTL

(* While AndNode, PalNode and PrjNode::excute go through their children,   *)
(* the object they are about stays the node of its thread and the place    *)
(* they are at stays within the children, although what they execute       *)
(* renews and deletes objects and adds children.                           *)
WalksAreSafe ==
  \A j \in 1 .. Len(stack) : Walks(stack[j]) => WalkOK(stack[j], node, threadIDToNode)

THEOREM WalksStaySafe == Spec => []WalksAreSafe
<1>1. ShapeInv => WalksAreSafe
  BY DEF ShapeInv, StackOK, StackGood, WalksAreSafe
<1>2. QED
  BY <1>1, ShapeIsKept, PTL
=============================================================================
