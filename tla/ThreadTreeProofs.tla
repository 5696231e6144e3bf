-------------------------- MODULE ThreadTreeProofs --------------------------
(***************************************************************************)
(* Theorems about ThreadTree, for any programs.                            *)
(***************************************************************************)
EXTENDS ThreadTreeLemmas

-----------------------------------------------------------------------------
(***************************************************************************)
(* The manager's stack.  Its last frame is the loop of ManagerThread, the  *)
(* frames above it are calls made from there; what survives to the end of  *)
(* a state depends on the loop alone.                                      *)
(***************************************************************************)
LoopOps == {"round", "reset", "sort", "sorted", "take", "changed", "taken"}
InLoop(frame) == frame.op \in LoopOps

IsSeq == stack \in Seq(ToSet(stack))
LoopIsLast == \A i \in 1 .. Len(stack) : InLoop(stack[i]) <=> i = Len(stack)
Alone(frame) == frame.op \in {"round", "take"}
AloneIsAlone == \A i \in 1 .. Len(stack) : Alone(stack[i]) => Len(stack) = 1
StackShape == IsSeq /\ LoopIsLast /\ AloneIsAlone

(* prsnt and prjNode are used up before the loop goes on.                  *)
NoneLeft ==
  /\ stack = <<>> => prsnt = <<>> /\ keepChilds = <<>> /\ prjNode = Null
  /\ At("round") => prsnt = <<>> /\ keepChilds = <<>> /\ prjNode = Null
  /\ At("take") => prjNode = Null

LoopInv == StackShape /\ NoneLeft

LEMMA SeqOfItsRange ==
  ASSUME NEW S, NEW s \in Seq(S)
  PROVE  s \in Seq(ToSet(s))
<1>1. s \in [1 .. Len(s) -> ToSet(s)] /\ Len(s) \in Nat
  BY DEF ToSet
<1>2. QED
  BY <1>1

(* What frames on top of the rest of the stack make of it.                 *)
LEMMA Pushed ==
  ASSUME NEW F, NEW frames \in Seq(F), NEW S, NEW s \in Seq(S), s # <<>>
  PROVE  LET new == frames \o Tail(s)
             k == Len(frames)
         IN /\ new \in Seq(ToSet(new))
            /\ k \in Nat /\ Len(s) \in Nat /\ Len(s) > 0 /\ Head(s) = s[1]
            /\ Len(new) = k + Len(s) - 1
            /\ \A i \in 1 .. k : new[i] = frames[i]
            /\ \A i \in k + 1 .. Len(new) : new[i] = s[i - k + 1]
<1>. DEFINE new == frames \o Tail(s)
<1>1. Tail(s) \in Seq(S) /\ Len(Tail(s)) = Len(s) - 1 /\ Len(s) \in Nat /\ Len(s) > 0
  OBVIOUS
<1>2. Tail(s) \in Seq(F \cup S) /\ frames \in Seq(F \cup S)
  BY <1>1
<1>3. new \in Seq(F \cup S)
  BY <1>2
<1>4. new \in Seq(ToSet(new))
  BY <1>3, SeqOfItsRange
<1>5. \A i \in 1 .. Len(Tail(s)) : Tail(s)[i] = s[i + 1]
  OBVIOUS
<1>6. \A i \in 1 .. Len(frames) : new[i] = frames[i]
  BY <1>2
<1>7. Len(new) = Len(frames) + Len(Tail(s))
  BY <1>2
<1>8. ASSUME NEW i \in Len(frames) + 1 .. Len(new) PROVE new[i] = s[i - Len(frames) + 1]
  <2>1. new[i] = Tail(s)[i - Len(frames)]
    BY <1>2, <1>7, <1>8
  <2>2. QED
    BY <1>1, <1>5, <1>7, <2>1
<1>9. QED
  BY <1>1, <1>4, <1>6, <1>7, <1>8

(* A call returns, or makes calls of its own.                              *)
LEMMA AboveLoop ==
  ASSUME StackShape, stack # <<>>, ~InLoop(Head(stack)),
         NEW F, NEW frames \in Seq(F), \A i \in 1 .. Len(frames) : ~InLoop(frames[i]),
         Do(frames)
  PROVE  StackShape' /\ stack' # <<>> /\ ~At("round")' /\ ~At("take")'
<1>. DEFINE k == Len(frames)
            n == Len(stack)
<1>1. /\ IsSeq'
      /\ k \in Nat /\ n \in Nat /\ n > 0 /\ Head(stack) = stack[1]
      /\ Len(stack') = k + n - 1
      /\ \A i \in 1 .. k : stack'[i] = frames[i]
      /\ \A i \in k + 1 .. Len(stack') : stack'[i] = stack[i - k + 1]
  BY Pushed DEF Do, StackShape, IsSeq
<1>2. n > 1
  <2>0. n \in Nat /\ n > 0
    BY <1>1
  <2>1. n = 1 \/ n > 1
    <3>1. \A m \in Nat : m > 0 => m = 1 \/ m > 1
      OBVIOUS
    <3>2. QED
      BY ONLY <2>0, <3>1
  <2>2. ASSUME n = 1 PROVE FALSE
    <3>1. 1 \in 1 .. Len(stack) /\ 1 = Len(stack)
      BY <2>2
    <3>2. ~InLoop(stack[1])
      BY <1>1
    <3>3. QED
      BY <3>1, <3>2 DEF StackShape, LoopIsLast
  <2>3. QED
    BY <2>1, <2>2
<1>3. ASSUME NEW i \in 1 .. Len(stack') PROVE InLoop(stack'[i]) <=> i = Len(stack')
  <2>1. CASE i <= k
    <3>1. i \in 1 .. k /\ i # Len(stack')
      BY <1>1, <1>2, <2>1
    <3>2. QED
      BY <1>1, <3>1
  <2>2. CASE i > k
    <3>1. i \in k + 1 .. Len(stack') /\ i - k + 1 \in 1 .. n /\ (i - k + 1 = n <=> i = Len(stack'))
      BY <1>1, <1>2, <2>2
    <3>2. stack'[i] = stack[i - k + 1]
      BY <1>1, <3>1
    <3>3. InLoop(stack[i - k + 1]) <=> i - k + 1 = n
      BY <3>1 DEF StackShape, LoopIsLast
    <3>4. QED
      BY <3>1, <3>2, <3>3
  <2>3. QED
    BY <1>1, <2>1, <2>2
<1>4. ASSUME NEW i \in 1 .. Len(stack') PROVE ~Alone(stack'[i])
  <2>1. CASE i <= k
    <3>1. i \in 1 .. k
      BY <1>1, <2>1
    <3>2. ~InLoop(stack'[i])
      BY <1>1, <3>1
    <3>3. QED
      BY <3>2 DEF InLoop, Alone, LoopOps
  <2>2. CASE i > k
    <3>1. i \in k + 1 .. Len(stack') /\ i - k + 1 \in 1 .. n
      BY <1>1, <1>2, <2>2
    <3>2. stack'[i] = stack[i - k + 1]
      BY <1>1, <3>1
    <3>3. Alone(stack[i - k + 1]) => n = 1
      BY <3>1 DEF StackShape, AloneIsAlone
    <3>4. n # 1
      BY <1>1, <1>2
    <3>5. QED
      BY <3>2, <3>3, <3>4
  <2>3. QED
    BY <1>1, <2>1, <2>2
<1>5. LoopIsLast'
  BY <1>3 DEF LoopIsLast
<1>6. AloneIsAlone'
  BY <1>4 DEF AloneIsAlone
<1>7. 1 \in 1 .. Len(stack') /\ stack' # <<>>
  BY <1>1, <1>2
<1>8. Head(stack') = stack'[1]
  BY <1>1, <1>7 DEF IsSeq
<1>9. ~Alone(Head(stack'))
  BY <1>4, <1>7, <1>8
<1>10. ~At("round")' /\ ~At("take")'
  BY <1>9 DEF At, Alone
<1>11. QED
  BY <1>1, <1>5, <1>6, <1>7, <1>10 DEF StackShape

(* The loop goes on, perhaps with a call.                                  *)
LEMMA LoopStep ==
  ASSUME StackShape, stack # <<>>, InLoop(Head(stack)), NEW frames, Do(frames)
  PROVE  stack' = frames \o <<>>
<1>1. Len(stack) \in Nat /\ Len(stack) > 0 /\ Head(stack) = stack[1] /\ 1 \in 1 .. Len(stack)
  BY DEF StackShape, IsSeq
<1>2. InLoop(stack[1])
  BY <1>1
<1>3. Len(stack) = 1
  BY <1>1, <1>2 DEF StackShape, LoopIsLast
<1>4. Tail(stack) = <<>>
  <2>1. stack \in Seq(ToSet(stack))
    BY DEF StackShape, IsSeq
  <2>2. Tail(stack) \in Seq(ToSet(stack)) /\ Len(Tail(stack)) = 0
    BY <1>3, <2>1, HeadTailProperties
  <2>3. QED
    BY <2>2, EmptySeq
<1>5. QED
  BY <1>4 DEF Do

LEMMA LoopStack ==
  ASSUME NEW F, NEW frames \in Seq(F), stack' = frames \o <<>>,
         \A i \in 1 .. Len(frames) :
           (InLoop(frames[i]) <=> i = Len(frames)) /\ (Alone(frames[i]) => Len(frames) = 1)
  PROVE  StackShape' /\ stack' = frames
<1>1. stack' = frames
  OBVIOUS
<1>2. frames \in Seq(ToSet(frames))
  BY SeqOfItsRange
<1>3. QED
  BY <1>1, <1>2 DEF StackShape, IsSeq, LoopIsLast, AloneIsAlone

(* The loop's frame, under no call, one or two.                            *)
LEMMA LoopFrames ==
  ASSUME NEW x, InLoop(x)
  PROVE  /\ stack' = <<x>> \o <<>> => StackShape' /\ stack' = <<x>>
         /\ \A y : ~InLoop(y) /\ ~Alone(x) /\ stack' = <<y, x>> \o <<>> => StackShape' /\ stack' = <<y, x>>
         /\ \A y, z : ~InLoop(y) /\ ~InLoop(z) /\ ~Alone(x) /\ stack' = <<y, z, x>> \o <<>>
                       => StackShape' /\ stack' = <<y, z, x>>
<1>1. ASSUME stack' = <<x>> \o <<>> PROVE StackShape' /\ stack' = <<x>>
  <2>1. <<x>> \in Seq({x}) /\ Len(<<x>>) = 1 /\ <<x>>[1] = x
    OBVIOUS
  <2>2. \A i \in 1 .. Len(<<x>>) :
          (InLoop(<<x>>[i]) <=> i = Len(<<x>>)) /\ (Alone(<<x>>[i]) => Len(<<x>>) = 1)
    BY <2>1
  <2>3. QED
    BY <1>1, <2>1, <2>2, LoopStack
<1>2. ASSUME NEW y, ~InLoop(y), ~Alone(x), stack' = <<y, x>> \o <<>>
      PROVE  StackShape' /\ stack' = <<y, x>>
  <2>1. ~Alone(y)
    BY <1>2 DEF Alone, InLoop, LoopOps
  <2>2. <<y, x>> \in Seq({y, x}) /\ Len(<<y, x>>) = 2 /\ <<y, x>>[1] = y /\ <<y, x>>[2] = x
    OBVIOUS
  <2>3. \A i \in 1 .. Len(<<y, x>>) : (InLoop(<<y, x>>[i]) <=> i = Len(<<y, x>>)) /\ ~Alone(<<y, x>>[i])
    <3>1. SUFFICES ASSUME NEW i \in 1 .. 2
                   PROVE  (InLoop(<<y, x>>[i]) <=> i = 2) /\ ~Alone(<<y, x>>[i])
      BY <2>2
    <3>2. i = 1 \/ i = 2
      OBVIOUS
    <3>3. CASE i = 1
      BY <1>2, <2>1, <2>2, <3>3
    <3>4. CASE i = 2
      BY <1>2, <2>2, <3>4
    <3>5. QED
      BY <3>2, <3>3, <3>4
  <2>4. QED
    BY <1>2, <2>2, <2>3, LoopStack
<1>3. ASSUME NEW y, NEW z, ~InLoop(y), ~InLoop(z), ~Alone(x), stack' = <<y, z, x>> \o <<>>
      PROVE  StackShape' /\ stack' = <<y, z, x>>
  <2>1. ~Alone(y) /\ ~Alone(z)
    BY <1>3 DEF Alone, InLoop, LoopOps
  <2>2. /\ <<y, z, x>> \in Seq({y, z, x}) /\ Len(<<y, z, x>>) = 3
        /\ <<y, z, x>>[1] = y /\ <<y, z, x>>[2] = z /\ <<y, z, x>>[3] = x
    OBVIOUS
  <2>3. \A i \in 1 .. Len(<<y, z, x>>) :
          (InLoop(<<y, z, x>>[i]) <=> i = Len(<<y, z, x>>)) /\ ~Alone(<<y, z, x>>[i])
    <3>1. SUFFICES ASSUME NEW i \in 1 .. 3
                   PROVE  (InLoop(<<y, z, x>>[i]) <=> i = 3) /\ ~Alone(<<y, z, x>>[i])
      BY <2>2
    <3>2. i = 1 \/ i = 2 \/ i = 3
      OBVIOUS
    <3>3. CASE i = 1
      BY <1>3, <2>1, <2>2, <3>3
    <3>4. CASE i = 2
      BY <1>3, <2>1, <2>2, <3>4
    <3>5. CASE i = 3
      BY <1>3, <2>2, <3>5
    <3>6. QED
      BY <3>2, <3>3, <3>4, <3>5
  <2>4. QED
    BY <1>3, <2>2, <2>3, LoopStack
<1>4. QED
  BY <1>1, <1>2, <1>3

-----------------------------------------------------------------------------
LEMMA LoopInvInit == Init => LoopInv
<1>. SUFFICES ASSUME Init PROVE LoopInv
  OBVIOUS
<1>. DEFINE x == [op |-> "round", node |-> Null, i |-> 0]
<1>1. stack = <<x>> /\ prsnt = <<>> /\ keepChilds = <<>> /\ prjNode = Null
  BY DEF Init
<1>2. InLoop(x)
  BY DEF InLoop, LoopOps
<1>3. Len(stack) = 1 /\ stack \in Seq({x}) /\ stack # <<>> /\ \A i \in 1 .. 1 : stack[i] = x
  BY <1>1
<1>4. StackShape
  BY <1>2, <1>3, SeqOfItsRange DEF StackShape, IsSeq, LoopIsLast, AloneIsAlone
<1>5. QED
  BY <1>1, <1>3, <1>4 DEF LoopInv, NoneLeft

(* A step within a call changes nothing NoneLeft speaks of.                *)
LEMMA CallsKeepLoopInv ==
  ASSUME LoopInv,
         \/ ExcuteLeaf \/ ExcuteKeep \/ ExcuteAlw \/ ExcuteNothing \/ ExcuteEnded \/ ExcuteGroup
         \/ Childs \/ Child
         \/ Prj \/ PrjRenewP \/ PrjNextP \/ PrjPRuns \/ PrjQ \/ PrjRanQ
         \/ UpdateNothing \/ UpdateNodeRenews
         \/ KeepChildDropped \/ KeepChildJoins \/ KeepsDone \/ Unchanged
  PROVE  LoopInv'
<1>. DEFINE Calls == {"excute", "childs", "child", "prj", "prjp", "prjq", "prjran",
                      "update", "keeps", "unchanged"}
            Call(frame) == frame.op \in Calls
<1>1. \A frame : Call(frame) => ~InLoop(frame)
  BY DEF InLoop, LoopOps
<1>. DEFINE Goes(frames) == Do(frames) /\ \A i \in 1 .. Len(frames) : ~InLoop(frames[i])
<1>2. ASSUME stack # <<>>, Call(Head(stack)),
             \E F : \E frames \in Seq(F) : Goes(frames)
      PROVE  LoopInv'
  <2>0. PICK F : \E frames \in Seq(F) : Goes(frames)
    BY <1>2
  <2>1. PICK frames \in Seq(F) : Goes(frames)
    BY <2>0
  <2>2. StackShape /\ ~InLoop(Head(stack))
    BY <1>1, <1>2 DEF LoopInv
  <2>3. StackShape' /\ stack' # <<>> /\ ~At("round")' /\ ~At("take")'
    BY <1>2, <2>1, <2>2, AboveLoop
  <2>4. QED
    BY <2>3 DEF LoopInv, NoneLeft
<1>. HIDE DEF Goes
<1>3. Do(<<>>) => \E F : \E frames \in Seq(F) : Goes(frames)
  <2>1. <<>> \in Seq({}) /\ (Do(<<>>) => Goes(<<>>))
    BY DEF Goes
  <2>2. QED
    BY <2>1
<1>4. ASSUME NEW x, Call(x), Do(<<x>>) PROVE \E F : \E frames \in Seq(F) : Goes(frames)
  <2>1. <<x>> \in Seq({x}) /\ \A i \in 1 .. Len(<<x>>) : <<x>>[i] = x
    OBVIOUS
  <2>2. Goes(<<x>>)
    BY <1>1, <1>4, <2>1 DEF Goes
  <2>3. QED
    BY <2>1, <2>2
<1>5. ASSUME NEW x, NEW y, Call(x), Call(y), Do(<<x, y>>)
      PROVE  \E F : \E frames \in Seq(F) : Goes(frames)
  <2>1. <<x, y>> \in Seq({x, y}) /\ \A i \in 1 .. Len(<<x, y>>) : <<x, y>>[i] \in {x, y}
    OBVIOUS
  <2>2. \A i \in 1 .. Len(<<x, y>>) : ~InLoop(<<x, y>>[i])
    BY <1>1, <1>5, <2>1
  <2>3. Goes(<<x, y>>)
    BY <1>5, <2>2 DEF Goes
  <2>4. QED
    BY <2>1, <2>3
<1>6. ASSUME NEW x, NEW y, NEW z, NEW w, Call(x), Call(y), Call(z), Call(w), Do(<<x, y, z, w>>)
      PROVE  \E F : \E frames \in Seq(F) : Goes(frames)
  <2>1. <<x, y, z, w>> \in Seq({x, y, z, w})
        /\ \A i \in 1 .. Len(<<x, y, z, w>>) : <<x, y, z, w>>[i] \in {x, y, z, w}
    OBVIOUS
  <2>2. \A i \in 1 .. Len(<<x, y, z, w>>) : ~InLoop(<<x, y, z, w>>[i])
    BY <1>1, <1>6, <2>1
  <2>3. Goes(<<x, y, z, w>>)
    BY <1>6, <2>2 DEF Goes
  <2>4. QED
    BY <2>1, <2>3
<1>7. /\ \A n : Call(Excute(n)) /\ Call(UpdateNode(n))
      /\ \A op \in Calls : \A n, i : Call(Frame(op, n, i))
      /\ \A op \in Calls : At(op) => stack # <<>> /\ Call(Head(stack))
  BY DEF Excute, UpdateNode, Frame, At
<1>. HIDE DEF Call
<1>8. CASE ExcuteLeaf \/ ExcuteKeep \/ ExcuteAlw
  <2>1. At("excute") /\ Do(<<>>)
    BY <1>8 DEF ExcuteLeaf, ExcuteKeep, ExcuteAlw, ThreadOnTop, RunSlice, Pop
  <2>2. QED
    BY <1>2, <1>3, <1>7, <2>1
<1>9. CASE ExcuteNothing \/ ExcuteEnded
  <2>1. At("excute") /\ Do(<<>>)
    BY <1>9 DEF ExcuteNothing, ExcuteEnded, GroupOnTop, Pop
  <2>2. QED
    BY <1>2, <1>3, <1>7, <2>1
<1>10. CASE ExcuteGroup
  <2>1. At("excute")
        /\ \/ Do(<<Frame("prj", Top.node, 0)>>)
           \/ Do(<<Frame("childs", Top.node, 1)>>)
    BY <1>10 DEF ExcuteGroup, GroupOnTop
  <2>2. QED
    BY <1>2, <1>4, <1>7, <2>1
<1>11. CASE Childs
  <2>1. At("childs")
        /\ \/ Do(<<>>)
           \/ Do(<<Excute(node[Top.node].childs[Top.i]), Frame("child", Top.node, Top.i)>>)
    BY <1>11 DEF Childs
  <2>2. QED
    BY <1>2, <1>3, <1>5, <1>7, <2>1
<1>12. CASE Child
  <2>1. At("child")
        /\ \/ Do(<<Frame("childs", Top.node, Top.i)>>)
           \/ Do(<<Frame("childs", Top.node, Top.i + 1)>>)
    BY <1>12 DEF Child
  <2>2. QED
    BY <1>2, <1>4, <1>7, <2>1
<1>13. CASE Prj
  <2>1. At("prj")
        /\ \/ Do(<<Frame("prjq", Top.node, 0)>>)
           \/ Do(<<Excute(node[Top.node].childs[2]), Frame("prjp", Top.node, 0)>>)
    BY <1>13 DEF Prj
  <2>2. QED
    BY <1>2, <1>4, <1>5, <1>7, <2>1
<1>14. CASE PrjRenewP
  <2>1. At("prjp") /\ Do(<<Excute(Successor(CurrentP)), Frame("prjp", Top.node, 0)>>)
    BY <1>14 DEF PrjRenewP
  <2>2. QED
    BY <1>2, <1>5, <1>7, <2>1
<1>15. CASE PrjNextP
  <2>1. At("prjp")
        /\ \/ Do(<<Frame("prjq", Top.node, 0)>>)
           \/ Do(<<Excute(RemoveAt(node[Top.node].childs, 2)[2]), Frame("prjp", Top.node, 0)>>)
    BY <1>15 DEF PrjNextP
  <2>2. QED
    BY <1>2, <1>4, <1>5, <1>7, <2>1
<1>16. CASE PrjPRuns
  <2>1. At("prjp") /\ Do(<<Frame("prjq", Top.node, 0)>>)
    BY <1>16 DEF PrjPRuns
  <2>2. QED
    BY <1>2, <1>4, <1>7, <2>1
<1>17. CASE PrjQ
  <2>1. At("prjq")
        /\ \/ Do(<<>>)
           \/ Do(<<Excute(node[Top.node].childs[1]), Frame("prjran", Top.node, 0)>>)
    BY <1>17 DEF PrjQ
  <2>2. QED
    BY <1>2, <1>3, <1>5, <1>7, <2>1
<1>18. CASE PrjRanQ
  <2>1. At("prjran")
        /\ \/ Do(<<>>)
           \/ Do(<<Excute(Successor(node[Top.node].childs[1])), Frame("prjran", Top.node, 0)>>)
    BY <1>18 DEF PrjRanQ, Pop
  <2>2. QED
    BY <1>2, <1>3, <1>5, <1>7, <2>1
<1>19. CASE UpdateNothing \/ KeepsDone \/ Unchanged
  <2>1. (At("update") \/ At("keeps") \/ At("unchanged")) /\ Do(<<>>)
    BY <1>19 DEF UpdateNothing, KeepsDone, Unchanged, Pop
  <2>2. QED
    BY <1>2, <1>3, <1>7, <2>1
<1>20. CASE UpdateNodeRenews
  <2>1. At("update") /\ Do(<<Excute(Successor(Top.node)), UpdateNode(Successor(Top.node))>>)
    BY <1>20 DEF UpdateNodeRenews
  <2>2. QED
    BY <1>2, <1>5, <1>7, <2>1
<1>21. CASE KeepChildDropped
  <2>1. At("keeps") /\ Do(<<Frame("keeps", Null, Top.i + 1)>>)
    BY <1>21 DEF KeepChildDropped
  <2>2. QED
    BY <1>2, <1>4, <1>7, <2>1
<1>22. CASE KeepChildJoins
  <2>1. At("keeps") /\ Do(<<Excute(KeepChild), UpdateNode(KeepChild), UpdateNode(node[KeepChild].father),
                            Frame("keeps", Null, Top.i + 1)>>)
    BY <1>22 DEF KeepChildJoins
  <2>2. QED
    BY <1>2, <1>6, <1>7, <2>1
<1>23. QED
  BY <1>8, <1>9, <1>10, <1>11, <1>12, <1>13, <1>14, <1>15, <1>16, <1>17, <1>18, <1>19, <1>20,
     <1>21, <1>22

(* The steps of the loop.                                                  *)
LEMMA LoopKeepsLoopInv ==
  ASSUME LoopInv,
         Round \/ Reset \/ Sort \/ Sorted \/ Take \/ UpdateChanged \/ Taken \/ StateEnds \/ DeleteRoot
  PROVE  LoopInv'
<1>. DEFINE Loop(op) == Frame(op, Null, 0)
<1>1. StackShape /\ NoneLeft
  BY DEF LoopInv
<1>2. ASSUME NEW op \in LoopOps, At(op) PROVE stack # <<>> /\ InLoop(Head(stack))
  BY <1>2 DEF At, InLoop
<1>3. ASSUME NEW op \in LoopOps, At(op), NEW x, InLoop(x), Do(<<x>>)
      PROVE  StackShape' /\ stack' = <<x>>
  <2>1. stack # <<>> /\ InLoop(Head(stack))
    BY <1>2, <1>3
  <2>2. stack' = <<x>> \o <<>>
    BY <1>1, <1>3, <2>1, LoopStep
  <2>3. QED
    BY <1>3, <2>2, LoopFrames
<1>4. ASSUME NEW op \in LoopOps, At(op), NEW x, InLoop(x), ~Alone(x), NEW y, ~InLoop(y), Do(<<y, x>>)
      PROVE  StackShape' /\ stack' = <<y, x>>
  <2>1. stack # <<>> /\ InLoop(Head(stack))
    BY <1>2, <1>4
  <2>2. stack' = <<y, x>> \o <<>>
    BY <1>1, <1>4, <2>1, LoopStep
  <2>3. QED
    BY <1>4, <2>2, LoopFrames
<1>5. ASSUME NEW x, x.op \notin {"round", "take"}, NEW s, Head(s) = x, s # <<>>, stack' = s,
             StackShape'
      PROVE  LoopInv'
  BY <1>5 DEF LoopInv, NoneLeft, At
<1>6. \A x : Head(<<x>>) = x /\ <<x>> # <<>> /\ \A y : Head(<<x, y>>) = x /\ <<x, y>> # <<>>
  OBVIOUS
<1>7. /\ \A op, n, i : Frame(op, n, i).op = op
      /\ \A n : Excute(n).op = "excute" /\ UpdateNode(n).op = "update"
  BY DEF Frame, Excute, UpdateNode
<1>8. ASSUME NEW op \in LoopOps PROVE \A n, i : InLoop(Frame(op, n, i))
  BY <1>7, <1>8 DEF InLoop
<1>9. /\ \A n : ~InLoop(Excute(n)) /\ ~InLoop(UpdateNode(n))
      /\ \A n, i : ~InLoop(Frame("keeps", n, i)) /\ ~InLoop(Frame("unchanged", n, i))
  BY <1>7 DEF InLoop, LoopOps
<1>10. CASE Round
  <2>1. At("round") /\ Do(<<Excute(root), Frame("reset", Null, 0)>>)
    BY <1>10 DEF Round
  <2>2. ~Alone(Frame("reset", Null, 0)) /\ InLoop(Frame("reset", Null, 0)) /\ "round" \in LoopOps
    BY <1>7, <1>8 DEF Alone, LoopOps
  <2>3. StackShape' /\ stack' = <<Excute(root), Frame("reset", Null, 0)>>
    BY <1>4, <1>9, <2>1, <2>2
  <2>4. QED
    BY <1>5, <1>6, <1>7, <2>3
<1>11. CASE Reset
  <2>1. At("reset") /\ Do(<<Frame("sort", Null, 0)>>)
    BY <1>11 DEF Reset
  <2>2. InLoop(Frame("sort", Null, 0)) /\ "reset" \in LoopOps
    BY <1>8 DEF LoopOps
  <2>3. StackShape' /\ stack' = <<Frame("sort", Null, 0)>>
    BY <1>3, <2>1, <2>2
  <2>4. QED
    BY <1>5, <1>6, <1>7, <2>3
<1>12. CASE Sort
  <2>1. At("sort") /\ "sort" \in LoopOps /\ prjNode' = prjNode
    BY <1>12 DEF Sort, globals, LoopOps
  <2>2. CASE prjNode = Null
    <3>1. Do(<<Frame("take", Null, 0)>>)
      BY <1>12, <2>2 DEF Sort
    <3>2. InLoop(Frame("take", Null, 0))
      BY <1>8 DEF LoopOps
    <3>3. StackShape' /\ stack' = <<Frame("take", Null, 0)>>
      BY <1>3, <2>1, <3>1, <3>2
    <3>4. ~At("round")' /\ stack' # <<>>
      BY <1>6, <1>7, <3>3 DEF At
    <3>5. QED
      BY <2>1, <2>2, <3>3, <3>4 DEF LoopInv, NoneLeft
  <2>3. CASE prjNode # Null
    <3>1. Do(<<Excute(prjNode), Frame("sorted", Null, 0)>>)
      BY <1>12, <2>3 DEF Sort
    <3>2. ~Alone(Frame("sorted", Null, 0)) /\ InLoop(Frame("sorted", Null, 0))
      BY <1>7, <1>8 DEF Alone, LoopOps
    <3>3. StackShape' /\ stack' = <<Excute(prjNode), Frame("sorted", Null, 0)>>
      BY <1>4, <1>9, <2>1, <3>1, <3>2
    <3>4. QED
      BY <1>5, <1>6, <1>7, <3>3
  <2>4. QED
    BY <2>2, <2>3
<1>13. CASE Sorted
  <2>1. At("sorted") /\ Do(<<Frame("take", Null, 0)>>) /\ prjNode' = Null
    BY <1>13 DEF Sorted
  <2>2. InLoop(Frame("take", Null, 0)) /\ "sorted" \in LoopOps
    BY <1>8 DEF LoopOps
  <2>3. StackShape' /\ stack' = <<Frame("take", Null, 0)>>
    BY <1>3, <2>1, <2>2
  <2>4. ~At("round")' /\ stack' # <<>>
    BY <1>6, <1>7, <2>3 DEF At
  <2>5. QED
    BY <2>1, <2>3, <2>4 DEF LoopInv, NoneLeft
<1>14. CASE Take
  <2>. DEFINE n == threadIDToNode[Last(prsnt)]
              x == Excute(n)
              y == UpdateNode(n)
              z == Frame("changed", n, Len(prsnt) - 1)
  <2>1. At("take") /\ Do(<<x, y, z>>)
    BY <1>14 DEF Take
  <2>2. InLoop(z) /\ "take" \in LoopOps /\ ~Alone(z)
    BY <1>7, <1>8 DEF LoopOps, Alone
  <2>3. ~InLoop(x) /\ ~InLoop(y) /\ ~Alone(x) /\ ~Alone(y) /\ x.op = "excute"
    BY <1>7, <1>9 DEF Alone
  <2>. HIDE DEF x, y, z
  <2>4. stack # <<>> /\ InLoop(Head(stack))
    BY <1>2, <2>1, <2>2
  <2>5. stack' = <<x, y, z>> \o <<>>
    BY <1>1, <2>1, <2>4, LoopStep
  <2>6. StackShape' /\ stack' = <<x, y, z>>
    BY <2>2, <2>3, <2>5, LoopFrames
  <2>7. Head(<<x, y, z>>) = x /\ <<x, y, z>> # <<>>
    OBVIOUS
  <2>8. QED
    BY <1>5, <2>3, <2>6, <2>7
<1>15. CASE UpdateChanged
  <2>. DEFINE x == UpdateNode(changedNode)
              y == Frame("unchanged", Null, 0)
              z == Frame("taken", Null, Top.i)
  <2>1. At("changed") /\ "changed" \in LoopOps
    BY <1>15 DEF UpdateChanged, LoopOps
  <2>2. InLoop(z) /\ ~Alone(z) /\ z.op = "taken"
    BY <1>7, <1>8 DEF LoopOps, Alone
  <2>3. ~InLoop(x) /\ ~InLoop(y) /\ ~Alone(x) /\ ~Alone(y) /\ x.op = "update"
    BY <1>7, <1>9 DEF Alone
  <2>4. CASE changedNode = Null
    <3>1. Do(<<>> \o <<z>>)
      BY <1>15, <2>4 DEF UpdateChanged
    <3>2. Do(<<z>>)
      <4>. HIDE DEF z
      <4>1. <<>> \o <<z>> = <<z>>
        OBVIOUS
      <4>2. QED
        BY <3>1, <4>1
    <3>3. StackShape' /\ stack' = <<z>>
      BY <1>3, <2>1, <2>2, <3>2
    <3>4. QED
      BY <1>5, <1>6, <2>2, <3>3
  <2>5. CASE changedNode # Null
    <3>1. Do(<<x, y>> \o <<z>>)
      BY <1>15, <2>5 DEF UpdateChanged
    <3>. HIDE DEF x, y, z
    <3>2. <<x, y>> \o <<z>> = <<x, y, z>>
      <4>. DEFINE X == {x, y, z}
      <4>1. <<x, y>> \in Seq(X) /\ <<z>> \in Seq(X) /\ <<x, y, z>> \in Seq(X)
        OBVIOUS
      <4>2. <<x, y>> \o <<z>> \in Seq(X) /\ Len(<<x, y>> \o <<z>>) = 3 /\ Len(<<x, y, z>>) = 3
        BY <4>1
      <4>3. \A i \in 1 .. 3 : (<<x, y>> \o <<z>>)[i] = <<x, y, z>>[i]
        BY <4>1
      <4>4. QED
        BY <4>1, <4>2, <4>3, SeqEqual
    <3>3. stack # <<>> /\ InLoop(Head(stack))
      BY <1>2, <2>1
    <3>4. stack' = <<x, y, z>> \o <<>>
      BY <1>1, <3>1, <3>2, <3>3, LoopStep
    <3>5. StackShape' /\ stack' = <<x, y, z>>
      BY <2>2, <2>3, <3>4, LoopFrames
    <3>6. Head(<<x, y, z>>) = x /\ <<x, y, z>> # <<>>
      OBVIOUS
    <3>7. QED
      BY <1>5, <2>3, <3>5, <3>6
  <2>6. QED
    BY <2>4, <2>5
<1>16. CASE Taken
  <2>1. At("taken") /\ "taken" \in LoopOps /\ prjNode' = prjNode
    BY <1>16 DEF Taken, globals, LoopOps
  <2>2. CASE Do(<<Frame("sort", Null, 0)>>)
    <3>1. InLoop(Frame("sort", Null, 0))
      BY <1>8 DEF LoopOps
    <3>2. StackShape' /\ stack' = <<Frame("sort", Null, 0)>>
      BY <1>3, <2>1, <2>2, <3>1
    <3>3. QED
      BY <1>5, <1>6, <1>7, <3>2
  <2>3. CASE Do(<<Frame("take", Null, 0)>>) /\ prjNode = Null
    <3>1. InLoop(Frame("take", Null, 0))
      BY <1>8 DEF LoopOps
    <3>2. StackShape' /\ stack' = <<Frame("take", Null, 0)>>
      BY <1>3, <2>1, <2>3, <3>1
    <3>3. ~At("round")' /\ stack' # <<>>
      BY <1>6, <1>7, <3>2 DEF At
    <3>4. QED
      BY <2>1, <2>3, <3>2, <3>3 DEF LoopInv, NoneLeft
  <2>4. QED
    <3>1. CASE Top.i < Len(prsnt) \/ prjNode # Null
      BY <1>16, <2>2, <3>1 DEF Taken
    <3>2. CASE ~(Top.i < Len(prsnt) \/ prjNode # Null)
      BY <1>16, <2>3, <3>2 DEF Taken
    <3>3. QED
      BY <3>1, <3>2
<1>17. CASE StateEnds
  <2>1. At("take") /\ prsnt = <<>> /\ "take" \in LoopOps /\ prjNode = Null
        /\ prsnt' = prsnt /\ keepChilds' = keepChilds /\ prjNode' = prjNode
    BY <1>1, <1>17 DEF StateEnds, LoopOps, NoneLeft, globals
  <2>2. CASE keepChilds = <<>>
    <3>1. Do(<<Frame("round", Null, 0)>>)
      BY <1>17, <2>2 DEF StateEnds
    <3>2. InLoop(Frame("round", Null, 0))
      BY <1>8 DEF LoopOps
    <3>3. StackShape' /\ stack' = <<Frame("round", Null, 0)>>
      BY <1>3, <2>1, <3>1, <3>2
    <3>4. QED
      BY <2>1, <2>2, <3>3 DEF LoopInv, NoneLeft
  <2>3. CASE keepChilds # <<>>
    <3>1. Do(<<Frame("keeps", Null, 1), Frame("sort", Null, 0)>>)
      BY <1>17, <2>3 DEF StateEnds
    <3>2. ~Alone(Frame("sort", Null, 0)) /\ InLoop(Frame("sort", Null, 0))
      BY <1>7, <1>8 DEF Alone, LoopOps
    <3>3. StackShape' /\ stack' = <<Frame("keeps", Null, 1), Frame("sort", Null, 0)>>
      BY <1>4, <1>9, <2>1, <3>1, <3>2
    <3>4. QED
      BY <1>5, <1>6, <1>7, <3>3
  <2>4. QED
    BY <2>2, <2>3
<1>18. CASE DeleteRoot
  <2>1. /\ At("round") /\ Do(<<>>) /\ "round" \in LoopOps
        /\ prsnt' = prsnt /\ keepChilds' = keepChilds /\ prjNode' = prjNode
        /\ prsnt = <<>> /\ keepChilds = <<>> /\ prjNode = Null
    BY <1>1, <1>18 DEF DeleteRoot, Pop, globals, NoneLeft, LoopOps
  <2>2. stack # <<>> /\ InLoop(Head(stack))
    BY <1>2, <2>1
  <2>3. stack' = <<>> \o <<>>
    BY <1>1, <2>1, <2>2, LoopStep
  <2>4. <<>> \in Seq({}) /\ \A i \in 1 .. Len(<<>>) : FALSE
    OBVIOUS
  <2>5. StackShape'
    BY <2>3, <2>4, LoopStack
  <2>6. QED
    BY <2>1, <2>5 DEF LoopInv, NoneLeft
<1>19. QED
  BY <1>10, <1>11, <1>12, <1>13, <1>14, <1>15, <1>16, <1>17, <1>18

LEMMA LoopInvStep == LoopInv /\ [Next]_vars => LoopInv'
<1>. SUFFICES ASSUME LoopInv, [Next]_vars PROVE LoopInv'
  OBVIOUS
<1>1. CASE Finished \/ UNCHANGED vars \/ ExitAtOutput
  <2>1. UNCHANGED <<stack, prsnt, keepChilds, prjNode>> /\ (process' = process \/ process' = "exited")
    BY <1>1 DEF Finished, ExitAtOutput, vars, globals
  <2>2. \A op : At(op)' => At(op)
    BY <2>1 DEF At
  <2>3. StackShape'
    BY <2>1 DEF LoopInv, StackShape, IsSeq, LoopIsLast, AloneIsAlone
  <2>4. NoneLeft'
    BY <2>1, <2>2 DEF LoopInv, NoneLeft
  <2>5. QED
    BY <2>3, <2>4 DEF LoopInv
<1>2. QED
  BY <1>1, CallsKeepLoopInv, LoopKeepsLoopInv DEF Next

(* When the manager returns, no statement collected, no child of a keep    *)
(* and no prj is left for the manager of the next statement.               *)
THEOREM StatementsLeaveNothing == Spec => []NothingCarriedOver
<1>1. Init => LoopInv
  BY LoopInvInit
<1>2. LoopInv /\ [Next]_vars => LoopInv'
  BY LoopInvStep
<1>3. LoopInv => NothingCarriedOver
  BY DEF LoopInv, NoneLeft, NothingCarriedOver
<1>4. QED
  BY <1>1, <1>2, <1>3, PTL DEF Spec
=============================================================================
