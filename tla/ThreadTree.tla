----------------------------- MODULE ThreadTree -----------------------------
(***************************************************************************)
(* The tree of threads of function.cpp and its scheduler, ManagerThread:   *)
(* state by state it executes the tree, then the threads that have         *)
(* collected a statement, then the children of keep nodes.                 *)
(*                                                                         *)
(* A hand-off (TurnHandoff) is one step here: the manager gives the turn   *)
(* to a thread, which runs one slice of its code and gives it back or      *)
(* returns.  The recursion of excute() is an explicit stack of frames,     *)
(* because slices change the tree the manager is walking over.             *)
(***************************************************************************)
EXTENDS Naturals, FiniteSets, FiniteSetsExt, SequencesExt

CONSTANTS
  Threads,   \* the threads of the statement
  Main,      \* the thread that waits for the statement, owner of the root
  Programs,  \* [type, top, code]: the root's type and children, and what
             \* each thread does, slice by slice
  MaxStates, \* the bound of stateNum: a program that reaches it is stuck
  Null

VARIABLES
  prog,         \* the program that runs
  todo,         \* the slices each thread has left
  node,         \* the Node objects; getNewNode makes a new one
  threadIDToNode,
  prsnt,        \* $$prsnt: the threads of the collected statements
  keepChilds, changedNode, prjNode,
  stateNum,     \* the states begun so far
  stack,        \* what the manager has yet to do, innermost call first
  process       \* "alive" until a signal kills it or it exits

vars == <<prog, todo, node, threadIDToNode, prsnt, keepChilds, changedNode, prjNode,
          stateNum, stack, process>>
globals == <<prsnt, keepChilds, changedNode, prjNode>>

Groups == {"and", "pal", "prj"}
Types == Groups \cup {"keep", "alw", "leaf"}
Lengths == {"more", "empty", "none"}

(* A slice: the children it creates under its node, and the type it gives  *)
(* the node (or "same"); the length it sets (or "same"); and whether it    *)
(* collects a statement.  The last slice of a thread ends with its return. *)
Slices == [make : Types \cup {"same"}, kids : Seq(Threads),
           len : {"same", "empty", "none"}, push : BOOLEAN]

(* A thread is created once, and by a thread created before it.            *)
Created(p, t) == UNION {ToSet(p.code[t][i].kids) : i \in DOMAIN p.code[t]}

CreatedOnce(p) ==
  /\ IsInjective(p.top)
  /\ \A t \in Threads :
       /\ Created(p, t) \cap ToSet(p.top) = {}
       /\ \A u \in Threads \ {t} : Created(p, t) \cap Created(p, u) = {}
       /\ \A i, j \in DOMAIN p.code[t] :
            IF i = j THEN IsInjective(p.code[t][i].kids)
            ELSE ToSet(p.code[t][i].kids) \cap ToSet(p.code[t][j].kids) = {}

Deepens(p, depth) ==
  /\ depth[Main] = 0
  /\ \A t \in Threads : depth[t] > 0 /\ \A c \in Created(p, t) : depth[t] < depth[c]

ASSUME ProgramsAssumption ==
  /\ IsFiniteSet(Threads) /\ Main \notin Threads
  /\ Null \notin (Threads \cup {Main}) \X Nat
  /\ MaxStates \in Nat
  /\ \A p \in Programs :
       /\ p.type \in Groups
       /\ p.top \in Seq(Threads) \ {<<>>}
       /\ p.code \in [Threads -> Seq(Slices) \ {<<>>}]
       /\ CreatedOnce(p)
       /\ \E depth \in [Threads \cup {Main} -> 0 .. Cardinality(Threads)] : Deepens(p, depth)

-----------------------------------------------------------------------------
(* An object is named by its thread and its number among the objects of    *)
(* that thread.                                                            *)
Thread(n) == n[1]
Successor(n) == <<n[1], n[2] + 1>>
root == <<Main, 0>>

Returned(t) == t # Main /\ todo[t] = <<>>

(* What an object holds; mutex, cond and isInit belong to the hand-off. *)
Names == (Threads \cup {Main}) \X Nat
Objects ==
  [type : Types, newType : Types, father : Names \cup {Null}, childs : Seq(Names),
   len : Lengths, hasEmpty : BOOLEAN, extQ : BOOLEAN, hasExtQ : BOOLEAN]

(* Mutant: a constructor that leaves newType unset. *)
Node_NoNewType(type, father, childs) ==
  [type |-> type, newType |-> Null, father |-> father, childs |-> childs,
   len |-> "more", hasEmpty |-> FALSE, extQ |-> TRUE, hasExtQ |-> FALSE]

(* The constructors.  PrjNode leaves hasExtQ to what the memory held, q. *)
Node(type, father, childs) ==
  [type |-> type, newType |-> type, father |-> father, childs |-> childs,
   len |-> "more", hasEmpty |-> FALSE, extQ |-> TRUE, hasExtQ |-> FALSE]

AndNode(father, childs) == Node("and", father, childs)
PalNode(father, childs) == Node("pal", father, childs)
LeafNode(father, childs) == Node("leaf", father, childs)
PrjNode(father, childs, q) == [Node("prj", father, childs) EXCEPT !.hasExtQ = q]
KeepNode(father, childs) == [Node("keep", father, childs) EXCEPT !.len = "none"]
AlwNode(father, childs) == [Node("alw", father, childs) EXCEPT !.len = "none"]

NewNode(type, father, childs, q) ==
  CASE type = "and" -> AndNode(father, childs)
    [] type = "pal" -> PalNode(father, childs)
    [] type = "prj" -> PrjNode(father, childs, q)
    [] type = "keep" -> KeepNode(father, childs)
    [] type = "alw" -> AlwNode(father, childs)
    [] type = "leaf" -> LeafNode(father, childs)

(* h with leaves for the threads kids below n. *)
AddLeaves(h, n, kids) ==
  LET new == [i \in DOMAIN kids |-> <<kids[i], 0>>]
  IN [m \in DOMAIN h \cup ToSet(new) |->
        IF m \in ToSet(new) THEN LeafNode(n, <<>>)
        ELSE IF m = n THEN [h[m] EXCEPT !.childs = @ \o new] ELSE h[m]]

Init ==
  /\ prog \in Programs
  /\ todo = prog.code
  /\ \E q \in BOOLEAN :
       /\ q => prog.type = "prj"
       /\ node = AddLeaves([n \in {root} |-> NewNode(prog.type, Null, <<>>, q)], root, prog.top)
  /\ threadIDToNode = [t \in Threads \cup {Main} |->
                         IF t \in ToSet(prog.top) \cup {Main} THEN <<t, 0>> ELSE Null]
  /\ prsnt = <<>> /\ keepChilds = <<>>
  /\ changedNode = Null /\ prjNode = Null
  /\ stateNum = 0
  /\ stack = <<[op |-> "round", node |-> Null, i |-> 0]>>
  /\ process = "alive"

-----------------------------------------------------------------------------
(* The manager's stack. *)
Frame(op, n, i) == [op |-> op, node |-> n, i |-> i]
At(op) == process = "alive" /\ stack # <<>> /\ Head(stack).op = op
Top == Head(stack)

Do(frames) == stack' = frames \o Tail(stack)
Pop == Do(<<>>)
Excute(n) == Frame("excute", n, 0)
UpdateNode(n) == Frame("update", n, 0)

(***************************************************************************)
(* delete: the objects in gone leave the heap and the map, and a thread    *)
(* that has not returned is sent SIGUSR2, whose handler is not installed.  *)
(***************************************************************************)
Delete(h, gone) ==
  /\ node' = [m \in DOMAIN h \ gone |-> h[m]]
  /\ threadIDToNode' = [t \in DOMAIN threadIDToNode |->
                          IF threadIDToNode[t] \in gone THEN Null ELSE threadIDToNode[t]]
  /\ process' = IF \E m \in gone : Thread(m) # Main /\ ~Returned(Thread(m)) THEN "killed" ELSE process

(* n is the present object of its thread. *)
Current(n) == n \in DOMAIN node /\ threadIDToNode[Thread(n)] = n
Present == {n \in DOMAIN node : Current(n)}

(* What each object reaches through the children in kids. *)
Reach(kids) ==
  LET R[n \in DOMAIN kids] == {n} \cup UNION {R[c] : c \in kids[n]}
  IN R

(* ~Node deletes the children too. *)
Below == Reach([n \in Present |-> ToSet(node[n].childs)])

(***************************************************************************)
(* getNewNode: a new object of type newType takes the place of c among the *)
(* children of its father; c itself is neither deleted nor reachable.  A   *)
(* leaf starts without the children of c, which are not deleted either.    *)
(***************************************************************************)
GetNewNode(h, c, q) ==
  LET new == Successor(c)
      type == h[c].newType
      kids == IF type = "leaf" THEN <<>> ELSE h[c].childs
      Lengthless == IF type \in {"keep", "alw"} THEN {h[c].father} ELSE {}
  IN [m \in DOMAIN h \cup {new} |->
        IF m = new THEN NewNode(type, h[c].father, kids, q)
        ELSE IF m = c THEN [h[m] EXCEPT !.childs = kids]
        ELSE [h[m] EXCEPT !.father = IF m \in ToSet(kids) THEN new ELSE @,
                          !.childs = IF m = h[c].father
                                     THEN [i \in DOMAIN @ |-> IF @[i] = c THEN new ELSE @[i]] ELSE @,
                          !.len = IF m \in Lengthless THEN "none" ELSE @]]

Changed(n) == node[n].type # node[n].newType

Renew(c) ==
  /\ \E q \in IF node[c].newType = "prj" THEN BOOLEAN ELSE {FALSE} :
       node' = GetNewNode(node, c, q)
  /\ threadIDToNode' = [threadIDToNode EXCEPT ![Thread(c)] = Successor(c)]

-----------------------------------------------------------------------------
(***************************************************************************)
(* isCorrectAndExit.  Checked[n] is what it returns and what it makes of   *)
(* the object n, for the subtree of and and pal nodes it descends to.      *)
(***************************************************************************)
(* Mutant: a group that has ended counts although its thread has not. *)
IsEmptyLeaf_AnyType(o) == o.len = "empty"

IsEmptyLeaf(o) == o.len = "empty" /\ o.type = "leaf"
Number(s, P(_)) == Cardinality({i \in DOMAIN s : P(s[i])})

(* The vector s after the erasure of gone. *)
Without(s, gone) ==
  LET Left[i \in 0 .. Len(s)] ==
        IF i = 0 THEN <<>>
        ELSE IF s[i] \in gone THEN Left[i - 1] ELSE Append(Left[i - 1], s[i])
  IN Left[Len(s)]

(* An and ends when a branch has ended and the others set no length. *)
AndChecked(o, kid) ==
  LET ended(c) == kid[c].exit /\ IsEmptyLeaf(kid[c].obj)
      empties == Number(o.childs, LAMBDA c : IsEmptyLeaf(kid[c].obj))
      nones == Number(o.childs, LAMBDA c : kid[c].obj.len = "none")
      hasEmpty == o.hasEmpty \/ empties > 0
      exit == hasEmpty /\ empties + nones = Len(o.childs)
  IN [exit |-> exit,
      obj |-> [o EXCEPT
        !.hasEmpty = hasEmpty,
        !.len = IF exit THEN "empty" ELSE IF hasEmpty THEN @
                ELSE IF nones = Len(o.childs) THEN "none" ELSE "more",
        !.childs = Without(@, {c \in ToSet(@) : ended(c)})]]

(* A pal ends when all its branches have ended. *)
PalChecked(o, kid) ==
  LET exits(c) == kid[c].exit /\ kid[c].obj.type = "leaf"
      ended(c) == exits(c) /\ kid[c].obj.len = "empty"
      exit == o.len = "empty" \/ Number(o.childs, ended) = Len(o.childs)
  IN [exit |-> exit,
      obj |-> [o EXCEPT
        !.hasEmpty = @ \/ Number(o.childs, ended) > 0,
        !.len = IF exit THEN "empty" ELSE @,
        !.childs = Without(@, {c \in ToSet(@) : exits(c)})]]

(* A prj ends when q has returned and every p that is left has ended. *)
PrjChecked(o) ==
  LET exit == \/ o.len = "empty"
              \/ /\ Returned(Thread(o.childs[1]))
                 /\ \A c \in ToSet(Tail(o.childs)) : IsEmptyLeaf(node[c])
  IN [exit |-> exit, obj |-> [o EXCEPT !.len = IF exit THEN "empty" ELSE @]]

LeafChecked(t, o) == [exit |-> Returned(t) \/ o.len # "more", obj |-> o]
KeepChecked(t, o) == [exit |-> Returned(t), obj |-> o]
AlwChecked(t, o) == [exit |-> Returned(t), obj |-> o]

(* isCorrectAndExit of n, given what it returned for the children.        *)
CorrectAndExit(n, kid) ==
  LET o == node[n]
      t == Thread(n)
  IN CASE o.type = "and" -> AndChecked(o, kid)
       [] o.type = "pal" -> PalChecked(o, kid)
       [] o.type = "prj" -> PrjChecked(o)
       [] o.type = "leaf" -> LeafChecked(t, o)
       [] o.type = "keep" -> KeepChecked(t, o)
       [] o.type = "alw" -> AlwChecked(t, o)

Checked[n \in Present] ==
  CorrectAndExit(n, [c \in ToSet(node[n].childs) |-> Checked[c]])

Descended ==
  Reach([n \in Present |-> IF node[n].type \in {"and", "pal"} THEN ToSet(node[n].childs) ELSE {}])

(* The heap after isCorrectAndExit of n, and the objects it deletes. *)
CheckedHeap(n) ==
  [m \in DOMAIN node |-> IF m \in Descended[n] THEN Checked[m].obj ELSE node[m]]
CheckedGone(n) ==
  UNION {ToSet(node[m].childs) \ ToSet(Checked[m].obj.childs) : m \in Descended[n]}

-----------------------------------------------------------------------------
(***************************************************************************)
(* setNodeLength, called in a slice: h is the heap, n the caller's node.   *)
(* The result has the new heap, changedNode and prjNode.                   *)
(***************************************************************************)
Result(h, changed, prj) == [node |-> h, changedNode |-> changed, prjNode |-> prj]

(* setAndLen: a father all of whose children are NONE becomes NONE and     *)
(* hands on to its own father; the first that is not may become EMPTY.     *)
setAndLen(h, n) ==
  LET up == [c \in DOMAIN h |->
               {f \in {h[c].father} \cap DOMAIN h :
                  /\ h[f].type = "and" /\ ~h[f].hasEmpty
                  /\ h[n].len = "none"
                  /\ \A d \in ToSet(h[f].childs) : d = c \/ h[d].len = "none"}]
      Nones == Reach(up)[n] \ {n}
      h1 == [m \in DOMAIN h |-> IF m \in Nones THEN [h[m] EXCEPT !.len = "none"] ELSE h[m]]
      last == CHOOSE m \in Reach(up)[n] : h[m].father \notin Nones
      f == h[last].father
  IN IF f = Null \/ h[f].type # "and" THEN Result(h1, changedNode, prjNode)
     ELSE LET empties == Number(h1[f].childs, LAMBDA c : IsEmptyLeaf(h1[c]))
              nones == Number(h1[f].childs, LAMBDA c : h1[c].len = "none")
              hasEmpty == h1[f].hasEmpty \/ empties > 0
              h2 == [h1 EXCEPT ![f].hasEmpty = hasEmpty]
          IN IF empties + (IF hasEmpty THEN nones ELSE 0) = Len(h1[f].childs)
             THEN Result([h2 EXCEPT ![f].len = "empty", ![f].newType = "leaf"], f, prjNode)
             ELSE Result(h2, changedNode, prjNode)

(* Mutant: the first branch to end is the end of the group. *)
setPalLen_First(h, f) ==
  IF \E c \in ToSet(h[f].childs) : IsEmptyLeaf(h[c])
  THEN Result([h EXCEPT ![f].len = "empty", ![f].newType = "leaf"], f, prjNode)
  ELSE Result(h, changedNode, prjNode)

setPalLen(h, f) ==
  LET childs == h[f].childs
      empties == Number(childs, LAMBDA c : IsEmptyLeaf(h[c]))
      nones == Number(childs, LAMBDA c : h[c].len = "none")
  IN IF nones = Len(childs) THEN Result([h EXCEPT ![f].len = "none"], changedNode, prjNode)
     ELSE IF empties + nones = Len(childs)
     THEN Result([h EXCEPT ![f].len = "empty", ![f].newType = "leaf"], f, prjNode)
     ELSE Result(h, changedNode, prjNode)

(* Mutant: the end of the last p ends the prj, wherever q is. *)
setPrjLen_NotQ(h, f, n) ==
  IF \A c \in ToSet(Tail(h[f].childs)) : h[c].len # "more" /\ h[c].type = "leaf"
  THEN Result([h EXCEPT ![f].len = "empty", ![f].newType = "leaf"], changedNode, prjNode)
  ELSE Result(h, changedNode, prjNode)

setPrjLen(h, f, n) ==
  LET childs == h[f].childs
  IN IF \A c \in ToSet(childs) : h[c].len # "more" /\ h[c].type = "leaf"
     THEN Result([h EXCEPT ![f].len = "empty", ![f].newType = "leaf"], changedNode, prjNode)
     ELSE IF n \notin {childs[1], Last(childs)} /\ ~h[f].hasExtQ
     THEN Result(h, changedNode, f)
     ELSE Result(h, changedNode, prjNode)

setNodeLength(h, n, len) ==
  LET h1 == [h EXCEPT ![n].len = len]
      f == h[n].father
  IN CASE f = Null -> Result(h1, changedNode, prjNode)
       [] f # Null /\ h[f].type = "and" -> setAndLen(h1, n)
       [] f # Null /\ h[f].type = "pal" -> setPalLen(h1, f)
       [] f # Null /\ h[f].type = "prj" -> setPrjLen(h1, f, n)
       [] OTHER -> Result(h1, changedNode, prjNode)

-----------------------------------------------------------------------------
(***************************************************************************)
(* The hand-off of LeafNode, KeepNode and AlwNode::excute with the slice   *)
(* the thread runs.  What the slice leaves below a keep node goes to       *)
(* keepChilds, what it leaves below an alw node to the father.             *)
(***************************************************************************)
(* Mutant: setFatherNode is forgotten. *)
Adopted_ByNobody(h, kids, f) == h

Adopted(h, kids, f) ==
  [m \in DOMAIN h |-> IF m \in ToSet(kids) THEN [h[m] EXCEPT !.father = f] ELSE h[m]]

(* f and its ancestors up to the first whose length is MORE already. *)
Lengthened(h, f) ==
  LET Up[m \in DOMAIN h \cup {Null}] ==
        IF m = Null THEN {} ELSE IF h[m].len = "more" THEN {} ELSE {m} \cup Up[h[m].father]
  IN [m \in DOMAIN h |-> IF m \in Up[f] THEN [h[m] EXCEPT !.len = "more"] ELSE h[m]]

(* The heap, changedNode and prjNode after the next slice of n's thread.   *)
AfterSlice(n) ==
  LET s == Head(todo[Thread(n)])
      h1 == AddLeaves(node, n, s.kids)
      h2 == IF s.make = "same" THEN h1 ELSE [h1 EXCEPT ![n].newType = s.make]
  IN IF s.len = "same" THEN Result(h2, changedNode, prjNode) ELSE setNodeLength(h2, n, s.len)

ThreadOnTop(type) ==
  /\ At("excute") /\ Current(Top.node)
  /\ node[Top.node].type = type
  /\ ~Returned(Thread(Top.node))

RunSlice(n) ==
  LET t == Thread(n)
      s == Head(todo[t])
  IN /\ todo' = [todo EXCEPT ![t] = Tail(@)]
     /\ threadIDToNode' = [c \in DOMAIN threadIDToNode |->
                             IF c \in ToSet(s.kids) THEN <<c, 0>> ELSE threadIDToNode[c]]
     /\ changedNode' = AfterSlice(n).changedNode
     /\ prjNode' = AfterSlice(n).prjNode
     /\ prsnt' = IF s.push THEN Append(prsnt, t) ELSE prsnt
     /\ Pop

ExcuteLeaf ==
  /\ ThreadOnTop("leaf")
  /\ node[Top.node].len = "more"
  /\ RunSlice(Top.node)
  /\ node' = AfterSlice(Top.node).node
  /\ UNCHANGED <<prog, stateNum, keepChilds, process>>

ExcuteKeep ==
  LET n == Top.node
      h == AfterSlice(n).node
      kids == h[n].childs
  IN /\ ThreadOnTop("keep")
     /\ RunSlice(n)
     /\ node' = [Adopted(h, kids, h[n].father) EXCEPT ![n].childs = <<>>]
     /\ keepChilds' = keepChilds \o kids
     /\ UNCHANGED <<prog, stateNum, process>>

ExcuteAlw ==
  LET n == Top.node
      h == AfterSlice(n).node
      kids == h[n].childs
      f == h[n].father
      h1 == [[Adopted(h, kids, f) EXCEPT ![n].childs = <<>>] EXCEPT ![f].childs = @ \o kids]
  IN /\ ThreadOnTop("alw")
     /\ RunSlice(n)
     /\ node' = IF kids = <<>> THEN h1 ELSE Lengthened(h1, f)
     /\ UNCHANGED <<prog, stateNum, keepChilds, process>>

(* The thread has returned, or its interval has ended. *)
ExcuteNothing ==
  /\ At("excute") /\ Current(Top.node)
  /\ node[Top.node].type \notin Groups
  /\ \/ Returned(Thread(Top.node))
     \/ node[Top.node].type = "leaf" /\ node[Top.node].len # "more"
  /\ Pop
  /\ UNCHANGED <<prog, stateNum, todo, node, threadIDToNode, globals, process>>

(***************************************************************************)
(* excute() of a group: isCorrectAndExit first.  A group that has ended    *)
(* becomes a leaf, for its father to renew.                                *)
(***************************************************************************)
GroupOnTop == At("excute") /\ Current(Top.node) /\ node[Top.node].type \in Groups

ExcuteEnded ==
  /\ GroupOnTop
  /\ Checked[Top.node].exit
  /\ Delete([CheckedHeap(Top.node) EXCEPT ![Top.node].newType = "leaf"],
            CheckedGone(Top.node))
  /\ Pop
  /\ UNCHANGED <<prog, stateNum, todo, globals>>

ExcuteGroup ==
  /\ GroupOnTop
  /\ ~Checked[Top.node].exit
  /\ Delete(CheckedHeap(Top.node), CheckedGone(Top.node))
  /\ Do(IF node[Top.node].type = "prj" THEN <<Frame("prj", Top.node, 0)>>
        ELSE <<Frame("childs", Top.node, 1)>>)
  /\ UNCHANGED <<prog, stateNum, todo, globals>>

(* The loop of AndNode and PalNode: a child whose type has changed is      *)
(* renewed and executed again.                                             *)
Childs ==
  /\ At("childs")
  /\ Do(IF Top.i > Len(node[Top.node].childs) THEN <<>>
        ELSE <<Excute(node[Top.node].childs[Top.i]), Frame("child", Top.node, Top.i)>>)
  /\ UNCHANGED <<prog, stateNum, todo, node, threadIDToNode, globals, process>>

Child ==
  LET c == node[Top.node].childs[Top.i]
  IN /\ At("child")
     /\ IF Changed(c) THEN Renew(c) /\ Do(<<Frame("childs", Top.node, Top.i)>>)
        ELSE /\ UNCHANGED <<node, threadIDToNode>>
             /\ Do(<<Frame("childs", Top.node, Top.i + 1)>>)
     /\ UNCHANGED <<prog, stateNum, todo, globals, process>>

(***************************************************************************)
(* PrjNode::excute.  childs[1] is q, the others are the p that are left;   *)
(* the current p is childs[2].  When it has ended it is deleted and the    *)
(* next one starts, and q has a state of its own with the start of each p. *)
(***************************************************************************)
Prj ==
  /\ At("prj")
  /\ IF Len(node[Top.node].childs) <= 1
     THEN /\ node' = [node EXCEPT ![Top.node].extQ = TRUE]
          /\ Do(<<Frame("prjq", Top.node, 0)>>)
     ELSE /\ Do(<<Excute(node[Top.node].childs[2]), Frame("prjp", Top.node, 0)>>)
          /\ UNCHANGED node
  /\ UNCHANGED <<prog, stateNum, todo, threadIDToNode, globals, process>>

CurrentP == node[Top.node].childs[2]

PrjRenewP ==
  /\ At("prjp") /\ Changed(CurrentP)
  /\ Renew(CurrentP)
  /\ Do(<<Excute(Successor(CurrentP)), Frame("prjp", Top.node, 0)>>)
  /\ UNCHANGED <<prog, stateNum, todo, globals, process>>

PrjNextP ==
  LET left == RemoveAt(node[Top.node].childs, 2)
  IN /\ At("prjp") /\ ~Changed(CurrentP)
     /\ node[CurrentP].len = "empty"
     /\ Delete([node EXCEPT ![Top.node].extQ = TRUE, ![Top.node].childs = left],
               Below[CurrentP])
     /\ Do(IF Len(left) = 1 THEN <<Frame("prjq", Top.node, 0)>>
           ELSE <<Excute(left[2]), Frame("prjp", Top.node, 0)>>)
     /\ UNCHANGED <<prog, stateNum, todo, globals>>

PrjPRuns ==
  /\ At("prjp") /\ ~Changed(CurrentP)
  /\ node[CurrentP].len # "empty"
  /\ Do(<<Frame("prjq", Top.node, 0)>>)
  /\ UNCHANGED <<prog, stateNum, todo, node, threadIDToNode, globals, process>>

(* hasExtQ = extQ; then q, unless extQ is off or q has ended.  What a prj  *)
(* without a q does at childs[0] is not followed.                          *)
PrjQ ==
  LET q == node[Top.node].childs[1]
      h == [(IF node[Top.node].extQ THEN CheckedHeap(q) ELSE node)
              EXCEPT ![Top.node].hasExtQ = node[Top.node].extQ]
  IN /\ At("prjq")
     /\ node[Top.node].childs # <<>>
     /\ Delete(h, IF node[Top.node].extQ THEN CheckedGone(q) ELSE {})
     /\ Do(IF node[Top.node].extQ /\ ~Checked[q].exit
           THEN <<Excute(q), Frame("prjran", Top.node, 0)>> ELSE <<>>)
     /\ UNCHANGED <<prog, stateNum, todo, globals>>

(* Mutant: extQ stays on. *)
PrjRanQ_Again ==
  LET q == node[Top.node].childs[1]
  IN /\ At("prjran")
     /\ IF Changed(q)
        THEN /\ Renew(q)
             /\ Do(<<Excute(Successor(q)), Frame("prjran", Top.node, 0)>>)
        ELSE Pop /\ UNCHANGED <<node, threadIDToNode>>
     /\ UNCHANGED <<prog, stateNum, todo, globals, process>>

PrjRanQ ==
  LET q == node[Top.node].childs[1]
  IN /\ At("prjran")
     /\ IF Changed(q)
        THEN /\ Renew(q)
             /\ Do(<<Excute(Successor(q)), Frame("prjran", Top.node, 0)>>)
        ELSE /\ node' = [node EXCEPT ![Top.node].extQ = FALSE]
             /\ Pop
             /\ UNCHANGED threadIDToNode
     /\ UNCHANGED <<prog, stateNum, todo, globals, process>>

-----------------------------------------------------------------------------
(***************************************************************************)
(* updateNode: renew a node outside the walk, and execute what it becomes. *)
(* The search for it among its father's children has no end but success.   *)
(***************************************************************************)
UpdateNothing ==
  /\ At("update") /\ Top.node \in DOMAIN node
  /\ Top.node = root \/ ~Changed(Top.node)
  /\ Pop
  /\ UNCHANGED <<prog, stateNum, todo, node, threadIDToNode, globals, process>>

Found(n) == node[n].father \in DOMAIN node /\ Contains(node[node[n].father].childs, n)

UpdateNodeRenews ==
  /\ At("update") /\ Top.node \in DOMAIN node \ {root}
  /\ Changed(Top.node) /\ Found(Top.node)
  /\ Renew(Top.node)
  /\ Do(<<Excute(Successor(Top.node)), UpdateNode(Successor(Top.node))>>)
  /\ UNCHANGED <<prog, stateNum, todo, globals, process>>

-----------------------------------------------------------------------------
(***************************************************************************)
(* excuteKeepChilds: the children of keep nodes join the tree and run,     *)
(* unless the and they belong to has ended.                                *)
(***************************************************************************)
AndRoot(n) ==
  LET Up[m \in DOMAIN node] ==
        IF node[m].father # Null /\ node[node[m].father].type = "and"
        THEN Up[node[m].father] ELSE m
  IN Up[n]

KeepChild == keepChilds[Top.i]

KeepChildDropped ==
  /\ At("keeps") /\ Top.i <= Len(keepChilds)
  /\ node[AndRoot(KeepChild)].len = "empty"
  /\ Delete(node, Below[KeepChild])
  /\ Do(<<Frame("keeps", Null, Top.i + 1)>>)
  /\ UNCHANGED <<prog, stateNum, todo, globals>>

KeepChildJoins ==
  LET f == node[KeepChild].father
  IN /\ At("keeps") /\ Top.i <= Len(keepChilds)
     /\ node[AndRoot(KeepChild)].len # "empty"
     /\ node' = Lengthened([node EXCEPT ![f].childs = Append(@, KeepChild)], f)
     /\ Do(<<Excute(KeepChild), UpdateNode(KeepChild), UpdateNode(f),
             Frame("keeps", Null, Top.i + 1)>>)
     /\ UNCHANGED <<prog, stateNum, todo, threadIDToNode, globals, process>>

KeepsDone ==
  /\ At("keeps") /\ Top.i > Len(keepChilds)
  /\ keepChilds' = <<>>
  /\ Pop
  /\ UNCHANGED <<prog, stateNum, todo, node, threadIDToNode, prsnt, changedNode, prjNode, process>>

-----------------------------------------------------------------------------
(***************************************************************************)
(* ManagerThread.  "round" is the head of its loop, one state of the       *)
(* statement; "sort" the label SORT; "take" the loop over $$prsnt.         *)
(***************************************************************************)
RootEnded == node[root].newType = "leaf" \/ node[root].len = "empty"

(* IsOutput, given to GetMsvVar, says that the program is to end here. *)
ExitAtOutput ==
  /\ At("round") /\ ~RootEnded
  /\ stateNum < MaxStates
  /\ process' = "exited"
  /\ UNCHANGED <<prog, todo, node, threadIDToNode, globals, stateNum, stack>>

Round ==
  /\ At("round") /\ ~RootEnded
  /\ stateNum < MaxStates
  /\ stateNum' = stateNum + 1
  /\ Do(<<Excute(root), Frame("reset", Null, 0)>>)
  /\ UNCHANGED <<prog, todo, node, threadIDToNode, globals, process>>

Reset ==
  /\ At("reset")
  /\ changedNode' = Null /\ prjNode' = Null
  /\ Do(<<Frame("sort", Null, 0)>>)
  /\ UNCHANGED <<prog, stateNum, todo, node, threadIDToNode, prsnt, keepChilds, process>>

Sort ==
  /\ At("sort")
  /\ Do(IF prjNode = Null THEN <<Frame("take", Null, 0)>>
        ELSE <<Excute(prjNode), Frame("sorted", Null, 0)>>)
  /\ UNCHANGED <<prog, stateNum, todo, node, threadIDToNode, globals, process>>

Sorted ==
  /\ At("sorted")
  /\ prjNode' = Null
  /\ Do(<<Frame("take", Null, 0)>>)
  /\ UNCHANGED <<prog, stateNum, todo, node, threadIDToNode, prsnt, keepChilds, changedNode, process>>

(* Mutant: pop_back is forgotten. *)
Take_NotPopped ==
  LET n == threadIDToNode[Last(prsnt)]
  IN /\ At("take") /\ prsnt # <<>>
     /\ n # Null
     /\ Do(<<Excute(n), UpdateNode(n), Frame("changed", n, Len(prsnt) - 1)>>)
     /\ UNCHANGED <<prog, stateNum, todo, node, threadIDToNode, globals, process>>

(* The thread of the last statement collected runs, although it should be  *)
(* the first of a sorted sequence: the call of sort is commented out.      *)
Take ==
  LET n == threadIDToNode[Last(prsnt)]
  IN /\ At("take") /\ prsnt # <<>>
     /\ prsnt' = Front(prsnt)
     /\ n # Null
     /\ Do(<<Excute(n), UpdateNode(n), Frame("changed", n, Len(prsnt) - 1)>>)
     /\ UNCHANGED <<prog, stateNum, todo, node, threadIDToNode, keepChilds, changedNode, prjNode, process>>

(* Mutant: the node changed by setAndLen or setPalLen waits for the walk. *)
UpdateChanged_Never ==
  /\ At("changed")
  /\ Do(<<Frame("taken", Null, Top.i)>>)
  /\ UNCHANGED <<prog, stateNum, todo, node, threadIDToNode, globals, process>>

UpdateChanged ==
  /\ At("changed")
  /\ Do((IF changedNode = Null THEN <<>>
         ELSE <<UpdateNode(changedNode), Frame("unchanged", Null, 0)>>)
        \o <<Frame("taken", Null, Top.i)>>)
  /\ UNCHANGED <<prog, stateNum, todo, node, threadIDToNode, globals, process>>

(* Mutant: changedNode is not reset. *)
Unchanged_Kept ==
  /\ At("unchanged")
  /\ Pop
  /\ UNCHANGED <<prog, stateNum, todo, node, threadIDToNode, globals, process>>

Unchanged ==
  /\ At("unchanged")
  /\ changedNode' = Null
  /\ Pop
  /\ UNCHANGED <<prog, stateNum, todo, node, threadIDToNode, prsnt, keepChilds, prjNode, process>>

(* Back to SORT when something has been collected. *)
Taken ==
  /\ At("taken")
  /\ Do(<<Frame(IF Top.i < Len(prsnt) \/ prjNode # Null THEN "sort" ELSE "take", Null, 0)>>)
  /\ UNCHANGED <<prog, stateNum, todo, node, threadIDToNode, globals, process>>

(* Mutant: the keep children wait for the next state. *)
StateEnds_KeepsLater ==
  /\ At("take") /\ prsnt = <<>>
  /\ Delete(CheckedHeap(root), CheckedGone(root))
  /\ Do(<<Frame("round", Null, 0)>>)
  /\ UNCHANGED <<prog, stateNum, todo, globals>>

StateEnds ==
  /\ At("take") /\ prsnt = <<>>
  /\ Delete(CheckedHeap(root), CheckedGone(root))
  /\ Do(IF keepChilds = <<>> THEN <<Frame("round", Null, 0)>>
        ELSE <<Frame("keeps", Null, 1), Frame("sort", Null, 0)>>)
  /\ UNCHANGED <<prog, stateNum, todo, globals>>

(* The statement has ended: delete threadRoot. *)
DeleteRoot ==
  /\ At("round") /\ RootEnded
  /\ Delete(node, Below[root])
  /\ Pop
  /\ UNCHANGED <<prog, stateNum, todo, globals>>

Over == stack = <<>> \/ process # "alive"

Finished == Over /\ UNCHANGED vars

Next ==
  \/ ExcuteLeaf \/ ExcuteKeep \/ ExcuteAlw \/ ExcuteNothing \/ ExcuteEnded \/ ExcuteGroup
  \/ Childs \/ Child
  \/ Prj \/ PrjRenewP \/ PrjNextP \/ PrjPRuns \/ PrjQ \/ PrjRanQ
  \/ UpdateNothing \/ UpdateNodeRenews
  \/ KeepChildDropped \/ KeepChildJoins \/ KeepsDone
  \/ ExitAtOutput \/ Round \/ Reset \/ Sort \/ Sorted \/ Take \/ UpdateChanged \/ Unchanged \/ Taken
  \/ StateEnds \/ DeleteRoot
  \/ Finished

Spec == Init /\ [][Next]_vars
FairSpec == Spec /\ WF_vars(Next)

-----------------------------------------------------------------------------
TypeOK ==
  /\ \A n \in DOMAIN node : node[n] \in Objects
  /\ prsnt \in Seq(Threads)
  /\ keepChilds \in Seq(Names)
  /\ {changedNode, prjNode} \subseteq Names \cup {Null}
  /\ stateNum \in 0 .. MaxStates
  /\ process \in {"alive", "killed", "exited"}

(* What the manager is about to touch is there: an object it executes is   *)
(* the present node of its thread, not one that getNewNode has emptied or  *)
(* delete has freed (tempNode, changedNode, prjNode and the keep children  *)
(* are pointers kept across slices that change the tree); the search of    *)
(* updateNode, which has no bound, finds what it looks for; the thread of  *)
(* a statement to be executed has a node (the assert of ManagerThread).    *)
NoDangling ==
  /\ At("excute") => Current(Top.node)
  /\ At("update") =>
       /\ Top.node \in DOMAIN node
       /\ Top.node # root /\ Changed(Top.node) => Found(Top.node)
  /\ At("take") /\ prsnt # <<>> => threadIDToNode[Last(prsnt)] # Null
  /\ At("keeps") /\ Top.i <= Len(keepChilds) =>
       Current(KeepChild) /\ Current(node[KeepChild].father)

(* No signal ends the process. *)
Survives == process # "killed"

(***************************************************************************)
(* Statements without keep and alw; and those of them that MSVL compiles.  *)
(* A thread that creates a group waits for it, so that it has a slice      *)
(* left, and one that sets its length returns then.  NONE, the length of a *)
(* branch that the other branches decide, is for branches of an and one of *)
(* which at least has a length.                                            *)
(***************************************************************************)
Keepless(p) ==
  \A t \in Threads : \A i \in DOMAIN p.code[t] : p.code[t][i].make \notin {"keep", "alw"}

SetsNone(p, t) == \E i \in DOMAIN p.code[t] : p.code[t][i].len = "none"

HasLength(p, type, kids) ==
  /\ kids # <<>>
  /\ type = "and" => \E c \in ToSet(kids) : ~SetsNone(p, c)
  /\ type # "and" => \A c \in ToSet(kids) : ~SetsNone(p, c)

SliceOrderly(p, s, isLast) ==
  \/ s.make \in Groups /\ HasLength(p, s.make, s.kids) /\ s.len = "same" /\ ~isLast
  \/ s.make = "same" /\ s.kids = <<>> /\ (s.len = "same" \/ isLast)

Orderly(p) ==
  /\ HasLength(p, p.type, p.top)
  /\ \A t \in Threads : \A i \in DOMAIN p.code[t] :
       SliceOrderly(p, p.code[t][i], i = Len(p.code[t]))

KeeplessAreOrderly == \A p \in Programs : Keepless(p) => Orderly(p)

(* The only threads a delete finds that have not returned are keep and alw *)
(* threads and those they have created: a statement without keep and alw   *)
(* survives, because every group waits for all its branches.               *)
OnlyKeepsAreKilled == process = "killed" => ~Keepless(prog)

(* Whatever slices, renewals and deletions there have been, father and     *)
(* children point at each other, no child is there twice, and every object *)
(* in the tree is the node its thread finds in threadIDToNode.             *)
TreeShape ==
  root \in DOMAIN node =>
    \A n \in Below[root] :
      /\ Current(n)
      /\ \A c \in ToSet(node[n].childs) : node[c].father = n
      /\ IsInjective(node[n].childs)

(* A thread that has not returned is in the tree, or about to join it: a   *)
(* group that becomes a leaf forgets its children without deleting them,   *)
(* so all of them must have returned by then, or nobody ever runs them.    *)
NoOrphan ==
  \A t \in Threads :
    threadIDToNode[t] # Null /\ ~Returned(t) =>
      threadIDToNode[t] \in (IF root \in DOMAIN node THEN Below[root] ELSE {}) \cup ToSet(keepChilds)

(* A statement leaves nothing behind for the manager of the next one in    *)
(* the globals that no manager resets before it uses them: no statement    *)
(* collected and not executed, no keep child that has not run, no prj      *)
(* whose next p is still to start.                                         *)
NothingCarriedOver ==
  stack = <<>> => prsnt = <<>> /\ keepChilds = <<>> /\ prjNode = Null

(***************************************************************************)
(* Slices, as the code of prog numbers them.                               *)
(***************************************************************************)
Done(t) == Len(prog.code[t]) - Len(todo[t])
Creates(t, i) == prog.code[t][i].make \in Groups

(* A thread goes on after MyWaitForObject only when every thread of the    *)
(* statement it waits for has returned, at every depth of the tree.        *)
WaitsForChildren ==
  [][\A t \in Threads :
       todo[t] # todo'[t] /\ Done(t) > 0 /\ Creates(t, Done(t)) =>
         \A c \in ToSet(prog.code[t][Done(t)].kids) : Returned(c)]_vars

(* The manager reaches the end of its loop and deletes the root: no thread *)
(* is left waiting for a statement whose end nobody notices.               *)
Terminates == <>Over
=============================================================================
