---------------------------- MODULE MCThreadTree ----------------------------
(***************************************************************************)
(* Programs for ThreadTree: the statements a translated MSVL program of up *)
(* to four threads is made of.                                             *)
(***************************************************************************)
EXTENDS StatementTiming

CONSTANTS ta, tb, tc, td

MCThreads == {ta, tb, tc, td}

Slice(make, kids, len, push) == [make |-> make, kids |-> kids, len |-> len, push |-> push]
Collect == Slice("same", <<>>, "same", TRUE)
Run == Slice("same", <<>>, "same", FALSE)
Finish == Slice("same", <<>>, "empty", FALSE)
FinishNone == Slice("same", <<>>, "none", FALSE)
Create(type, kids) == Slice(type, kids, "same", FALSE)

(* k states, in each of which a statement is collected and executed: the   *)
(* last slice, and so the end, comes with the SORT loop, and in the walk   *)
(* over the tree for the other bodies.                                     *)
Body(k) ==
  [i \in 1 .. 2 * k |-> IF i = 2 * k THEN Finish ELSE IF i % 2 = 1 THEN Collect ELSE Run]
EndInSort == {Body(1), Body(2)}
EndInWalk == {<<Finish>>, <<Run, Finish>>}
Bodies == EndInSort \cup EndInWalk

Code(A, B, C, D) == [t \in MCThreads |-> CASE t = ta -> A [] t = tb -> B [] t = tc -> C [] t = td -> D]
Program(type, top, code) == [type |-> type, top |-> top, code |-> code]

-----------------------------------------------------------------------------
(* Three branches; and a prj with three p, two of which end in the SORT    *)
(* loop in the state of their start.                                       *)
Flat == {Program(type, <<ta, tb, tc>>, Code(x, y, z, <<Finish>>)) :
           type \in Groups, x \in Bodies, y \in Bodies, z \in Bodies}
Flat4 == {Program("prj", <<ta, tb, tc, td>>, Code(x, Body(1), Body(1), y)) : x \in Bodies, y \in EndInSort}

(* A branch creates a group in the walk, and goes on after it; under a prj *)
(* it is the q or the p.                                                   *)
Nested == {Program(type, top, Code(<<Create(inner, <<tc, td>>)>> \o u, x, y, z)) :
             type \in Groups, top \in {<<ta, tb>>, <<tb, ta>>}, inner \in {"and", "pal"},
             u \in {<<Finish>>, Body(1)}, x \in {<<Run, Finish>>, Body(2)},
             y \in Bodies, z \in EndInSort}

(* It creates it in the SORT loop; one branch, at least, outlasts that.    *)
Late(Ends) ==
  {Program(type, <<ta, tb>>, Code(<<Collect, Create(inner, <<tc, td>>)>> \o u, x, y, z)) :
     type \in {"and", "pal"}, inner \in {"and", "pal"},
     u \in {<<Finish>>, Body(1)}, x \in {<<Run, Finish>>, Body(2)}, y \in Bodies, z \in Ends}

(* It creates a prj in the SORT loop; some p does not end in that walk. *)
LatePrj ==
  {Program(type, <<ta>>, Code(<<Collect, Create("prj", <<tb, tc, td>>)>> \o u, x, y, z)) :
     type \in {"and", "pal"}, u \in {<<Finish>>, Body(1)}, x \in EndInWalk \cup {Body(1)},
     y \in Bodies \ {<<Finish>>}, z \in EndInSort}

(* It creates a prj with q and one p, whose body is in Ends. *)
NestedPrj(Ends) ==
  {Program(type, <<ta, tb>>, Code(<<Create("prj", <<tc, td>>)>> \o u, x, y, z)) :
     type \in {"and", "pal"}, u \in {<<Finish>>, Body(1)}, x \in Bodies,
     y \in {<<Finish>>, Body(1)}, z \in Ends}

(* A keep or alw creates a child in two states and returns in the second   *)
(* or the third; the other branch of the and ends before, with or after    *)
(* it.                                                                     *)
KeepEnds == {Body(2), Body(3), <<Run, Finish>>, <<Run, Run, Run, Finish>>}
Children == {<<Collect, FinishNone>>, <<Run, FinishNone>>, Body(1), <<Finish>>}
Keeps ==
  {Program("and", <<ta, tb>>, Code(<<Create(k, <<>>), Create(k, <<tc>>), Create(k, <<td>>)>>, x, y, z)) :
     k \in {"keep", "alw"}, x \in KeepEnds, y \in Children, z \in Children}

(* The child of the keep creates a group of its own. *)
KeepGroups(Ends) ==
  {Program("and", <<ta, tb>>,
           Code(<<Create(k, <<>>), Create(k, <<tc>>), Run>>, x,
                <<Create(g, <<td>>), FinishNone>>, z)) :
     k \in {"keep", "alw"}, g \in {"and", "pal"}, x \in KeepEnds, z \in Ends}

(* A group in a group in a group. *)
Deep ==
  {Program(type, <<ta>>, Code(<<Create(outer, <<tb>>)>> \o u, <<Create(inner, <<tc, td>>)>> \o v, y, z)) :
     type \in {"and", "pal"}, outer \in {"and", "pal"}, inner \in {"and", "pal"},
     u \in {<<Finish>>, Body(1)}, v \in {<<Finish>>, Body(1)}, y \in Bodies, z \in Bodies}

(* Four of them; and the outer one is created in the SORT loop. *)
Chain ==
  {Program("and", <<ta>>, Code(<<Create(outer, <<tb>>)>> \o u, <<Create(inner, <<tc>>)>> \o v,
                               <<Create("pal", <<td>>)>> \o v, x)) :
     outer \in {"and", "pal"}, inner \in {"and", "pal"},
     u \in {<<Finish>>, Body(1)}, v \in {<<Finish>>, Body(1)}, x \in Bodies}
LateDeep ==
  {Program("pal", <<ta>>, Code(<<Collect, Create(outer, <<tb>>)>> \o u, <<Create(inner, <<tc, td>>)>> \o u, x, y)) :
     outer \in {"and", "pal"}, inner \in {"and", "pal"},
     u \in {<<Finish>>, Body(1)}, x \in EndInSort, y \in EndInSort}

(* The prj has two p; a p of a prj is a prj itself. *)
NestedPrj2(Ends) ==
  {Program(type, <<ta>>, Code(<<Create("prj", <<tb, tc, td>>)>> \o u, x, y, z)) :
     type \in {"and", "pal"}, u \in {<<Finish>>, Body(1)}, x \in Bodies, y \in Ends, z \in Bodies}
PrjAsP ==
  {Program("prj", <<td, ta>>, Code(<<Create("prj", <<tb, tc>>)>> \o u, x, y, z)) :
     u \in {<<Finish>>, Body(1)}, x \in Bodies, y \in Bodies, z \in {<<Finish>>, Body(1), Body(2)}}

(* The keep or alw creates two children in one state. *)
KeepPairs ==
  {Program("and", <<ta, tb>>, Code(<<Create(k, <<>>), Create(k, <<tc, td>>), Run>>, x, y, z)) :
     k \in {"keep", "alw"}, x \in KeepEnds, y \in Children, z \in Children}

(* The child of a keep or an alw is a keep or an alw. *)
KeepChains ==
  {Program("and", <<ta, tb>>,
           Code(<<Create(k[1], <<>>), Create(k[1], <<tc>>)>>, x, <<Create(k[2], <<>>), Create(k[2], <<td>>)>>, z)) :
     k \in {"keep", "alw"} \X {"keep", "alw"}, x \in KeepEnds, z \in Children}

(* A keep or alw beside a keep or alw; one in an and in a group; one that  *)
(* is created in the SORT loop.                                            *)
KeepPairwise ==
  {Program("and", <<ta, tb>>, Code(<<Create(k, <<>>), Create(k, <<tc>>), Run>>,
                                   <<Create(l, <<>>), Create(l, <<td>>)>>, y, z)) :
     k \in {"keep", "alw"}, l \in {"keep", "alw"}, y \in Bodies, z \in Children}
KeepInside ==
  {Program(type, <<ta>>, Code(<<Create("and", <<tb, tc>>)>> \o u, <<Create(k, <<>>), Create(k, <<td>>)>>, x, z)) :
     type \in {"and", "pal"}, u \in {<<Finish>>, Body(1)}, k \in {"keep", "alw"},
     x \in KeepEnds, z \in Children}
KeepLate ==
  {Program("and", <<ta, tb>>, Code(<<Collect, Create(k, <<>>), Create(k, <<tc>>)>>, x, y, <<Finish>>)) :
     k \in {"keep", "alw"}, x \in KeepEnds, y \in Children}

MCPrograms ==
  Flat \cup Flat4 \cup Nested \cup Late(EndInSort) \cup NestedPrj(Bodies)
    \cup NestedPrj2(EndInWalk \cup {Body(2)}) \cup PrjAsP \cup Keeps \cup KeepGroups(EndInSort) \cup KeepPairs \cup KeepChains
    \cup KeepPairwise \cup KeepInside \cup KeepLate
    \cup Deep \cup Chain \cup LateDeep \cup LatePrj

(* A group created in the SORT loop all of whose branches end at once. *)
OverrunPrograms == Late(EndInWalk)

LatePrograms == NestedPrj(EndInSort)

(* The keep thread goes on until the statement ends. *)
KeepPrograms ==
  {Program("and", <<ta, tb>>, Code(<<Create("keep", <<>>), Create("keep", <<tc>>), Run, Run>>,
                                 x, <<Collect, FinishNone>>, <<Finish>>)) : x \in Bodies}

(* What ThreadTreeWaits proves about is what these statements are.         *)
ASSUME MCOrderly == KeeplessAreOrderly
=============================================================================
