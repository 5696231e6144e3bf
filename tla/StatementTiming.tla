-------------------------- MODULE StatementTiming ---------------------------
(***************************************************************************)
(* When the threads of a statement have to run, derived from the statement *)
(* alone, and that ThreadTree runs them so.                                *)
(***************************************************************************)
EXTENDS ThreadTree

(***************************************************************************)
(* The state in which each slice is due, from the meaning of the           *)
(* statements alone: a collected statement is executed in the state in     *)
(* which it was collected; and and pal start their branches together and   *)
(* end with the last; prj starts each p where the one before has ended;    *)
(* what follows a statement starts in the state in which that ends; any    *)
(* other slice is due one state later.                                     *)
(***************************************************************************)
Due[t \in Threads, start \in Nat, i \in Nat] ==
  IF i = 1 THEN start
  ELSE LET slice == prog.code[t][i - 1]
           before == Due[t, start, i - 1]
           End(c, s) == Due[c, s, Len(prog.code[c])]
       IN CASE slice.push \/ (slice.make \in {"keep", "alw"} /\ slice.kids = <<>>) -> before
            [] slice.make \in {"and", "pal"} -> Max({End(c, before) : c \in ToSet(slice.kids)})
            [] slice.make = "prj" ->
                 FoldLeft(LAMBDA s, p : End(p, s), before, Tail(slice.kids))
            [] OTHER -> before + 1

(* The group a thread belongs to: its type, its members, and the slice     *)
(* that created it (none for the children of the root).                    *)
GroupOf(t) ==
  IF t \in ToSet(prog.top) THEN [type |-> prog.type, kids |-> prog.top, by |-> Null, i |-> 0]
  ELSE LET by == CHOOSE u \in Threads : \E i \in DOMAIN prog.code[u] :
                                          t \in ToSet(prog.code[u][i].kids)
           i == CHOOSE k \in DOMAIN prog.code[by] : t \in ToSet(prog.code[by][k].kids)
       IN [type |-> prog.code[by][i].make, kids |-> prog.code[by][i].kids, by |-> by, i |-> i]

Start[t \in Threads] ==
  LET g == GroupOf(t)
      begins == IF g.by = Null THEN 1 ELSE Due[g.by, Start[g.by], g.i]
      k == CHOOSE j \in DOMAIN g.kids : g.kids[j] = t
  IN IF g.type = "prj" /\ k > 2
     THEN FoldLeft(LAMBDA s, p : Due[p, s, Len(prog.code[p])], begins, SubSeq(g.kids, 2, k - 1))
     ELSE begins

(* The states of q are the starts of the p, and so are the states of what  *)
(* q creates: these threads have a clock of their own.                     *)
IsQ(t) == GroupOf(t).type = "prj" /\ GroupOf(t).kids[1] = t

OwnClock[t \in Threads] ==
  \/ IsQ(t)
  \/ GroupOf(t).by # Null /\ OwnClock[GroupOf(t).by]

Punctual(t) ==
  todo[t] # todo'[t] /\ ~OwnClock[t] => stateNum = Due[t, Start[t], Done(t) + 1]

(* Every thread runs every slice in the state in which it is due: whether  *)
(* the walk, the SORT loop or the keep children come across it, nobody is  *)
(* executed twice in a state, skipped in one, or resumed late after the    *)
(* statement it waits for.                                                 *)
OnTime == [][\A t \in Threads : Punctual(t)]_vars

(***************************************************************************)
(* What may cost a state: the end of a group below a created group, as     *)
(* changedNode cannot hold both ends; a p that collects a statement and    *)
(* ends in the state of its start, with another p to follow; and an alw    *)
(* that arises in the SORT loop or below a keep.                           *)
(***************************************************************************)
Members == ToSet(prog.top) \cup UNION {Created(prog, t) : t \in Threads}

EndsLate(t) ==
  \E i \in DOMAIN prog.code[t] :
    Creates(t, i) /\ GroupOf(t).by # Null /\ GroupOf(t).type \in Groups

NextPLate(t) ==
  /\ GroupOf(t).type = "prj" /\ t \notin {GroupOf(t).kids[1], Last(GroupOf(t).kids)}
  /\ \E i \in DOMAIN prog.code[t] : prog.code[t][i].push
  /\ Due[t, 0, Len(prog.code[t])] = 0

ChildLate(t) ==
  \E i \in DOMAIN prog.code[t] :
    /\ prog.code[t][i].make = "alw"
    /\ GroupOf(t).type = "keep" \/ (i > 1 /\ prog.code[t][i - 1].push)

Delaying == {t \in Members : EndsLate(t) \/ NextPLate(t) \/ ChildLate(t)}

(* As long as no thread of the statement creates a prj, no slice is early, *)
(* and each of the above costs one state at most: what the SORT loop       *)
(* misses the next walk notices.  Without any of them all are on time.     *)
LateOnlyForCause ==
  [][(\A t \in Threads : \A i \in DOMAIN prog.code[t] : prog.code[t][i].make # "prj") =>
       \A t \in Threads :
         LET due == Due[t, Start[t], Done(t) + 1]
         IN todo[t] # todo'[t] /\ ~OwnClock[t] => stateNum \in due .. due + Cardinality(Delaying)]_vars

(* How many states t has entered. *)
Entered(t) ==
  Cardinality({i \in 1 .. Done(t) :
                 i = 1 \/ ~(prog.code[t][i - 1].push \/ Creates(t, i - 1))})

(* As long as there is a p that has not returned, q enters a state exactly *)
(* where a p starts; the starts are known unless a p may be late.          *)
QWithEachP ==
  [][\A t \in Threads :
       LET starts == {Start[p] : p \in {GroupOf(t).kids[j] : j \in 2 .. Len(GroupOf(t).kids)}}
       IN /\ todo[t] # todo'[t] /\ Entered(t)' > Entered(t)
          /\ IsQ(t) /\ GroupOf(t).by = Null
          /\ \A p \in ToSet(prog.top) : ~NextPLate(p)
          /\ \E j \in 2 .. Len(GroupOf(t).kids) : ~Returned(GroupOf(t).kids[j])
          => /\ stateNum \in starts
             /\ Entered(t)' = Cardinality({s \in starts : s <= stateNum})]_vars
=============================================================================
