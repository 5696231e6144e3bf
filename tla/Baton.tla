------------------------------- MODULE Baton -------------------------------
(***************************************************************************)
(* What the scheduling runtime of function.cpp promises to the program it  *)
(* runs: exactly one thread at a time holds the baton.  The main thread    *)
(* holds it while it builds the thread tree, then hands it to the manager, *)
(* which lends it to one living worker at a time and always gets it back.  *)
(* The main thread continues only after the manager has retired.           *)
(* TurnHandoff implements this with turn, one mutex and one condition      *)
(* variable per node, and polling.                                         *)
(***************************************************************************)
CONSTANTS Main, Manager, Workers

VARIABLES
  holder,   \* the thread that holds the baton
  living,   \* workers that have been spawned and have not ended
  ended,    \* workers whose thread function has returned
  retired   \* has the manager finished the parallel statement?

batonVars == <<holder, living, ended, retired>>

Init ==
  /\ holder = Main
  /\ living = {}
  /\ ended = {}
  /\ retired = FALSE

(* The holder starts a worker; the worker does not get the baton with it. *)
Spawn(w) ==
  /\ ~retired
  /\ holder \in {Main} \cup living
  /\ w \in Workers \ (living \cup ended)
  /\ living' = living \cup {w}
  /\ UNCHANGED <<holder, ended, retired>>

(* The holder pauses: the baton goes to the manager and to nobody else. *)
Surrender ==
  /\ ~retired
  /\ holder \in {Main} \cup living
  /\ holder' = Manager
  /\ UNCHANGED <<living, ended, retired>>

(* A worker ends while it holds the baton ... *)
End ==
  /\ holder \in living
  /\ living' = living \ {holder}
  /\ ended' = ended \cup {holder}
  /\ UNCHANGED <<holder, retired>>

(* ... and the manager notices and takes the baton back. *)
Reclaim ==
  /\ holder \in ended
  /\ holder' = Manager
  /\ UNCHANGED <<living, ended, retired>>

(* The manager lends the baton, only to a worker that is alive. *)
Grant(w) ==
  /\ ~retired
  /\ holder = Manager
  /\ w \in living
  /\ holder' = w
  /\ UNCHANGED <<living, ended, retired>>

Retire ==
  /\ ~retired
  /\ holder = Manager
  /\ living = {}
  /\ retired' = TRUE
  /\ UNCHANGED <<holder, living, ended>>

Resume ==
  /\ retired
  /\ holder = Manager
  /\ holder' = Main
  /\ UNCHANGED <<living, ended, retired>>

Return == Surrender \/ End \/ Reclaim

Next ==
  \/ \E w \in Workers : Spawn(w) \/ Grant(w)
  \/ Return
  \/ Retire
  \/ Resume

(* The safety half of the promise. *)
Promise == Init /\ [][Next]_batonVars

(* A baton that was lent comes back, and a retired manager lets main go on. *)
Spec ==
  /\ Promise
  /\ WF_batonVars(Return)
  /\ WF_batonVars(Resume)
=============================================================================
