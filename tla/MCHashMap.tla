----------------------------- MODULE MCHashMap -----------------------------
(* An instance of HashMap for TLC: the search starts at 3 and the maximum, *)
(* 8, is no prime, so that the capacities are 3, 5 and 7.                  *)
EXTENDS HashMap

MCRequests == 0 .. 9
=============================================================================
