----------------------------- MODULE MCMallocTrace -----------------------------
(* Instances of MallocTrace for TLC; addresses, callers and the threads that   *)
(* are not the first are interchangeable.                                      *)
EXTENDS MallocTrace, TLC

NameSymmetry == Permutations(Addrs) \cup Permutations(Threads \ {Main})
                  \cup Permutations(Sites)
===============================================================================
