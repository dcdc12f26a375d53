---- MODULE MCLockFreeStack ----
(* LockFreeStack with a few threads and nodes. *)
EXTENDS LockFreeStack, TLC

Symmetry == Permutations(Threads) \union Permutations(Nodes)
====
