---- MODULE MCRunLoop ----
(* RunLoop with a few tasks and short calls. *)
EXTENDS RunLoop, TLC

Symmetry == Permutations(Jobs) \union Permutations(Intrusive)
====
