---- MODULE MCCoroutine ----
(* Coroutine with two threads, three fibers, a Body variable or two, and        *)
(* callables that fit in a Body everywhere, nowhere and in some places only.    *)
EXTENDS Coroutine, TLC

CONSTANTS t1, t2, c1, c2, c3, v1, v2, small, large, aligned

MCPlaces == {v1, v2, c1, c2, c3} \union Locals
MCInPlace == ({small} \X MCPlaces) \union ({aligned} \X {v1, "func", c1, "cache"})

Symmetry == Permutations({t1, t2}) \union Permutations({c2, c3})
====
