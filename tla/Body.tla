-------------------------------- MODULE Body --------------------------------
(***************************************************************************)
(* exe::fibers::Body, a fu2::unique_function<void()>: what its operations  *)
(* do to the function objects of a program and to the callables they hold. *)
(*                                                                         *)
(* A callable lives in the buffer of one function object when it fits      *)
(* there, else in a box on the heap.  cmd_ and vtable_ say which, and of   *)
(* what type it is; the buffer is a union of the callable's bytes and the  *)
(* box's address.  Neither destruction nor a move wipes the buffer, so     *)
(* everything hangs on the tables and on every function object being       *)
(* destroyed once.                                                         *)
(*                                                                         *)
(* A value b of this module has b.at, the function objects by their place, *)
(* and b.objects, the callables that exist, each with where it was built.  *)
(***************************************************************************)
CONSTANTS Callables, NoCallable,
          Places,  \* where function objects can be
          InPlace  \* <<c, p>>: c fits, with its alignment, in the buffer at p

ASSUME BodyAssumption ==
  NoCallable \notin Callables /\ InPlace \subseteq Callables \X Places /\ "heap" \notin Places

\* empty: the tables of empty_cmd; inplace, allocated: those of the callable's
\* type with its retriever.
Function == [cmd : {"empty", "inplace", "allocated"}, buffer : Callables \union {NoCallable}]

NoFunction == [cmd |-> "empty", buffer |-> NoCallable]

NoBodies == [at |-> [p \in Places |-> NoFunction], objects |-> {}]

\* An object is the callable with where it was built: at the place of a function
\* object whose buffer it fits, or in a box.
InBuffer(c, p) == <<c, p>>
InBox(c) == <<c, "heap">>

FitsInBuffer(c, p) == <<c, p>> \in InPlace

\* retrieve: the object the tables at p take the buffer for.
Retrieve(b, p) ==
  CASE b.at[p].cmd = "empty"     -> {}
    [] b.at[p].cmd = "inplace"   -> {InBuffer(b.at[p].buffer, p)}
    [] b.at[p].cmd = "allocated" -> {InBox(b.at[p].buffer)}

IsEmpty(b, p) == b.at[p].cmd = "empty"

SetEmpty(b, p) == [b EXCEPT !.at[p].cmd = "empty"]

\* construct: in place if the callable fits, else in a box of its own.
Construct(b, p, c) ==
  IF FitsInBuffer(c, p)
  THEN [at |-> [b.at EXCEPT ![p] = [cmd |-> "inplace", buffer |-> c]],
        objects |-> b.objects \union {InBuffer(c, p)}]
  ELSE [at |-> [b.at EXCEPT ![p] = [cmd |-> "allocated", buffer |-> c]],
        objects |-> b.objects \union {InBox(c)}]

\* weak_destroy: the callable goes, the tables stay.
WeakDestroy(b, p) == [b EXCEPT !.objects = @ \ Retrieve(b, p)]

Destroy(b, p) == SetEmpty(WeakDestroy(b, p), p)

\* op_move: what was in place is built anew at q and destroyed at p, of a box
\* only the address moves.
MoveOut(b, p, q) ==
  CASE b.at[p].cmd = "empty"     -> SetEmpty(b, q)
    [] b.at[p].cmd = "inplace"   -> WeakDestroy(Construct(b, q, b.at[p].buffer), p)
    [] b.at[p].cmd = "allocated" -> [b EXCEPT !.at[q] = b.at[p]]
-----------------------------------------------------------------------------
\* Faulty variants, one plausible slip each; no specification uses them.
\* The function moved from keeps its tables.
MoveOnly(b, p, q) == MoveOut(b, p, q)
-----------------------------------------------------------------------------
\* The move constructor, from p to a new object at q.
Move(b, p, q) == SetEmpty(MoveOut(b, p, q), p)

\* operator=(function&&); no function is assigned to itself.
MoveAssign(b, p, q) == Move(WeakDestroy(b, q), p, q)

\* operator=(T&&) with a callable.
Assign(b, p, c) == Construct(WeakDestroy(b, p), p, c)

\* The destructor; what comes next at p is another function object.
End(b, p) == [WeakDestroy(b, p) EXCEPT !.at[p] = NoFunction]

\* swap, through a local object.
Swap(b, p, q, cache) ==
  IF p = q THEN b
  ELSE End(MoveAssign(MoveAssign(Move(b, q, cache), p, q), cache, p), cache)

\* A callable handed down by value: into the first place, from each to the
\* next, and the ends of all but the last.
HandDown(b, from, p, q, to) == End(End(End(Move(Move(Move(b, from, p), p, q), q, to), q), p), from)
-----------------------------------------------------------------------------
\* Every callable that exists belongs to exactly one function object, and no
\* function object holds one that is gone.
EachHasOneOwner(b) ==
  /\ b.at \in [Places -> Function]
  /\ b.objects = UNION {Retrieve(b, p) : p \in Places}
  /\ \A p, q \in Places : p # q => Retrieve(b, p) \intersect Retrieve(b, q) = {}
  /\ \A x, y \in b.objects : x[1] = y[1] => x = y
=============================================================================
