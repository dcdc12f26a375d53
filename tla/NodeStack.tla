----------------------------- MODULE NodeStack -----------------------------
(***************************************************************************)
(* What LockFreeStack2 promises: its operations happen one after the other *)
(* on a stack of nodes that can be closed.                                 *)
(***************************************************************************)
EXTENDS Naturals, Sequences

CONSTANTS Threads, Nodes

VARIABLES stack,   \* the nodes in it, newest first
          closed,
          held     \* held[t]: the nodes t has taken and still has to visit

vars == <<stack, closed, held>>

Init == stack = <<>> /\ closed = FALSE /\ held = [t \in Threads |-> <<>>]

\* A node is in one place: in the stack or with one thread.
Free(n) == \A s \in {held[t] : t \in Threads} \union {stack} : \A i \in DOMAIN s : s[i] # n

Push(n) ==
  /\ ~closed /\ Free(n)
  /\ stack' = <<n>> \o stack
  /\ UNCHANGED <<closed, held>>

Pop(t) ==
  /\ stack # <<>> /\ held[t] = <<>>
  /\ held' = [held EXCEPT ![t] = <<Head(stack)>>]
  /\ stack' = Tail(stack)
  /\ UNCHANGED closed

TakeAll(t) ==
  /\ held[t] = <<>>
  /\ held' = [held EXCEPT ![t] = stack] /\ stack' = <<>>
  /\ closed' \in {closed, TRUE}

\* t has read the link of its first node and lets the node go.
Visit(t) ==
  /\ held[t] # <<>>
  /\ held' = [held EXCEPT ![t] = Tail(@)]
  /\ UNCHANGED <<stack, closed>>

Next ==
  \/ \E n \in Nodes : Push(n)
  \/ \E t \in Threads : Pop(t) \/ TakeAll(t) \/ Visit(t)

Spec == Init /\ [][Next]_vars
=============================================================================
