--------------------------- MODULE LockFreeStack ---------------------------
(***************************************************************************)
(* exe::infra::lockfree::LockFreeStack2 (exe/infra/lockfree/lf_stack.hpp): *)
(* a linked stack whose operations read head_, prepare, and retry until a  *)
(* compare-exchange finds head_ unchanged.  One action is one atomic       *)
(* operation on head_, or the read of next_ that comes before it.          *)
(*                                                                         *)
(* Who uses it how (the variable use, fixed at the start):                 *)
(*   "pop"    LockFreeQueue2: Push, and TryPop by one thread at a time     *)
(*   "chain"  Strand: Push and GetChain                                    *)
(*   "close"  Event: TryPush, IsInvalidate and GetChainAndInvalidate       *)
(*                                                                         *)
(* A node is part of an awaiter: it is pushed again, by anybody, as soon   *)
(* as who took it has read its next_ and let it go.                        *)
(*                                                                         *)
(* at[t] says where thread t is:                                           *)
(*   out        in no operation                                            *)
(*   push       in Push or TryPush, before head_.load()                    *)
(*   link       with next_ set, before the compare-exchange                *)
(*   pop        in TryPop, before head_.load()                             *)
(*   next       before the read of current_head->next_                     *)
(*   swing      before the compare-exchange                                *)
(***************************************************************************)
EXTENDS Naturals, FiniteSets, Functions, Sequences

CONSTANTS Threads, Nodes,
          Null,      \* nullptr
          Closed     \* (T*)1

ASSUME NodesAssumption ==
  IsFiniteSet(Nodes) /\ Null \notin Nodes /\ Closed \notin Nodes /\ Null # Closed

VARIABLES use, head, next,
          mine,      \* mine[t]: the node t pushes
          seen,      \* seen[t]: its local variable current_head, Null when out of use
          seenNext,  \* seenNext[t]: what t has read in seen[t]->next_
          got,       \* got[t]: the first node of those t has taken
          at

stackVars == <<use, head, next, mine, seen, seenNext, got, at>>

Links == Nodes \union {Null, Closed}

StackInit ==
  /\ use \in {"pop", "chain", "close"}
  /\ head = Null
  /\ next = [n \in Nodes |-> Null]
  /\ mine = [t \in Threads |-> Null] /\ seen = [t \in Threads |-> Null]
  /\ seenNext = [t \in Threads |-> Null] /\ got = [t \in Threads |-> Null]
  /\ at = [t \in Threads |-> "out"]

Move(t, from, to) == at[t] = from /\ at' = [at EXCEPT ![t] = to]

\* The nodes from n on, by the links nx: walk[k] is the link reached over k
\* nodes, for as many as there are.
ChainFrom(n, nx) ==
  LET walk[k \in Nat] == IF k = 0 THEN n ELSE nx[walk[k - 1]]
      length == CHOOSE k \in 0 .. Cardinality(Nodes) :
                  /\ \A i \in 0 .. k - 1 : walk[i] \in Nodes
                  /\ k < Cardinality(Nodes) => walk[k] \notin Nodes
  IN  [i \in 1 .. length |-> walk[i - 1]]

\* The nodes that t has taken and still has to visit.
Held(t) == IF use = "pop" /\ got[t] \in Nodes THEN <<got[t]>> ELSE ChainFrom(got[t], next)

Stack == ChainFrom(head, next)

Free(n) == n \notin Range(mine) \union Range(Stack) \union UNION {Range(Held(t)) : t \in Threads}
-----------------------------------------------------------------------------
\* Faulty variants, one plausible slip each; no specification uses them.
\* Push stores the new head without comparing.
LinkBlindly(t) ==
  /\ Move(t, "link", "out")
  /\ head' = mine[t] /\ mine' = [mine EXCEPT ![t] = Null]
  /\ seen' = [seen EXCEPT ![t] = Null]
  /\ UNCHANGED <<use, next, seenNext, got>>

\* TryPop takes over the head that its compare-exchange has found, and not the
\* link of that node.
SwingAgain(t) ==
  /\ at[t] = "swing" /\ head \in Nodes
  /\ seen' = [seen EXCEPT ![t] = head]
  /\ UNCHANGED <<use, head, next, mine, seenNext, got, at>>
-----------------------------------------------------------------------------
\* Push, or TryPush if the stack is one that is closed, of a node nobody uses.
CallPush(t, n) ==
  /\ Move(t, "out", "push")
  /\ Free(n)
  /\ mine' = [mine EXCEPT ![t] = n]
  /\ UNCHANGED <<use, head, next, seen, seenNext, got>>

\* Push, TryPush: head_.load() and node->next_ = current_head.
LoadHead(t) ==
  /\ head # Closed
  /\ Move(t, "push", "link")
  /\ seen' = [seen EXCEPT ![t] = head]
  /\ next' = [next EXCEPT ![mine[t]] = head]
  /\ UNCHANGED <<use, head, mine, seenNext, got>>

\* TryPush returns false.
PushRefused(t) ==
  /\ head = Closed
  /\ Move(t, "push", "out")
  /\ mine' = [mine EXCEPT ![t] = Null]
  /\ UNCHANGED <<use, head, next, seen, seenNext, got>>

\* The compare-exchange of Push and TryPush.
Link(t) ==
  /\ head = seen[t]
  /\ Move(t, "link", "out")
  /\ head' = mine[t] /\ mine' = [mine EXCEPT ![t] = Null]
  /\ seen' = [seen EXCEPT ![t] = Null]
  /\ UNCHANGED <<use, next, seenNext, got>>

\* It fails, which the weak form may always do.
LinkFails(t) ==
  /\ Move(t, "link", "push")
  /\ seen' = [seen EXCEPT ![t] = Null]
  /\ UNCHANGED <<use, head, next, mine, seenNext, got>>

\* TryPop, by one thread at a time.
CallPop(t) ==
  /\ use = "pop" /\ got[t] = Null
  /\ \A u \in Threads : at[u] \notin {"pop", "next", "swing"}
  /\ Move(t, "out", "pop")
  /\ UNCHANGED <<use, head, next, mine, seen, seenNext, got>>

\* TryPop: head_.load().
LoadTop(t) ==
  /\ IF head = Null THEN Move(t, "pop", "out") ELSE Move(t, "pop", "next")
  /\ seen' = [seen EXCEPT ![t] = head]
  /\ UNCHANGED <<use, head, next, mine, seenNext, got>>

\* TryPop: the argument current_head->next_.
ReadNext(t) ==
  /\ Move(t, "next", "swing")
  /\ seenNext' = [seenNext EXCEPT ![t] = next[seen[t]]]
  /\ UNCHANGED <<use, head, next, mine, seen, got>>

\* TryPop: the compare-exchange, and its failure.
Swing(t) ==
  /\ head = seen[t]
  /\ Move(t, "swing", "out")
  /\ head' = seenNext[t] /\ got' = [got EXCEPT ![t] = seen[t]]
  /\ seen' = [seen EXCEPT ![t] = Null] /\ seenNext' = [seenNext EXCEPT ![t] = Null]
  /\ UNCHANGED <<use, next, mine>>

SwingFails(t) ==
  /\ Move(t, "swing", "pop")
  /\ seen' = [seen EXCEPT ![t] = Null] /\ seenNext' = [seenNext EXCEPT ![t] = Null]
  /\ UNCHANGED <<use, head, next, mine, got>>

GetChain(t) ==
  /\ use = "chain" /\ at[t] = "out" /\ got[t] = Null
  /\ got' = [got EXCEPT ![t] = head]
  /\ head' = Null
  /\ UNCHANGED <<use, next, mine, seen, seenNext, at>>

GetChainAndInvalidate(t) ==
  /\ use = "close" /\ at[t] = "out" /\ got[t] = Null
  /\ got' = [got EXCEPT ![t] = IF head = Closed THEN Null ELSE head]
  /\ head' = Closed
  /\ UNCHANGED <<use, next, mine, seen, seenNext, at>>

\* The user reads next_ of its first node and lets the node go.
Visit(t) ==
  /\ got[t] # Null /\ at[t] = "out"
  /\ got' = [got EXCEPT ![t] = IF use = "pop" THEN Null ELSE next[got[t]]]
  /\ UNCHANGED <<use, head, next, mine, seen, seenNext, at>>

StackNext ==
  \E t \in Threads :
    \/ \E n \in Nodes : CallPush(t, n)
    \/ LoadHead(t) \/ PushRefused(t) \/ Link(t) \/ LinkFails(t)
    \/ CallPop(t) \/ LoadTop(t) \/ ReadNext(t) \/ Swing(t) \/ SwingFails(t)
    \/ GetChain(t) \/ GetChainAndInvalidate(t)
    \/ Visit(t)

StackSpec == StackInit /\ [][StackNext]_stackVars
-----------------------------------------------------------------------------
StackTypeOK ==
  /\ use \in {"pop", "chain", "close"}
  /\ head \in Links /\ (head = Closed => use = "close")
  /\ next \in [Nodes -> Nodes \union {Null}]
  /\ mine \in [Threads -> Nodes \union {Null}]
  /\ seen \in [Threads -> Nodes \union {Null}] /\ seenNext \in [Threads -> Nodes \union {Null}]
  /\ got \in [Threads -> Nodes \union {Null}]
  /\ at \in [Threads -> {"out", "push", "link", "pop", "next", "swing"}]

\* The compare-exchange of TryPop never succeeds with a stale link, although
\* nodes come back: whoever finds the head it has seen has its current next_.
\* This is where two poppers would go wrong.
SwingIsSafe ==
  \A t \in Threads : at[t] = "swing" /\ head = seen[t] => seenNext[t] = next[head]

\* The types, Closed being no node anybody gets, and links that are not stale.
LinksInv == StackTypeOK /\ SwingIsSafe

\* The operations on the links are operations on a stack, at the instant of
\* their exchange; no node is lost, doubled or in two chains.
AbstractStack == INSTANCE NodeStack WITH
  stack <- Stack, closed <- head = Closed, held <- [t \in Threads |-> Held(t)]

ImplementsNodeStack == AbstractStack!Spec
=============================================================================
