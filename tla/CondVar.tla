------------------------------- MODULE CondVar -------------------------------
(***************************************************************************)
(* exe::sync::CondVar (exe/sync/condition_variable.hpp) over the futex     *)
(* wrappers of syscalls/futex, for a client module to extend: it owns the  *)
(* program counter, this module says what the steps of Wait, NotifyOne and *)
(* NotifyAll do to it.  A waiting thread goes through the labels           *)
(*   wait    count_ read, mutex released, before FUTEX_WAIT                *)
(*   asleep  blocked by the kernel on the address of count_                *)
(*   reload  back from FUTEX_WAIT, before value->load                      *)
(* and then takes the mutex of its client again.                           *)
(***************************************************************************)
EXTENDS Naturals

CONSTANTS CondVars,  \* the condition variables of the client
          WordSize   \* count_ counts modulo this: 2^32 in the code

ASSUME WordSizeAssumption == WordSize \in Nat \ {0, 1}

VARIABLES count,     \* count[v]: count_ of condition variable v
          ticket,    \* ticket[t]: the condition variable t waits on and the
                     \* value of count_ it read before releasing the mutex
          pc

Fresh(t) == count[ticket[t].cv] = ticket[t].value

Asleep(v) == {t \in DOMAIN pc : pc[t] = "asleep" /\ ticket[t].cv = v}

Goto(t, from, to) == pc[t] = from /\ pc' = [pc EXCEPT ![t] = to]
-----------------------------------------------------------------------------
\* Faulty variants, one plausible slip each; no specification uses them.
\* NotifyOne and NotifyAll wake without counting.
UncountedNotify(v) == UNCHANGED count
-----------------------------------------------------------------------------
\* Wait, up to other.unlock(): a conjunct of the critical section that calls it.
BeginWait(t, v, from) ==
  /\ Goto(t, from, "wait")
  /\ ticket' = [ticket EXCEPT ![t] = [cv |-> v, value |-> count[v]]]

\* FUTEX_WAIT(count_, value): the kernel compares and sleeps in one step.
FutexWait(t) ==
  /\ Goto(t, "wait", IF Fresh(t) THEN "asleep" ELSE "reload")
  /\ UNCHANGED <<count, ticket>>

\* FUTEX_WAIT may return for no reason.
SpuriousWake(t) == Goto(t, "asleep", "reload") /\ UNCHANGED <<count, ticket>>

\* The loop of futex::Wait; the client locks the mutex again at label "to".
Reload(t, to) ==
  /\ Goto(t, "reload", IF Fresh(t) THEN "wait" ELSE to)
  /\ UNCHANGED <<count, ticket>>

\* count_.fetch_add(1), the first half of both notifications.
Notify(v) == count' = [count EXCEPT ![v] = (@ + 1) % WordSize]

\* FUTEX_WAKE of one: t goes on at label "to".
WakeOne(t, v, from, to) ==
  /\ pc[t] = from
  /\ \/ \E u \in Asleep(v) : pc' = [pc EXCEPT ![t] = to, ![u] = "reload"]
     \/ Asleep(v) = {} /\ pc' = [pc EXCEPT ![t] = to]
  /\ UNCHANGED <<count, ticket>>

\* FUTEX_WAKE of all.
WakeAll(t, v, from, to) ==
  /\ pc[t] = from
  /\ pc' = [u \in DOMAIN pc |->
              IF u = t THEN to ELSE IF u \in Asleep(v) THEN "reload" ELSE pc[u]]
=============================================================================
