----------------------------- MODULE FutexMutex -----------------------------
(***************************************************************************)
(* exe::sync::Mutex (exe/sync/mutex.hpp) over the futex wrappers of        *)
(* syscalls/futex.  One action is one atomic operation on busy_ or one     *)
(* futex system call; everything between two of them is local to a thread. *)
(*                                                                         *)
(* pc[t] says where thread t is:                                           *)
(*   out       not in a call and not the owner                             *)
(*   exchange  in Lock, before busy_.exchange(2)                           *)
(*   wait      in futex::Wait, before the FUTEX_WAIT system call           *)
(*   asleep    blocked by the kernel on the address of busy_               *)
(*   reload    back from FUTEX_WAIT, before value->load                    *)
(*   cs        the owner: Lock returned, or TryLock returned true          *)
(*   wake      in Unlock, after busy_.exchange(0) returned 2               *)
(***************************************************************************)
EXTENDS Naturals

CONSTANTS Threads, \* the threads that share the mutex
          Nobody   \* the owner of a free mutex, for the abstract lock

ASSUME NobodyAssumption == Nobody \notin Threads

VARIABLES busy,    \* busy_: 0 free, 1 locked, 2 locked and maybe waited for
          pc

mutexVars == <<busy, pc>>

Labels == {"out", "exchange", "wait", "asleep", "reload", "cs", "wake"}

MutexInit == busy = 0 /\ pc = [t \in Threads |-> "out"]

Goto(t, from, to) == pc[t] = from /\ pc' = [pc EXCEPT ![t] = to]
-----------------------------------------------------------------------------
\* Faulty variants, one plausible slip each; no specification uses them.  A
\* property shows its teeth when one takes the place of the definition it is a
\* variant of and TLC refutes the property.
\* A woken thread takes the mutex by TryLock and forgets the other sleepers.
ForgetfulExchange(t) ==
  /\ Goto(t, "exchange", IF busy = 0 THEN "cs" ELSE "wait")
  /\ busy' = IF busy = 0 THEN 1 ELSE 2

\* futex::Wait returns to Lock only when told it has the mutex.
TrustingReload(t) ==
  /\ Goto(t, "reload", IF busy = 2 THEN "wait" ELSE "cs")
  /\ UNCHANGED busy
-----------------------------------------------------------------------------
\* TryLock succeeds: compare_exchange_strong(0, 1).  It is also the first
\* step of Lock.  A failing TryLock changes nothing.
TryLock(t) == busy = 0 /\ busy' = 1 /\ Goto(t, "out", "cs")

\* Lock: TryLock failed, on to the loop.
LockSlow(t) == busy # 0 /\ Goto(t, "out", "exchange") /\ UNCHANGED busy

\* while (busy_.exchange(2))
Exchange(t) ==
  /\ Goto(t, "exchange", IF busy = 0 THEN "cs" ELSE "wait")
  /\ busy' = 2

\* FUTEX_WAIT: the kernel compares and sleeps in one step.
FutexWait(t) ==
  /\ Goto(t, "wait", IF busy = 2 THEN "asleep" ELSE "reload")
  /\ UNCHANGED busy

\* FUTEX_WAIT may return for no reason (a signal).
SpuriousWake(t) == Goto(t, "asleep", "reload") /\ UNCHANGED busy

\* futex::Wait leaves its loop when the word no longer holds the old value.
Reload(t) ==
  /\ Goto(t, "reload", IF busy = 2 THEN "wait" ELSE "exchange")
  /\ UNCHANGED busy

\* Unlock: last = busy_.exchange(0).
Unlock(t) ==
  /\ Goto(t, "cs", IF busy = 2 THEN "wake" ELSE "out")
  /\ busy' = 0

\* FUTEX_WAKE of at most one sleeper; the kernel picks.
WakeOne(t) ==
  /\ pc[t] = "wake"
  /\ \/ \E u \in Threads :
          /\ pc[u] = "asleep"
          /\ pc' = [pc EXCEPT ![t] = "out", ![u] = "reload"]
     \/ /\ \A u \in Threads : pc[u] # "asleep"
        /\ pc' = [pc EXCEPT ![t] = "out"]
  /\ UNCHANGED busy

\* The steps a thread takes once it has entered a call.
Step(t) ==
  Exchange(t) \/ FutexWait(t) \/ Reload(t) \/ Unlock(t) \/ WakeOne(t)

MutexNext == \E t \in Threads : TryLock(t) \/ LockSlow(t) \/ Step(t) \/ SpuriousWake(t)

MutexSpec == MutexInit /\ [][MutexNext]_mutexVars

\* The system runs every thread that can run, and owners leave the critical
\* section.  Nobody is obliged to call Lock, and no spurious wake-up is owed.
FairMutexSpec == MutexSpec /\ \A t \in Threads : WF_mutexVars(Step(t))
-----------------------------------------------------------------------------
MutexTypeOK == busy \in 0 .. 2 /\ pc \in [Threads -> Labels]

\* At most one thread is between a successful Lock or TryLock and Unlock.
MutualExclusion ==
  \A t, u \in Threads : pc[t] = "cs" /\ pc[u] = "cs" => t = u

\* busy_ is 0 exactly while nobody owns the mutex.  This is why the thread
\* whose exchange finds 0 may take it.
BusyMeansOwned == busy = 0 <=> \A t \in Threads : pc[t] # "cs"

\* One owner, and busy_ knows of it, whoever is on its way through the mutex.
ExclusionInv == MutexTypeOK /\ MutualExclusion /\ BusyMeansOwned

\* No lost wake-up: as long as somebody sleeps in the kernel, either the owner
\* is bound to see the 2 and wake one of them, or a thread on its way through
\* Lock or Unlock will look at busy_ again or issue the wake.
SleepersAreRemembered ==
  (\E t \in Threads : pc[t] = "asleep") =>
    \/ busy = 2
    \/ \E t \in Threads : pc[t] \in {"wake", "exchange", "wait", "reload"}

\* A thread that waits for the mutex, asleep or not, is not left with a mutex
\* nobody owns for ever: some thread gets it.  (Not necessarily that thread:
\* sync::Mutex lets late comers barge.)
SomebodyGetsIt ==
  (\E t \in Threads : pc[t] \in {"exchange", "wait", "asleep", "reload"})
    ~> (\E t \in Threads : pc[t] = "cs")

\* sync::Mutex is a mutex: seen through its owner it does what Ownership allows.
Owner ==
  IF \E t \in Threads : pc[t] = "cs"
    THEN CHOOSE t \in Threads : pc[t] = "cs" ELSE Nobody

Promise == INSTANCE Ownership WITH Callers <- Threads, Free <- Nobody, owner <- Owner

ImplementsOwnership == Promise!Contract
=============================================================================
