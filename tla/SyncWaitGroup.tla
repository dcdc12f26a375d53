--------------------------- MODULE SyncWaitGroup ---------------------------
(***************************************************************************)
(* exe::sync::WaitGroup (exe/sync/wait_group.hpp) on its own: threads that *)
(* Add and Done, threads that Wait, the condition variable inside, and the *)
(* end of the group's life.  Nothing keeps a thread from adding while the  *)
(* waiters of the last round are still on their way out.  mutex_ is a Lock *)
(* (FutexMutex): it is taken when nobody is between lock and unlock.       *)
(*                                                                         *)
(* Labels besides those of CondVar:                                        *)
(*   out                          in no call                               *)
(*   add, done, entry, recheck    before mutex_.lock() in Add, in Done, in *)
(*                                Wait and at the end of cv_.Wait          *)
(*   adding, doing, entered, rechecking   behind it                        *)
(*   notify, wakeall, clear, unlock   the rest of Done, mutex held         *)
(*   leave                        behind busy_.exchange(0) in Unlock, whose*)
(*                                wake-up uses nothing but an address      *)
(***************************************************************************)
EXTENDS CondVar, FiniteSets

CONSTANTS Adders,    \* the threads that call Add and Done
          Waiters,   \* the threads that call Wait
          MaxAdds,   \* bound: the number of calls of Add
          MaxCount,  \* bound: the argument of Add
          MaxWaits   \* bound: the number of calls of Wait by one thread

ASSUME GroupAssumption ==
  /\ Adders \intersect Waiters = {} /\ IsFiniteSet(Adders) /\ IsFiniteSet(Waiters)
  /\ MaxAdds \in Nat /\ MaxCount \in Nat /\ MaxWaits \in Nat
  /\ "wg" \in CondVars
  /\ WordSize > MaxAdds

VARIABLES countWorkers,   \* count_workers_
          registered,     \* waiters_
          owed,      \* the Dones that callers of Add still have to make
          adds,      \* the number of calls of Add so far
          waits,     \* waits[t]: the number of calls of Wait by t
          released,  \* history: those in Wait at the last time the count was 0
          overtaken, \* history: those of them that went back to sleep, because
                     \* somebody had added before they had the mutex back
          settled,   \* history: those back from a Wait that no Add came after
          intact      \* the group has not been destroyed

group == <<countWorkers, registered>>
world == <<owed, adds, waits, released, overtaken, settled, intact>>
groupVars == <<count, ticket, pc, group, world>>

Users == Adders \union Waiters

Critical == {"adding", "doing", "entered", "rechecking", "notify", "wakeall", "clear", "unlock"}

Sleeping == {"wait", "asleep", "reload", "recheck", "rechecking"}

GroupLabels == {"out", "add", "done", "entry", "leave"} \union Critical \union Sleeping

MutexFree == \A t \in Users : pc[t] \notin Critical

\* The threads in the loop of Wait, registered in waiters_ when they came.
InLoop == {t \in Waiters : pc[t] \in Sleeping}

GroupInit ==
  /\ count = [v \in CondVars |-> 0]
  /\ ticket = [t \in Users |-> [cv |-> "wg", value |-> 0]]
  /\ pc = [t \in Users |-> "out"]
  /\ countWorkers = 0 /\ registered = 0
  /\ owed = 0 /\ adds = 0 /\ waits = [t \in Waiters |-> 0]
  /\ released = {} /\ overtaken = {} /\ settled = {}
  /\ intact = TRUE
-----------------------------------------------------------------------------
\* Faulty variants, one plausible slip each; no specification uses them.
\* Wait returns without the mutex if it sees the count at 0.
WaitPeeks(t) ==
  /\ countWorkers = 0
  /\ Goto(t, "entry", "leave") \/ Goto(t, "entered", "leave") \/ Goto(t, "rechecking", "leave")
  /\ released' = released \ {t} /\ overtaken' = overtaken \ {t}
  /\ settled' = settled \union {t}
  /\ UNCHANGED <<count, ticket, group, owed, adds, waits, intact>>
-----------------------------------------------------------------------------
CallAdd(t) ==
  /\ intact /\ adds < MaxAdds /\ Goto(t, "out", "add")
  /\ adds' = adds + 1
  /\ UNCHANGED <<count, ticket, group, owed, waits, released, overtaken, settled, intact>>

CallDone(t) ==
  /\ owed > 0 /\ Goto(t, "out", "done")
  /\ owed' = owed - 1
  /\ UNCHANGED <<count, ticket, group, adds, waits, released, overtaken, settled, intact>>

CallWait(t) ==
  /\ intact /\ waits[t] < MaxWaits /\ Goto(t, "out", "entry")
  /\ waits' = [waits EXCEPT ![t] = @ + 1]
  /\ UNCHANGED <<count, ticket, group, owed, adds, released, overtaken, settled, intact>>

\* mutex_.lock(), and other.lock() in CondVar::Wait.
Acquire(t) ==
  /\ MutexFree
  /\ \/ Goto(t, "add", "adding") \/ Goto(t, "done", "doing")
     \/ Goto(t, "entry", "entered") \/ Goto(t, "recheck", "rechecking")
  /\ UNCHANGED <<count, ticket, group, world>>

Add(t, n) ==
  /\ Goto(t, "adding", "leave")
  /\ countWorkers' = countWorkers + n /\ owed' = owed + n
  /\ settled' = {}
  /\ UNCHANGED <<count, ticket, registered, adds, waits, released, overtaken, intact>>

CountDown(t) ==
  /\ Goto(t, "doing", IF countWorkers = 1 /\ registered # 0 THEN "notify" ELSE "unlock")
  /\ countWorkers' = countWorkers - 1
  /\ released' = IF countWorkers = 1 THEN InLoop ELSE released
  /\ UNCHANGED <<count, ticket, registered, owed, adds, waits, overtaken, settled, intact>>

\* cv_.NotifyAll() under the mutex, and waiters_ = 0 after it.
NotifyAll(t) ==
  /\ Goto(t, "notify", "wakeall") /\ Notify("wg")
  /\ UNCHANGED <<ticket, group, world>>

WakeWaiters(t) ==
  /\ WakeAll(t, "wg", "wakeall", "clear")
  /\ UNCHANGED <<count, ticket, group, world>>

ClearWaiters(t) ==
  /\ Goto(t, "clear", "unlock") /\ registered' = 0
  /\ UNCHANGED <<count, ticket, countWorkers, world>>

\* The end of Done's lock_guard: the exchange in Unlock.
Unlock(t) == Goto(t, "unlock", "leave") /\ UNCHANGED <<count, ticket, group, world>>

\* Wait finds the count at 0, at once or behind cv_.Wait, and unlocks.
WaitEnds(t) ==
  /\ countWorkers = 0
  /\ Goto(t, "entered", "leave") \/ Goto(t, "rechecking", "leave")
  /\ released' = released \ {t} /\ overtaken' = overtaken \ {t}
  /\ settled' = settled \union {t}
  /\ UNCHANGED <<count, ticket, group, owed, adds, waits, intact>>

\* Wait registers, once, and goes to sleep.
WaitBegins(t) ==
  /\ countWorkers # 0 /\ BeginWait(t, "wg", "entered")
  /\ registered' = registered + 1
  /\ UNCHANGED <<count, countWorkers, world>>

WaitGoesOn(t) ==
  /\ countWorkers # 0 /\ BeginWait(t, "wg", "rechecking")
  /\ overtaken' = IF t \in released THEN overtaken \union {t} ELSE overtaken
  /\ UNCHANGED <<count, group, owed, adds, waits, released, settled, intact>>

\* The steps inside cv_.Wait, before other.lock().
SleepInWait(t) ==
  /\ FutexWait(t) \/ Reload(t, "recheck")
  /\ UNCHANGED <<group, world>>

ReturnsSpuriously(t) == SpuriousWake(t) /\ UNCHANGED <<group, world>>

\* The end of Unlock.
Leave(t) == Goto(t, "leave", "out") /\ UNCHANGED <<count, ticket, group, world>>

\* A thread that is back from Wait destroys the group, as the tests do at the
\* end of a scope: nobody is to add or wait any more, and every Done has been
\* called, though it may not have returned.
DestroyGroup ==
  /\ intact /\ settled # {} /\ owed = 0
  /\ \A t \in Users : pc[t] \notin {"add", "adding", "entry", "entered"} \union Sleeping
  /\ intact' = FALSE
  /\ UNCHANGED <<count, ticket, pc, group, owed, adds, waits, released, overtaken, settled>>

\* What a thread in a call does next.
GroupStep(t) ==
  \/ Acquire(t) \/ Leave(t)
  \/ t \in Adders /\ (CountDown(t) \/ NotifyAll(t) \/ WakeWaiters(t) \/ ClearWaiters(t) \/ Unlock(t)
                       \/ \E n \in 1 .. MaxCount : Add(t, n))
  \/ t \in Waiters /\ (WaitEnds(t) \/ WaitBegins(t) \/ WaitGoesOn(t) \/ SleepInWait(t))

GroupNext ==
  \/ DestroyGroup
  \/ \E t \in Adders : CallAdd(t) \/ CallDone(t)
  \/ \E t \in Waiters : CallWait(t) \/ ReturnsSpuriously(t)
  \/ \E t \in Users : GroupStep(t)

GroupSpec == GroupInit /\ [][GroupNext]_groupVars

\* Threads in a call go on, and whoever has to call Done does.
FairGroupSpec ==
  /\ GroupSpec
  /\ \A t \in Users : WF_groupVars(GroupStep(t))
  /\ \A t \in Adders : WF_groupVars(CallDone(t))
-----------------------------------------------------------------------------
GroupTypeOK ==
  /\ count \in [CondVars -> 0 .. WordSize - 1]
  /\ ticket \in [Users -> [cv : CondVars, value : 0 .. WordSize - 1]]
  /\ pc \in [Users -> GroupLabels]
  /\ countWorkers \in Nat /\ registered \in Nat /\ owed \in Nat
  /\ adds \in 0 .. MaxAdds /\ waits \in [Waiters -> 0 .. MaxWaits]
  /\ released \subseteq Waiters /\ overtaken \subseteq Waiters /\ settled \subseteq Waiters
  /\ intact \in BOOLEAN

Notifying == \E t \in Adders : pc[t] \in {"notify", "wakeall", "clear"}

\* waiters_ counts those the last Done has to wake: whoever registered since
\* the count was last 0, and not who was released then and is still inside.
WaitersAreRegistered ==
  ~Notifying => registered = Cardinality(InLoop \ released)

\* With the count at 0 nobody sleeps, or is about to, unless the Done that made
\* it 0 has yet to wake everybody, or the thread was overtaken: released once,
\* it went back to sleep on a count that had been raised again, and waiters_ no
\* longer speaks for it.
OnlyOvertakenSleep ==
  countWorkers = 0 =>
    \A t \in Waiters :
      pc[t] = "asleep" \/ (pc[t] = "wait" /\ Fresh(t)) =>
        \/ t \in overtaken
        \/ \E u \in Adders : pc[u] = "notify" \/ (pc[u] = "wakeall" /\ pc[t] = "asleep")

\* Whoever is back from Wait may destroy the group: a Done that has not returned
\* yet is behind its unlock, and will not touch the group again.
DestroyedIsUnused == ~intact => \A t \in Users : pc[t] \in {"out", "leave"}

\* The types, who is counted, who can be left asleep, and the end of the group.
GroupInv == GroupTypeOK /\ WaitersAreRegistered /\ OnlyOvertakenSleep /\ DestroyedIsUnused

\* Every Wait returns, unless somebody adds before the waiter is out: then it
\* may be left behind, even when the count is 0 for good.
EveryWaitReturns ==
  \A t \in Waiters : pc[t] = "entry" ~> (pc[t] = "out" \/ t \in overtaken)
=============================================================================
