---- MODULE Ownership ----
\* What sync::Mutex (exe/sync/mutex.hpp) and fibers::Mutex
\* (exe/fibers/sync/mutex.hpp) promise those that share one: at no time does
\* the mutex go from one owner to another without having been free between.
CONSTANTS Callers,   \* the threads (or fibers) that use the mutex
          Free       \* the owner of a free mutex; not a caller

VARIABLE owner

\* Lock or TryLock returns with a mutex nobody had, or Unlock of the fibers'
\* mutex, having let go, passes it to one that waits.
Granted == owner = Free /\ owner' \in Callers

\* Unlock takes it from the caller that had it.
GivenUp == owner \in Callers /\ owner' = Free

Contract == owner = Free /\ [][Granted \/ GivenUp]_owner
====
