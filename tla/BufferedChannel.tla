-------------------------- MODULE BufferedChannel --------------------------
(***************************************************************************)
(* exe::fibers::BufferedChannel (exe/fibers/sync/buffered_channel.hpp): a  *)
(* ring of messages and a list of waiting fibers under a SpinLock, used by *)
(* fibers on a scheduler.  A fiber that has to wait suspends with the lock *)
(* held; its awaiter, run by the worker after the switch of stacks, queues *)
(* it and releases the lock.                                               *)
(*                                                                         *)
(* ring and waiters are touched under the lock only.  An action is taking  *)
(* the lock, all that is done under it up to and with its release or       *)
(* Suspend, the Schedule that follows a release, or a step of the runtime. *)
(* The ring is that of RingQueue.                                          *)
(*                                                                         *)
(* pc[f] says where fiber f is:                                            *)
(*   out                  not in a call                                    *)
(*   sendlock, recvlock   spinning in spin_lock_.lock()                    *)
(*   send, recv           behind it, with the lock                         *)
(*   waitsend, waitrecv   suspended, until the lock is released with it    *)
(*   wakerecv, wakesend   behind the release, before the Schedule of the   *)
(*                        receiver its Send, or sender its Recv, has served*)
(*   sent, got            Send or Recv returns as soon as f runs           *)
(***************************************************************************)
EXTENDS FiberRuntime, RingQueue

CONSTANT MaxSent     \* bound: the number of Sends in one execution

\* A message is known by the place of its Send among all Sends.
Messages == 1 .. MaxSent

\* Where the capacity does not divide the modulus the slots of the indices jump
\* when tail_ wraps; an execution ends before that (2^64 messages in the code).
ASSUME ChannelAssumption ==
  /\ None \notin Fibers \union {"yield", "channel"}
  /\ MaxSent \in Nat
  /\ NoItem \notin Messages
  /\ WordSize % Capacity = 0 \/ MaxSent + 1 < WordSize

VARIABLES locked,    \* spin_lock_
          ring,      \* queue_
          waiters,   \* wait_queue_, the fibers of its awaiters, oldest first
          arg,       \* arg[f]: the argument of the Send that f is in
          value,     \* value[f]: the local variable value of its Recv
          whom,      \* whom[f]: the fiber that f is about to schedule
          sent,      \* the messages passed to Send so far
          pc

data == <<ring, waiters, arg, value, whom, sent>>
channel == <<locked, data, pc>>
vars == <<runtime, channel>>

Labels == {"out", "sendlock", "recvlock", "send", "recv", "waitsend", "waitrecv",
           "wakerecv", "wakesend", "sent", "got"}

Init ==
  /\ RuntimeInit
  /\ locked = FALSE
  /\ ring = NewRing /\ waiters = <<>> /\ sent = {}
  /\ arg = [f \in Fibers |-> NoItem] /\ value = [f \in Fibers |-> NoItem]
  /\ whom = [f \in Fibers |-> None]
  /\ pc = [f \in Fibers |-> "out"]

At(w, label) == running[w] # None /\ pc[running[w]] = label

\* The fiber on w goes from one label to another.
Goto(w, from, to) == At(w, from) /\ pc' = [pc EXCEPT ![running[w]] = to]

\* What the branches of Send ask of the two queues.
MustPass == IsEmpty(ring) /\ waiters # <<>>
-----------------------------------------------------------------------------
\* Faulty variants, one plausible slip each; no specification uses them.
\* Send looks at the receiver that waits and leaves it in the list.
SendPeeks(w) ==
  /\ MustPass
  /\ Goto(w, "send", "wakerecv")
  /\ value' = [value EXCEPT ![Head(waiters)] = arg[running[w]]]
  /\ whom' = [whom EXCEPT ![running[w]] = Head(waiters)]
  /\ locked' = FALSE
  /\ UNCHANGED <<runtime, ring, waiters, arg, sent>>

\* Send releases the lock and then suspends.
SendLetsGo(w) ==
  /\ IsFull(ring)
  /\ Goto(w, "send", "waitsend") /\ Suspend(w, "channel")
  /\ locked' = FALSE
  /\ UNCHANGED data

\* Recv takes the message of the sender that waits.
RecvOvertakes(w) ==
  /\ ~IsEmpty(ring) /\ waiters # <<>>
  /\ Goto(w, "recv", "wakesend")
  /\ value' = [value EXCEPT ![running[w]] = arg[Head(waiters)]]
  /\ whom' = [whom EXCEPT ![running[w]] = Head(waiters)]
  /\ waiters' = Tail(waiters)
  /\ locked' = FALSE
  /\ UNCHANGED <<runtime, ring, arg, sent>>

\* Recv refills the ring and does not schedule the sender.
RecvForgetsSender(w) ==
  /\ ~IsEmpty(ring) /\ waiters # <<>>
  /\ Goto(w, "recv", "got")
  /\ value' = [value EXCEPT ![running[w]] = Oldest(ring)]
  /\ ring' = TryPush(TryPop(ring), arg[Head(waiters)])
  /\ waiters' = Tail(waiters)
  /\ locked' = FALSE
  /\ UNCHANGED <<runtime, arg, whom, sent>>
-----------------------------------------------------------------------------
CallSend(w, m) ==
  /\ sent = 1 .. m - 1
  /\ Goto(w, "out", "sendlock")
  /\ arg' = [arg EXCEPT ![running[w]] = m]
  /\ sent' = sent \union {m}
  /\ UNCHANGED <<runtime, locked, ring, waiters, value, whom>>

CallRecv(w) ==
  /\ Goto(w, "out", "recvlock")
  /\ UNCHANGED <<runtime, locked, data>>

\* SpinLock::Lock: its exchange finds the lock free.
SpinLock(w) ==
  /\ ~locked /\ locked' = TRUE
  /\ Goto(w, "sendlock", "send") \/ Goto(w, "recvlock", "recv")
  /\ UNCHANGED <<runtime, data>>

\* Send: there is room, and no receiver waits.
SendPushes(w) ==
  /\ ~MustPass /\ ~IsFull(ring)
  /\ Goto(w, "send", "sent")
  /\ ring' = TryPush(ring, arg[running[w]])
  /\ locked' = FALSE
  /\ UNCHANGED <<runtime, waiters, arg, value, whom, sent>>

\* Send: a receiver waits and gets the message.
SendPasses(w) ==
  /\ MustPass
  /\ Goto(w, "send", "wakerecv")
  /\ value' = [value EXCEPT ![Head(waiters)] = arg[running[w]]]
  /\ whom' = [whom EXCEPT ![running[w]] = Head(waiters)]
  /\ waiters' = Tail(waiters)
  /\ locked' = FALSE
  /\ UNCHANGED <<runtime, ring, arg, sent>>

\* Send: the ring is full.
SendSuspends(w) ==
  /\ IsFull(ring)
  /\ Goto(w, "send", "waitsend") /\ Suspend(w, "channel")
  /\ UNCHANGED <<locked, data>>

\* Recv: there is no message.
RecvSuspends(w) ==
  /\ IsEmpty(ring)
  /\ Goto(w, "recv", "waitrecv") /\ Suspend(w, "channel")
  /\ UNCHANGED <<locked, data>>

\* Recv: there is one, and no sender waits.
RecvPops(w) ==
  /\ ~IsEmpty(ring) /\ waiters = <<>>
  /\ Goto(w, "recv", "got")
  /\ value' = [value EXCEPT ![running[w]] = Oldest(ring)]
  /\ ring' = TryPop(ring)
  /\ locked' = FALSE
  /\ UNCHANGED <<runtime, waiters, arg, whom, sent>>

\* Recv: a sender waits and its message gets the room.
RecvRefills(w) ==
  /\ ~IsEmpty(ring) /\ waiters # <<>>
  /\ Goto(w, "recv", "wakesend")
  /\ value' = [value EXCEPT ![running[w]] = Oldest(ring)]
  /\ ring' = TryPush(TryPop(ring), arg[Head(waiters)])
  /\ whom' = [whom EXCEPT ![running[w]] = Head(waiters)]
  /\ waiters' = Tail(waiters)
  /\ locked' = FALSE
  /\ UNCHANGED <<runtime, arg, sent>>

\* SenderAwaiter::RunAwaiter, ReceiverAwaiter::RunAwaiter.
RunChannelAwaiter(w) ==
  /\ RunsAwaiter(w, "channel")
  /\ TakeAwaiter(w)
  /\ waiters' = Append(waiters, after[w])
  /\ locked' = FALSE
  /\ UNCHANGED <<runq, ring, arg, value, whom, sent, pc>>

\* node->handler_.Schedule(): the receiver of a Send, the sender of a Recv.
ScheduleServed(w, from, to, back) ==
  /\ At(w, from)
  /\ pc' = [pc EXCEPT ![running[w]] = to, ![whom[running[w]]] = back]
  /\ Schedule(whom[running[w]])
  /\ whom' = [whom EXCEPT ![running[w]] = None]
  /\ UNCHANGED <<running, after, awaiter, coro, locked, ring, waiters, arg, value, sent>>

WakeReceiver(w) == ScheduleServed(w, "wakerecv", "sent", "got")

WakeSender(w) == ScheduleServed(w, "wakesend", "got", "sent")

\* Send returns; Recv returns value.value().
Return(w) ==
  /\ Goto(w, "sent", "out") \/ Goto(w, "got", "out")
  /\ arg' = [arg EXCEPT ![running[w]] = NoItem]
  /\ value' = [value EXCEPT ![running[w]] = NoItem]
  /\ UNCHANGED <<runtime, locked, ring, waiters, whom, sent>>

\* The rest of the program: a fiber yields or completes, new ones start.
Yield(w) == At(w, "out") /\ Suspend(w, "yield") /\ UNCHANGED channel

Finish(w) == At(w, "out") /\ Complete(w) /\ UNCHANGED channel

Start(f) == Go(f) /\ UNCHANGED channel

OnWorker(w) ==
  \/ RunChannelAwaiter(w)
  \/ (Resume(w) \/ Reap(w) \/ RunYield(w)) /\ UNCHANGED channel

InCall(w) ==
  \/ SpinLock(w)
  \/ SendPushes(w) \/ SendPasses(w) \/ SendSuspends(w) \/ WakeReceiver(w)
  \/ RecvPops(w) \/ RecvRefills(w) \/ RecvSuspends(w) \/ WakeSender(w)
  \/ Return(w)

OnFiber(w) ==
  \/ InCall(w)
  \/ CallRecv(w) \/ \E m \in Messages : CallSend(w, m)
  \/ Yield(w) \/ Finish(w)

Next ==
  \/ \E f \in Fibers : Start(f)
  \/ \E w \in Workers : OnWorker(w) \/ OnFiber(w)

Spec == Init /\ [][Next]_vars

\* Threads that can run do.  SpinLock is not fair: its steps are only owed as
\* long as the lock stays free.
FairSpec == Spec /\ \A w \in Workers : WF_vars(OnWorker(w)) /\ WF_vars(OnFiber(w))
-----------------------------------------------------------------------------
TypeOK ==
  /\ RuntimeTypeOK
  /\ awaiter \in [Fibers -> {None, "yield", "channel"}]
  /\ locked \in BOOLEAN
  /\ RingOK(ring, Messages)
  /\ waiters \in Seq(Fibers) /\ whom \in [Fibers -> Fibers \union {None}]
  /\ arg \in [Fibers -> Messages \union {NoItem}]
  /\ value \in [Fibers -> Messages \union {NoItem}]
  /\ sent \subseteq Messages
  /\ pc \in [Fibers -> Labels]

\* wait_queue_ holds senders, and then the ring is full, or receivers, and then
\* it is empty: the casts in Send and Recv rely on it, and it means that nobody
\* waits without a reason.
WaitersAreOfAKind ==
  \/ \A f \in Range(waiters) : pc[f] = "waitsend" /\ IsFull(ring)
  \/ \A f \in Range(waiters) : pc[f] = "waitrecv" /\ IsEmpty(ring)

\* The spin lock is held by exactly one party, and that one is on a thread: a
\* fiber behind lock(), or a worker that has yet to run the awaiter of a fiber
\* that suspended with it.  So a thread never spins for a fiber that is queued
\* behind it.
HolderIsOnAThread ==
  LET holders == {w \in Workers : At(w, "send") \/ At(w, "recv") \/ RunsAwaiter(w, "channel")}
  IN  IF locked THEN \E w \in Workers : holders = {w} ELSE holders = {}

\* The types, waiters that have a reason to wait, a spin lock that is held on a
\* thread, and a ring whose slots are those its indices mean.
WaitersInv == TypeOK /\ WaitersAreOfAKind /\ HolderIsOnAThread /\ SlotsMatchIndices(ring)

\* A call that has been served returns: the receiver that has its message and
\* the sender whose message is in the ring, or taken, are not forgotten.
Served(f) ==
  \/ pc[f] = "waitrecv" /\ value[f] # NoItem
  \/ pc[f] = "waitsend" /\ awaiter[f] = None /\ f \notin Range(waiters)

\* No definition tells one fiber from another: what holds of one holds of all.
ServedReturns ==
  LET f == CHOOSE g \in Fibers : TRUE
  IN  Served(f) ~> pc[f] = "out"

\* The fibers in the list, or about to be scheduled, are parked.
Parking == INSTANCE Fibers WITH
  Awaiters <- {"yield", "channel"}, parked <- Range(waiters) \union (Range(whom) \ {None})

ImplementsFibers == Parking!Spec

\* BufferedChannel is a channel: messages in the ring and then those of the
\* senders that wait.  A Send counts from when its message is there.
Line ==
  IF \E f \in Range(waiters) : pc[f] = "waitsend"
    THEN Contents(ring) \o [i \in DOMAIN waiters |-> arg[waiters[i]]] ELSE Contents(ring)

Owed ==
  {arg[f] : f \in {g \in Fibers :
     \/ pc[g] \in {"wakerecv", "sent"}
     \/ pc[g] = "waitsend" /\ awaiter[g] = None}}

AbstractChannel == INSTANCE Channel WITH
  Callers <- Fibers, NoMessage <- NoItem, line <- Line, taken <- value, owed <- Owed,
  sent <- Owed \union {m \in sent : \A f \in Fibers : arg[f] # m}

ImplementsChannel == AbstractChannel!Spec
=============================================================================
