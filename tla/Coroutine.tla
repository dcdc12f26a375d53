----------------------------- MODULE Coroutine -----------------------------
(***************************************************************************)
(* What fibers stand on: exe::fibers::Coroutine and the parts of Fiber and *)
(* Go that use it, syscalls::context (ExecutionContext, MachineContext and *)
(* the assembly under it, SanitizerContext) and the stacks.  Fibers and    *)
(* FiberRuntime have a switch of stacks as one step; this module has the   *)
(* contexts that make it one, on several threads and with fibers that run  *)
(* a RunLoop and so resume others from their own stack.                    *)
(*                                                                         *)
(* The contexts of a coroutine are touched by the thread that runs it and  *)
(* by no other, so an action is what a thread does from one call of Resume *)
(* or Suspend to the first instruction of the code it switches to.  The    *)
(* address and the thread sanitizer are alternatives of one build; their   *)
(* contexts share no field, so both are carried along.                     *)
(***************************************************************************)
EXTENDS Body, FiniteSets

CONSTANTS Threads, Coroutines, None

\* The parameters of Go, Fiber and Coroutine, and the local of swap.
Locals == {"func", "fiber_body", "coroutine_body", "cache"}

\* An ExecutionContext is never copied or exchanged: it goes by its coroutine and
\* its name there.
Loop(c) == <<"loop_context", c>>
Task(c) == <<"task_context", c>>
Contexts == {"loop_context", "task_context"} \X Coroutines

ASSUME CoroutineAssumption ==
  /\ Threads \intersect Coroutines = {} /\ None \notin Threads \union Coroutines \union Contexts
  /\ Locals \union Coroutines \subseteq Places /\ Coroutines \intersect Locals = {}

\* The Body objects of the program; that of coroutine c, routine_, is at c.
Variables == Places \ (Coroutines \union Locals)

VARIABLES
  cpu,       \* cpu[t]: the stack t's rsp points into
  frame,     \* frame[s]: the frame of SwitchMachineContext on top of stack s
  rsp,       \* rsp[x]: machine_.rsp_ of context x, by its stack
  run,       \* run[s]: the fiber whose Fiber::Run is in progress on stack s
  outer,     \* outer[s]: current_fiber in the Fiber::Switch on s
  running,   \* running[t]: running_fiber
  complete,  \* the coroutines with complete_
  alive,     \* the fibers, each with its stack
  ready,     \* the fibers someone holds and may run
  bodies,    \* the Body objects: routine_ of every coroutine, and others
  san,       \* san[x]: sanitizer_ of context x
  asan,      \* asan[t]: the stack and fake stack the address sanitizer has t on
  tsan,      \* tsan[t]: the fiber the thread sanitizer has t on
  tsanFibers \* the fibers the thread sanitizer has

machine == <<cpu, frame, rsp>>
sanitizer == <<san, asan, tsan, tsanFibers>>
fiber == <<run, outer, running, complete, alive, ready>>
coroutineVars == <<machine, sanitizer, fiber, bodies>>

\* A stack belongs to a thread or is the NewStack of a coroutine, and is never
\* copied or exchanged: it goes by its owner.
Stacks == Threads \union Coroutines

\* What is on top of a stack that is off the CPU: the return to the SwitchTo of
\* a context, or to the trampoline of one that has been set up.
Saved(x) == [of |-> x, fresh |-> FALSE]
Trampoline(x) == [of |-> x, fresh |-> TRUE]
Nothing == [of |-> None, fresh |-> FALSE]

\* A SanitizerContext as memory has it before anything is written: the fields of
\* the address sanitizer's, and those of the thread sanitizer's.
Uninitialized ==
  [stack |-> None, fake |-> None, from |-> None, fiber |-> None, exit_from |-> None]

CoroutineInit ==
  /\ cpu = [t \in Threads |-> t]
  /\ frame = [s \in Stacks |-> Nothing] /\ rsp = [x \in Contexts |-> None]
  /\ run = [s \in Stacks |-> None] /\ outer = [s \in Stacks |-> None]
  /\ running = [t \in Threads |-> None]
  /\ complete = {} /\ alive = {} /\ ready = {}
  /\ bodies = NoBodies
  /\ san = [x \in Contexts |-> Uninitialized]
  /\ asan = [t \in Threads |-> [stack |-> t, fake |-> t]]
  /\ tsan = [t \in Threads |-> t] /\ tsanFibers = Threads
-----------------------------------------------------------------------------
\* SwitchMachineContext: push a frame, exchange rsp, return through the frame
\* that rsp now points at.
SwitchMachineContext(t, from, to) ==
  /\ rsp' = [rsp EXCEPT ![from] = cpu[t]]
  /\ cpu' = [cpu EXCEPT ![t] = rsp[to]]
  /\ frame' = [frame EXCEPT ![cpu[t]] = Saved(from), ![rsp[to]] = Nothing]

\* The frame a switch to context `to` returns through, and the context whose code
\* goes on there: behind SwitchTo, or in Run for the first time.
Found(to) == frame[rsp[to]]
Here(to) == Found(to).of

\* The address sanitizer's context.  start_switch_fiber gives out the fake stack
\* of the stack that is left and takes where the next one is; finish_switch_fiber
\* takes a fake stack back, a fresh stack getting one in time, and tells where the
\* stack left behind is.  x is what the contexts hold so far.
AsanBeforeSwitch(x, t, from, to) == [x EXCEPT ![to].from = from, ![from].fake = asan[t].fake]

AsanBeforeExit(x, from, to) == [x EXCEPT ![to].from = from]

AsanAfterStart(x, t, to) ==
  /\ Found(to).fresh
  /\ asan' = [asan EXCEPT ![t] = [stack |-> x[to].stack, fake |-> rsp[to]]]

AsanAfterSwitch(x, t, to) ==
  /\ ~Found(to).fresh
  /\ asan' = [asan EXCEPT ![t] = [stack |-> x[to].stack, fake |-> x[Here(to)].fake]]

\* The thread sanitizer's context: it knows the fiber it left by asking, and the
\* fiber of a context left for good is destroyed where the thread arrives.
TsanBeforeSwitch(x, t, from) == [x EXCEPT ![from].fiber = tsan[t]]

TsanBeforeExit(x, from, to) == [x EXCEPT ![to].exit_from = from]

TsanAfter(x, t, to) ==
  /\ tsan' = [tsan EXCEPT ![t] = x[to].fiber]
  /\ tsanFibers' = tsanFibers \ {x[y].fiber : y \in Contexts \intersect {x[Here(to)].exit_from}}

\* What a switch does to the sanitizers, given what they did before it.
Arrive(x, t, to) ==
  /\ AsanAfterStart(x, t, to) \/ AsanAfterSwitch(x, t, to)
  /\ TsanAfter(x, t, to)
  /\ san' = [x EXCEPT ![x[Here(to)].from].stack = asan[t].stack, ![Here(to)].exit_from = None]

SwitchTo(t, from, to) ==
  /\ SwitchMachineContext(t, from, to)
  /\ Arrive(TsanBeforeSwitch(AsanBeforeSwitch(san, t, from, to), t, from), t, to)

ExitTo(t, from, to) ==
  /\ SwitchMachineContext(t, from, to)
  /\ Arrive(TsanBeforeExit(AsanBeforeExit(san, from, to), from, to), t, to)

\* NewStack, an array of its own for every coroutine: names stand for addresses,
\* so a stack that was freed can come back as the next one.
AllocateBytes(c) == c \notin alive /\ alive' = alive \union {c}

FreeStack(c) == alive' = alive \ {c} /\ frame' = [frame EXCEPT ![c] = Nothing]

\* The frame that starts the trampoline, on top of a new stack.
SetupMachineContext(c) == frame' = [frame EXCEPT ![c] = Trampoline(Task(c))]

SetupMachine(c) == SetupMachineContext(c) /\ rsp' = [rsp EXCEPT ![Task(c)] = c]

AsanSetup(x, c) == [x EXCEPT ![Task(c)].stack = c]

TsanSetup(x, c) == [x EXCEPT ![Task(c)].fiber = c]

SetupSanitizer(c) ==
  /\ san' = TsanSetup(AsanSetup(san, c), c)
  /\ tsanFibers' = tsanFibers \union {c}

Setup(c) == SetupMachine(c) /\ SetupSanitizer(c)
-----------------------------------------------------------------------------
\* Faulty variants, one plausible slip each; no specification uses them.
\* Switch leaves running_fiber null: no fiber was running before.
SwitchClears(t, s) == running' = [running EXCEPT ![t] = None]
-----------------------------------------------------------------------------
\* Fiber::Switch behind Resume, on stack s.
SwitchReturns(t, s) == running' = [running EXCEPT ![t] = outer[s]]

IsCompleted(c) == c \in complete

\* Thread t is in the program, or in the routine of a fiber, and not behind the
\* Switch of a Fiber::Run.
InProgram(t) == run[cpu[t]] = None

\* Go, of a callable or of a Body the program has: new Fiber and Submit.
Go(t, c) ==
  /\ InProgram(t) /\ AllocateBytes(c)
  /\ \/ \E f \in Callables :
          /\ \A object \in bodies.objects : object[1] # f
          /\ bodies' = HandDown(Construct(bodies, "func", f), "func", "fiber_body", "coroutine_body", c)
     \/ \E v \in Variables :
          /\ ~IsEmpty(bodies, v)
          /\ bodies' = HandDown(Move(bodies, v, "func"), "func", "fiber_body", "coroutine_body", c)
  /\ ready' = ready \union {c}
  /\ Setup(c)
  /\ UNCHANGED <<cpu, run, outer, running, complete, asan, tsan>>

\* Fiber::Run, Switch, Resume, from whatever stack t is on.
Resume(t, c) ==
  /\ InProgram(t) /\ c \in ready /\ c \notin complete
  /\ ready' = ready \ {c}
  /\ run' = [run EXCEPT ![cpu[t]] = c]
  /\ outer' = [outer EXCEPT ![cpu[t]] = running[t]]
  /\ running' = [running EXCEPT ![t] = c]
  /\ SwitchTo(t, Loop(c), Task(c))
  /\ UNCHANGED <<complete, alive, bodies>>

\* Self().Suspend(awaiter).
Suspend(t) ==
  /\ running[t] # None /\ InProgram(t)
  /\ SwitchTo(t, Task(running[t]), Loop(running[t]))
  /\ SwitchReturns(t, cpu'[t])
  /\ UNCHANGED <<run, outer, complete, alive, ready, bodies>>

\* routine_ returns: the end of Coroutine::Run.
Complete(t) ==
  /\ running[t] # None /\ InProgram(t)
  /\ complete' = complete \union {running[t]}
  /\ ExitTo(t, Task(running[t]), Loop(running[t]))
  /\ SwitchReturns(t, cpu'[t])
  /\ UNCHANGED <<run, outer, alive, ready, bodies>>

\* Fiber::Run behind Switch: the fiber suspended, and whoever its awaiter leaves
\* it with may run it.
RunAwaiter(t) ==
  LET c == run[cpu[t]]
  IN  /\ c # None /\ ~IsCompleted(c)
      /\ ready' = ready \union {c}
      /\ run' = [run EXCEPT ![cpu[t]] = None] /\ outer' = [outer EXCEPT ![cpu[t]] = None]
      /\ UNCHANGED <<machine, sanitizer, running, complete, alive, bodies>>

\* Fiber::Run behind Switch: delete this, with the contexts, the stack and the
\* routine; their memory serves the next fiber at the same address.
Delete(t) ==
  LET c == run[cpu[t]]
  IN  /\ IsCompleted(c)
      /\ FreeStack(c) /\ complete' = complete \ {c}
      /\ bodies' = End(bodies, c)
      /\ run' = [run EXCEPT ![cpu[t]] = None] /\ outer' = [outer EXCEPT ![cpu[t]] = None]
      /\ rsp' = [rsp EXCEPT ![Loop(c)] = None, ![Task(c)] = None]
      /\ san' = [san EXCEPT ![Loop(c)] = Uninitialized, ![Task(c)] = Uninitialized]
      /\ UNCHANGED <<cpu, asan, tsan, tsanFibers, running, ready>>

\* What the program does with its own Body objects.
UseBodies(t) ==
  /\ InProgram(t)
  /\ \E v \in Variables :
       \/ \E f \in Callables :
            /\ \A object \in bodies.objects : object[1] # f
            /\ bodies' = Assign(bodies, v, f)
       \/ ~IsEmpty(bodies, v) /\ bodies' = Destroy(bodies, v)
       \/ \E w \in Variables :
            \/ v # w /\ bodies' = MoveAssign(bodies, v, w)
            \/ bodies' = Swap(bodies, v, w, "cache")
  /\ UNCHANGED <<machine, sanitizer, fiber>>

CoroutineNext ==
  \E t \in Threads :
    \/ \E c \in Coroutines : Go(t, c) \/ Resume(t, c)
    \/ Suspend(t) \/ Complete(t) \/ RunAwaiter(t) \/ Delete(t) \/ UseBodies(t)

CoroutineSpec == CoroutineInit /\ [][CoroutineNext]_coroutineVars
-----------------------------------------------------------------------------
Rsp == Stacks \union {None}

CoroutineTypeOK ==
  /\ cpu \in [Threads -> Stacks]
  /\ frame \in [Stacks -> [of : Contexts \union {None}, fresh : BOOLEAN]]
  /\ rsp \in [Contexts -> Rsp]
  /\ run \in [Stacks -> Coroutines \union {None}] /\ outer \in [Stacks -> Coroutines \union {None}]
  /\ running \in [Threads -> Coroutines \union {None}]
  /\ complete \subseteq alive /\ ready \subseteq alive /\ alive \subseteq Coroutines
  /\ san \in [Contexts -> [stack : Rsp, fake : Rsp, from : Contexts \union {None},
                           fiber : Rsp, exit_from : Contexts \union {None}]]
  /\ asan \in [Threads -> [stack : Rsp, fake : Rsp]] /\ tsan \in [Threads -> Rsp]

\* The stacks some thread is on, and those it will return to: a stack is off the
\* CPU and in Fiber::Run when a switch from it is pending.
Active == {cpu[t] : t \in Threads}
Waiting == {s \in Stacks \ Active : run[s] # None}

\* A thread executes on the stack of its running_fiber, or its own without one:
\* so Self() is the fiber that calls it.  No stack is used by two threads, and
\* none is used that has been deleted.
RunningIsHere ==
  /\ \A t \in Threads : cpu[t] = (IF running[t] = None THEN t ELSE running[t])
  /\ \A t, u \in Threads : t # u => cpu[t] # cpu[u]
  /\ (Active \union Waiting) \subseteq Threads \union alive

\* A context that can be switched to points at the stack its owner left, and the
\* frame on top there is its own: a fiber that is free, at its own stack; the loop
\* of a fiber that runs, at the stack that resumed it.
FramesAreWhereTheyWereLeft ==
  /\ \A c \in ready : rsp[Task(c)] = c /\ frame[c].of = Task(c)
  /\ \A s \in Waiting : rsp[Loop(run[s])] = s /\ frame[s] = Saved(Loop(run[s]))
  /\ \A s \in Active : frame[s] = Nothing

\* A fiber is run from one stack at a time, and everything that is resumed and
\* not free is on a CPU, waits for what it resumed, or is behind its Switch.
RunsAreNested ==
  /\ \A r, s \in Stacks : r # s /\ run[r] # None => run[r] # run[s]
  /\ ready \intersect (Active \union Waiting \union {run[s] : s \in Stacks}) = {}
  /\ \A c \in alive \ ready : \E s \in Stacks : run[s] = c

\* The sanitizers have every thread on the stack it executes on, whichever
\* threads and stacks its fibers came from, and the thread sanitizer has a fiber
\* for each coroutine until it is complete.
SanitizersFollow ==
  /\ \A t \in Threads : asan[t] = [stack |-> cpu[t], fake |-> cpu[t]] /\ tsan[t] = cpu[t]
  /\ tsanFibers = Threads \union (alive \ complete)

\* The types, and the contexts: machine, running_fiber and sanitizers.
ContextsInv ==
  CoroutineTypeOK /\ RunningIsHere /\ FramesAreWhereTheyWereLeft /\ RunsAreNested /\ SanitizersFollow

\* Function objects: no callable is lost, shared or destroyed twice on its way
\* into a fiber, and a fiber's routine lives as long as the fiber, hence as long
\* as anything can return into it; no parameter is left with one.
BodiesInv ==
  /\ EachHasOneOwner(bodies)
  /\ \A c \in Coroutines : c \in alive <=> ~IsEmpty(bodies, c)
  /\ \A p \in Locals : bodies.at[p] = NoFunction
=============================================================================
