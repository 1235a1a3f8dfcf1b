# simpyc in TLA+

A verification development of simpyc, the discrete-event simulation library in
C under `src/`: TLA+ models of the kernel and of the shared resources built on
it, TLC runs on small instances, and proofs checked by TLAPS that hold for any
number of events, processes and callbacks.

Paths below are relative to the repository; `README.md:n` of the *repository*
is written `src/README.md:n`.

## 1. The system

simpyc is a single-threaded library. A *host program* creates an environment,
starts *processes* (functions on stacks of their own, switched cooperatively)
and calls the scheduler loop. Processes, callbacks and the host call the same
API; control changes hands only where the code says so. There is no parallelism,
no persistence and no network. What is hard is re-entrancy and reuse: every
operation may be called between any two others, by code that runs *inside* the
dispatch of an event, while events and process structures are recycled.

| Component | Source | State | Operations | Module(s) |
|---|---|---|---|---|
| Event queue | `heap.c` | array of (time, priority, seq, event) | push, pop, peek, two sift loops | `Heap`, `EventQueue`, `Agenda` |
| Events | `event.c` | triggered / processed, callback list, recyclable flag, free list | alloc, timeout, succeed, fail, on, run callbacks, recycle | `Kernel` |
| Processes | `process.c` | state, awaited event, resume event, done event, interrupt flags, pool of dead structures | create, yield, interrupt, done event, terminate, resume | `Kernel` |
| Environment | `env.c` | clock, heap, pools, real-time mode | step, run, run until, set real time | `Kernel` |
| Coroutine switch | `coro.c`, `coro_*.S` | saved registers | switch | none: taken to resume exactly where the target left |
| Store | `store.c` | items, waiting gets, waiting puts, capacity | put, get | `StoreQueues`, `Store`, `FifoChannel` |
| FilterStore | `filter_store.c` | the same, gets with predicates | put, get, dispatch to waiters | `StoreQueues`, `FilterStore` |
| PriorityStore | `priority_store.c` | the same, items sorted | put, get | `StoreQueues`, `PriorityStore`, `PriorityChannel` |
| Container | `container.c` | level, waiting gets, waiting puts | put, get, two wake-up loops | `Container` |
| Resource | `resource.c` | slots in use, waiting requests | request, release | `Requests`, `Resource`, `Semaphore` |
| PriorityResource | `priority_resource.c` | the same, sorted | request, release | `Requests`, `Lines`, `PriorityResource`, `Semaphore` |
| PreemptiveResource | `preemptive_resource.c` | holders and waiters, sorted | request (may evict and interrupt), release | `Requests`, `Lines`, `PreemptiveResource` |
| Conditions | `cond.c` | per condition: kind, inputs, inputs fired | any_of, all_of, input callback | `Conditions` |
| Clients | `examples/bank_renege.c`, `tests/test_extra.c` | locals and program counters of their processes | every call they make | `Application`, `Bank`, `Machine` |

How they interact: a resource operation allocates events from the environment's
free list and triggers them, which queues an entry in the heap. The loop takes
the least entry, marks its event processed and runs its callbacks; the waiter
callback of a suspended process schedules the process's private *resume event*,
whose one callback switches to the process. A process that ends triggers its
done event and puts its structure in a pool for the next `sim_process`. A condition
subscribes a callback to each of its inputs and triggers its own event from one of
them. A preemptive resource calls `sim_process_interrupt` for the process it takes a
slot from. The release of a request puts its event into the free list itself, past
the kernel.

What makes each component correct:

* **Event queue**: it behaves as a queue in the order of time, priority and age,
  although the heap is not stable and is out of order inside every operation.
* **Events**: an event is queued once; one in the free list is referred to by
  nobody.
* **Processes**: no wake-up is lost; none is spurious (an old subscription must
  not resume a process that has moved on); several wake-ups of one process make
  one resume; an interrupt is delivered at once and to its addressee; a done
  event fires once, whenever it was asked for; a structure is only reused dead.
* **Environment**: time never goes back and does not pass between an event and
  those it wakes.
* **Stores, container, resources**: nobody waits without need, limits are kept,
  and who is served next follows the order each of them promises; who loses a
  slot is told, and a request comes back from the free list only when it is free.
* **Conditions**: a condition fires exactly when it is met, once, in the same instant,
  whatever was processed before the call; its state lives as long as a callback
  may touch it.
* **Clients**: what a client concludes from the API (I was served, I was evicted, I
  ran out of patience) is so, and every process comes to its end.

`PROJECT.json` lists these hazards one by one under `hazards`, at the line of the
code where they bite, with the property that covers each.

## 2. The modules

### Kernel (`Kernel.tla`)

State: the fields of `struct sim_env`, `struct sim_event` and
`struct sim_process`, plus the locals of the calls in progress: `running` and
`until` for the host's call, `current` and `rest` for the loop of
`_sim_event_run_callbacks`. `ctx` says who holds the one thread: the host
(`"main"`), the loop, the dispatch of an event, a user callback, or a process.
`gen`, `waitOn` and `watches` are history variables that the properties use; no
guard of an action of the library reads the latter two. (`sim_event_succeed` does
not accept a done event handed out, which is an assumption on the program.)

* An event is a member of `Addr`, its address; recycled addresses come back.
  A process structure is a member of `Proc`, and names its resume event too,
  which is embedded in it. The states of an event are *fresh* (never
  allocated), *pending*, *triggered* (in the queue), *processed*.
* The heap is the sequence of module `Agenda`: entries in the order they are
  taken. All entries have priority `SIM_PRIO_NORMAL`, because no call of the
  library passes another; the sentinel of `sim_run_until` with priority URGENT is
  the strict comparison in `MayStep`. `Heap` shows the array to implement it.
* Every API function is one action, enabled when `InClient`: any process,
  callback or the host may call it at any time. `sim_yield` and the end of
  `process_entry` belong to the running process. The loop is `StartRun`,
  `sim_step`, one action for each callback, `EndDispatch`, and the ways out
  (`FinishRun`, `LagAbort`).
* The wall clock is a choice: in strict real time `sim_step` may find itself late
  at any step (`LagAbort`), and once late it stays so: the targets are fixed and the clock
  goes on, so that in strict mode no entry of that time or before can be taken
  (`rt_past`, `IsBehind`) until `sim_env_set_realtime` starts anew or turns it off.
  Pacing delays the wall clock and changes nothing else.
* Time is natural numbers for doubles: the code only adds and compares. Values
  are told by the event they came from. Success and failure of an event differ
  only in a flag and share an action.
* A program is assumed not to trigger a done event, not to use an address it has
  lost to the free list in `sim_yield`, and to call `sim_run` from the host only.
  `InterruptNew` and `StaleHandles` say whether the program interrupts a
  process before its first step and whether it uses the handle of a finished one;
  the header allows both, and both show defects (section 5), so the other
  properties are checked without.
* Bounds: `MaxTime`, `MaxGen` (uses of one structure) and `MaxCbs` (callbacks on
  one event) stand in guards. The code grows its callback list, so `MaxCbs`
  is no limit of the code.

### Heap, EventQueue, Agenda

`Heap` models the array with one step per round of a sift loop, so that the
places where order is broken are visible. `EventQueue` is the abstract queue on
the operators of `Agenda`, the same that `Kernel` uses; `ImplementsQueue` is
the refinement. The queue is what the array contains, whatever its order: the place of an
entry is the number of those that precede it (`Place`, `Listed`). It covers several
priorities by counting (time, priority) as one key (`Rank`, for which the priorities are
assumed to be finitely many, as those of an `int` are). `heap_push` is
split before its sift: the entry is in the array before it is counted. The array
grows as in the code, from `FirstCap` (32 in the code) by doubling; `TypeOK` says that
no entry is stored where there is no room.

### Stores

`StoreQueues` has what `Store`, `FilterStore` and `PriorityStore` share: the buffer, the
queue of gets, the queue of puts, and the events triggered but not yet processed,
in the order of triggering (the kernel would process them in that order and then
recycle them; here they become unused). Every API call is one step. The
relative order of a get's and a put's event triggered in one call is not kept.
A filter is the set of items it accepts; `NULL` is the set of all. `capacity` is a
variable that `Init` chooses among `Capacities`, zero (unbounded) included;
`MaxItems` bounds the model of an unbounded store only.
`FifoChannel` and `PriorityChannel` say what the plain and the priority store
promise, without capacity; the channel has a line for each priority, which is a section of the
sorted buffer (`OfPriority`) followed by the puts of that priority that wait.

`Container` has one step per round of the wake-up loops, with natural amounts for
doubles (every amount used is exactly representable). `MCStores` puts the three stores
and the container side by side: `kind` is chosen once, and a property is that of the
kind the behaviour is about.

### Resources

`Requests` is the life of a request event, which the three resources share: allocated by
the request, triggered with the grant, processed by the kernel, put into the free
list by the release (`resource.c:71-76`), but only if it was processed: one released
earlier is never recycled (`early`). `Lines` has the two searches as pure operators:
the sorted insertion of `priority_resource.c` and `preemptive_resource.c`, and
`find_weakest`. `Resource` and `PriorityResource` are for programs that release each
request once, after its grant; `Semaphore` is what both promise: `capacity` holders,
in the order of urgency and of asking, the waiting line of one urgency being a section
of the sorted line (`OfPriority`). A request nobody releases (its process left) is
simply one that is never released; that it keeps its slot for ever is what the
code does.

`PreemptiveResource` also has requests released while they wait or after they were
evicted, as its client in `tests/test_extra.c` does. The interrupt of a process is one
value here, with the coalescing of `sim_process_interrupt`, and other code may interrupt
the same process; `Machine` has the real one. History variables: `unaware` (evicted,
and its process has not run since), `gaveUp` (released while it waited), and the
flag `preempt` of a waiting request, which the code stores and never reads.
`MCResources` puts the three side by side.

### Conditions, Application, Bank, Machine

`Conditions` extends `Kernel`. A condition is named by its event; `cond` is its
`cond_state_t` while it is allocated. Its callbacks stand as `Cond(c)` in the callback lists of
the kernel, beside those of processes and users, and `cond_cb` is one more callback of the
dispatch. `make_cond` is the whole function, including the
allocation that comes before the inputs are inspected. `made` is history: the inputs not yet
processed, noted independently of the counters. `CondNext` is any program on the whole kernel,
with processes, callbacks, interrupts and real time, that also makes conditions over whatever handles
it may still name (`Handles`: those not in the free list, `src/README.md:494`), an event twice or no
event included. It leaves the event of a condition to the library (`LeavesConditions`), as it
does done events.

`Application` is for programs on top: `pc` says where each process is, and one step is one
call into the library or one step of the library; each call is the action of
`Kernel` or `Conditions`, so that the clients run on the very model that is proved about.
`Bank` is `examples/bank_renege.c` line by line, with `sim_resource_request` and
`sim_resource_release` on kernel events: a customer waits for his request or the
end of his patience with `sim_any_of`, and one who leaves does not take his request back.
`Machine` is `pre_worker` of `tests/test_extra.c` with any number of workers and
priorities, and the preemptive resource on kernel events: the eviction interrupts through the
real `sim_process_interrupt`. Both extend the library's modules, with `capacity` and `in_use`
of their resource in `Application`, so that the theorems on the library can be cited of them.
`MCPrograms` puts the two programs side by side.
The times a program draws come from small sets (`Gaps`, `Patience`, `Services`); equal
times are what makes the races. The assumptions are those of the programs: their host calls
`sim_run` and nothing else (`HostRuns`), times are delays (`TimesAreDelays`,
`CustomersArePatient`), a slot count is natural (`CapacityIsNatural`), priorities are integers
(`WorkersHavePriorities`), and `sim_any_of` is given two events (`EitherIsOfTwo`);
`NullIsNoBankStage` and `NullIsNoMachineStage` keep `NULL` from being a line of a program.

## 3. What TLC checks

| Run | Instance | Shows |
|---|---|---|
| `kernel_reuse` | a program with conditions (`CondSpec`); 1 process structure used twice, 2 addresses, delays 0-2, 1 callback per event, up to 2 inputs, `sim_step` and `sim_run_until` | `TypeOK`, `PoolIsFree`, `NoSpuriousWakeup`, `InterruptPrompt`, `ResumeAtOnce`, `PooledAreDead`, `InterruptReachesAddressee`, `DoneMeansFinished`, `ClockMonotonic` |
| `kernel_live` | 2 processes, 1 address, delays 0 and 1, 2 callbacks per event, real time off and strict, fairness | `QueuedOnce`, `NoLostWakeup`, `ResumedEventually` |
| `heap` | up to 5 pushes, 2 times, 2 priorities, room for 2, then 4, then 8 | `HeapOrder`, `ImplementsQueue`, room for every entry (`TypeOK`) |
| `stores` | each store, capacity 2 and unbounded, 5 events, 2 items, 2 priorities, gets with one-item filters and with NULL; a container of capacity 4, level 1, amounts 1, 2, 4 | `GetsWaitForItems`, `PutsWaitForRoom`, `ImplementsChannel`, `ImplementsPriorityChannel`, `EarliestTaker`, `ServedWhenPossible`, `OvertakesNobody`, `BlockedForEver`; the level in range (`TypesKept`) |
| `resources` | each resource, 2 slots, 4 requests, 2 priorities, 1 process that may be interrupted by others, and requests without owner | `RequestsRecycled`, `InUseCountsHolders`, `NoInversion`, `EvictedIsInterrupted`, `ReleaseFreesSlot`, `ImplementsSemaphore`, `ImplementsPrioritySemaphore` |
| `conditions` | a host and its callbacks, 3 events, conditions of up to 2 inputs, delays 0 and 1, runs that strict real time may abort | `CondTypeOK`, `FiresWhenMet`, `StateLifetime`, `QueuedOnce` |
| `programs` | 3 customers, 1 counter; 3 workers, 1 machine, 2 priorities; every gap 0 or 1, patience and services 1 or 2 | `ServedAtCounter`, `LeavesInTime`, `WorksWithMachine`, `EverybodyLeaves` |
| `kernel_cause`, `kernel_interrupt_new`, `kernel_stale_interrupt`, `kernel_strict`, `filter_store_plain` | as small as shows it | the disagreements of section 5 |

Why the bounds are enough for the interesting cases: two addresses force recycling
(a third allocation must reuse one) while one event is awaited, and let a condition have an input of
its own; two processes (`kernel_live`) are
an interrupter and an interrupted; two uses of one structure are an old handle and
a new process; delays 0, 1 and 2 give ties, order and an end of `sim_run_until`
before, at and after an event. A heap of five has a node with two children and ends in a left or
in a right child, on three levels. In the stores five events fill a buffer of two
and leave a queue of three; with filters, the minimum to drain a put, hand
it on and have another wait is five. The container has amounts that fit alone
but not together, and one that fits only when empty or full. Four requests at two slots are
two holders and a line of two. Two inputs are the least that tell any from all,
and two subscriptions of one event; three events let a condition be the input of
another. Three customers are one who is served, one who leaves, and one behind his
request; three workers are a holder, one who evicts and one who waits or evicts in turn.
The eleven addresses and twelve units of time of `programs` are never used up: a
program that could not go on for want of them would violate `EverybodyLeaves`. Symmetry is used
for addresses, processes, events and items, which no run tells apart, but not in
the runs with liveness properties nor in `heap`.

Deadlock is checked for the kernel: the program can always do something. The
stores, the container, the resources and the heap stop when all events or sequence
numbers of the instance are used up, which is a limit of the instance, and the
programs of `programs` end; so their configurations say `CHECK_DEADLOCK FALSE`.

Fairness in `kernel_live` (`FairSpec`): the loop of `sim_run` and the
dispatch never stop by themselves (weak fairness of `Library`); a process body and a
callback eventually reach their next `sim_yield` or return, and the host
calls the library again. A program that computes for ever in a body is outside
the promise. Nothing is assumed of which operations the program calls: one process
may wake itself with delay 0 for ever, and time need not advance. In strict real time
every step may find itself late, so `ResumedEventually` promises that the process
runs or that `sim_env_realtime_lagged` tells the host. In `programs` the only fairness is
that of the one thread, which does not stop while the program can go on (`WF` of
the whole next-state relation); that every customer and worker leaves, and that
the machine is free in the end, follows from what the program and the library do, for
every choice of times.

Every property has a mutant of the code that breaks it (definitions marked
`Mutant:` beside the one they change), listed in `PROJECT.json`.

## 4. What TLAPS proves

Everything below is for every value of the constants that the named assumptions admit,
each of which TLC evaluates in the runs of the module that declares it.

### The kernel (`KernelProofs`, `KernelSafety`)

For all `Addr`, `Proc`, delays and bounds, from the assumptions of `Kernel`
(`AddressesDiffer`: addresses, processes and contexts are different values;
`BoundsAreNaturals`; `ModesAreKnown`):

| Theorem | States | If |
|---|---|---|
| `Typing` | `Spec => []TypeOK` | |
| `Inductive` | `Spec => []IInv` | |
| `Queueing` | `[]QueuedOnce`: an event has one entry in the queue while triggered, else none | |
| `Recycling` | `[]PoolIsFree`: an event in the free list is there once and referred to by nobody | |
| `ProcessReuse` | `[]PooledAreDead`: the pool of structures holds the dead ones, each once | |
| `Wakeups` | `[]NoLostWakeup`: a new or suspended process is being resumed or still listens to its event | |
| `Wakings` | `[]NoSpuriousWakeup`: a process without interrupt is resumed for the event it yielded, and is handed its value | |
| `Instants`, `Clock` | `[]ResumeAtOnce`, `ClockMonotonic` | strict real time and `sim_run_until` are not combined |
| `Interrupts` | `[]InterruptPrompt` | `~InterruptNew` |
| `Addressees`, `DoneEvents` | `[]InterruptReachesAddressee`, `[]DoneMeansFinished` | `~StaleHandles` |

The three conditions are those under which the code keeps the promise: each excludes a
disagreement of section 5, whose run shows what happens without it. The first is
sufficient, not necessary: a program that uses nothing but strict mode cannot step on after an
abort, and its clock never goes back.

None of the properties is inductive alone. That a wake-up is not lost depends on
which callbacks a resume event can have (`CallbacksOK`: exactly its own, exactly
while it is triggered), that in turn on a process running only from the last
callback of its own resume event (`RunningOK`), and on who may run when no event
is current (`ControlOK`). That a recycled event is free depends on awaited
events being unprocessed and done events never being recyclable (`AwaitedOK`), and
on an event not being queued when it is allocated (`QueuedOnce`). `IInv` is the
conjunction, with `PoolUnused` of the free list; that what is in the free list was recyclable
(`PoolRecyclable`, a step of its own beside `IInv`) completes `PoolIsFree`. It is kept apart because a
resource puts requests into the free list that are not, and the rest holds of programs with resources too.
The theorems of `KernelSafety` add to `IInv` what each of them needs: `Reasons`
(every waiter callback and every resume on its way has a reason, the dispatch in progress included),
`PromptOK` (a process interrupted while it runs has its resume on the way already), and `WatchesOK`
(a done event that somebody holds belongs to one use of one structure and is never allocated again).
All of them were checked by TLC on the instances of the runs before they were proved.

The proofs have one step per action and one step per conjunct the action can
disturb. `SequenceLemmas` has the lemmas on the queue (`Insert` keeps the
entries, adds one, keeps events distinct and the order of times); `KernelProofs` begins
with the types, and with what the helpers `Allocated`,
`_sim_event_schedule` and `schedule_resume` do in a state of the invariant.

### Conditions (`ConditionProofs`)

For any program of `CondSpec`, any number of events, processes, conditions and inputs, from the
assumptions of `Kernel`, `InputsAreBounded` and `NullIsNoRecord` (`Conditions`):

| Theorem | States | If |
|---|---|---|
| `CondInductive` | `[]CondInv`: what the kernel promises (`IInv`), the types and `CondOK` | |
| `CondTyping` | `[]CondTypeOK`: a state counts at most its inputs and, but for an AnyOf of none, is kept only while some are outstanding | |
| `CondQueueing`, `CondWakeups` | `[]QueuedOnce`, `[]NoLostWakeup`, now beside conditions | |
| `Firing` | `[]FiresWhenMet`: a condition fires once it is met, and in the same instant | strict real time and `sim_run_until` are not combined |
| `Lifetime` | `[]StateLifetime`: no callback finds the state freed, the last one frees it; two kinds of state are never freed (section 5) | |
| `CondReuse`, `CondWakings` | `TypeOK`, `PoolIsFree`, `PooledAreDead` and `NoSpuriousWakeup`, beside conditions | |
| `CondInstants`, `CondClock` | `[]ResumeAtOnce`, `ClockMonotonic`, beside conditions | strict real time and `sim_run_until` are not combined |
| `CondInterrupts` | `[]InterruptPrompt`, beside conditions | `~InterruptNew` |
| `CondAddressees`, `CondDoneEvents` | `[]InterruptReachesAddressee`, `[]DoneMeansFinished`, beside conditions | `~StaleHandles` |

The heart is `Sound(c)`: the callbacks for `c` registered with an event are as many as its places among the
inputs outstanding, and the state counts the others until none is left, or for ever with 0 of 0 for an AnyOf of no
inputs (`Subscribed`); or `c` is an AnyOf that was done
when it was made and has no callback at all (`DoneEarly`). It needs the kernel's invariant: that
events given back to the free list have no callbacks left makes an input a subscription to one use of
its address only; that a condition is neither recycled nor anybody's done event makes
`cond_cb` the only one to trigger it. Counting is done on cardinalities of sets of positions, over the
concatenation of make_cond and the tail of the dispatch. `Firing` adds the clock (`Clocked`: a condition
triggered is queued for this instant), as `KernelSafety` does for resumes.

The last rows are what `kernel_reuse` checks: the theorems of the kernel in a program that makes conditions.
A step of `CondNext` is one of the kernel, or `make_cond` or `cond_cb`; those two concern no process
(`MakeUntouched`, `CondCbUntouched`), so that only the done events need more: nobody's done event is a
condition, of whatever use of a structure (`WatchesApart`), for `cond_cb` would trigger it early.

### The heap (`HeapProofs`)

For any number of pushes, times and priorities: `HeapTyping` (`[]TypeOK`, with room for
every entry), `HeapOrdered` (`[]HeapOrder`, order everywhere but at the position being
sifted, whose children are in order with its parent: the form that each round of either loop
preserves), and `RootLeast`: between operations no entry precedes the root. The last
goes from parent to parent, an induction over the depth; it is done through a least
counterexample (lemma `LeastNatural` of `SequenceLemmas`), because the prover has no
induction schema to offer.

`Implements` is the refinement: the heap implements `EventQueue` (`ImplementsQueue`). That every place of
`Listed` is taken, by one entry, is a pigeonhole: `Place` is injective because keys differ in `seq`, and a
set of n entries has its n places in 1..n. A push then shifts the places behind it by one, a pop (of
the root, by `RootLeast`) brings all forward by one, and a round of a sift loop permutes the array,
so that the set of its entries stays the same.

### The resources (`ResourceProofs`)

For any capacity, requests, processes and priorities (`CapacityIsNatural`, and in
`MCResources` `PrioritiesAreIntegers` and `NullIsNoCause`), over the specification `MCSpec` that
the run checks: `Typing`, `Recycled`, `Slots`, `Inversions`, `Evictions`, `Leaks` state the six
invariants of the run, and `Semaphores` and `PrioritySemaphores` that the FIFO and the priority resource
implement `Semaphore`.

`IInv` says that every request is in one part of its life (`LifeOf`: waiting, triggered,
processed, in the free list, or released early), that `in_use` counts the granted ones
(for which the finiteness of that set is part of the invariant), and, for the preemptive resource
(`SlotsOf`, `EvictedOf`), that the holders are sorted out from the waiters, each waiter has a
reason to wait and each evicted process an interrupt. That no holder is less urgent than a
waiter who may preempt is preserved by an eviction because the evicted was the least urgent:
`WeakestFound` says that `find_weakest` finds one. For the priority resource the invariant says that the
line is sorted: then the requests of one priority are a section of it, in whose order an
insertion appends and a grant takes the first.

### The stores and the container (`StoresProofs`)

For any capacities, items, priorities, events and amounts (`AmountsAreNaturals`, and in
`MCStores` `CapacitiesAreIntegers` and `PrioritiesAreIntegers`), over `MCSpec`: `Typing`
(`[]TypesKept`), `Waiting` (`[]GetsWaitForItems`), `Room` (`[]PutsWaitForRoom`), `Takers`
(`EarliestTaker`), `Served`, `Order` (who waits keeps his place, a loop of wake-ups serves only the
first, a call served at once found its queue empty) and `Blocked` for the container, and `Fifo` and `Ranking`: the plain store
implements `FifoChannel`, the priority store `PriorityChannel`.

`MCInv` has one part per kind. For the plain and the priority store (`StoreOf`), that the
buffer is within its capacity follows only together with who waits: a get lets a waiting put
in without a test, so a put must wait only beside a full buffer, and a get only beside an
empty one. For the filter store (`FilterOf`), one search after a drained put is
enough because no waiting get accepts anything that lay in the buffer before: the get that is
found takes the newcomer (`NewcomerTaken`). For the container (`ContainerInv`), one pass in one
direction is enough because while gets are woken no put waits, and conversely. In the mapping to the
channel the line is the buffer followed by the items of the waiting puts; a put that is
drained moves an item from the second part to the first, which leaves the line as it is
(`LineMoves`). In the priority store it moves to the end of its section of the sorted buffer
(`RankedPutIsOffer`, `RankedGetIsAsk`), because sortedness is part of the invariant.

`SequenceLemmas` has what all of these rest on: the elements of a queue, and whether one
is there twice, when one is appended, inserted or removed, by `Append`, `Tail`, `InsertAt` and
`RemoveAt`; that a sorted queue stays sorted, and which section of it the entries of one key are
(`SegmentElements`, `SegmentPlaced`, `SegmentTail`); the events of a queue of records.

### The programs (`ProgramProofs`)

For any number of customers, workers, counters, machines and events, any times and any priorities
(the assumptions of the library and of `Application`, `Bank` and `Machine`, section 2):

| Theorem | States |
|---|---|
| `BankInductive`, `MachineInductive` | `BankSpec => []BankInv`, `MachineSpec => []MachineInv` |
| `Served` | `[]ServedAtCounter`: each customer served has a granted request of his own, and there are no more of them than counters |
| `InTime` | `[]LeavesInTime`: a customer leaves unserved exactly when his patience ends |
| `WorksKept` | `[]WorksWithMachine`: who works on the machine has it or is being told that he lost it, and works for his time |

First, what the library promises carries over: `LibraryInv` is the invariant of kernel and conditions
(`CondInv`), the clock (`Clocked`) and the reasons of every wake-up (`Reasons`). Most steps of a program are
steps of the library, for which this was proved already (`KernelLibrary`, `RunLibrary`, `MakeLibrary`).
The steps of a resource are not: they change several events at once, past the functions of `event.c`.
They are of three shapes, each with a lemma: a request allocated and triggered (`Granting`), a request
handed on, given back to the free list, or both (`Releasing`), and a request granted while the owner of
another is interrupted, in one step (`Evicting`). What makes the middle one safe is that the request given
back is processed and is nobody's condition, done event or awaited event.

`Owned` says what a request is to a program between its allocation and its release: outside of the free
list, not recyclable, no condition. `Sparing` says that a step leaves what is owned so, and holds of every
step but the release itself. On that rest the invariants of the programs:

* `BankInv`: a process that lives and does not run is at its first line or behind a `sim_yield` (`Life`), a
  customer's request is owned, his own, and in the line exactly while it is pending (`Mine`, `Apart`, `Line`),
  and the customers granted a slot are at most `in_use` (`Slots`; at most, because those who left may
  hold one).
* `Waits` says of a customer between his request and his decision that his condition has the request and the
  timeout for inputs, counts those processed, and that the timeout is in the queue for the end of his
  patience or that this end is now (`Choice`). That time does not pass before he is told is
  `ToldAtOnce`: a condition that is met is triggered or processed, and either it or the resume of the
  customer is in the queue for this instant. Of the other steps it is enough that they take no time and no
  entry (`Instant`).
* `MachineInv`: as for the bank, and a worker's request holds the machine, waits for it, or the worker is
  being told (`Asks`); he waits for his grant, then for the end of his work, unless he is being
  told (`InStep`); only pending requests wait (`WaitLine`). An interrupt detaches a worker from the event he
  waits for, and his old subscription stays: `Heard` says that a subscription to the very
  event that a process has yielded is that of the wait in progress, which is why a worker whose event was
  processed has his resume on the way at the same instant (`BackAtOnce`).

TLC checked `BankInv`, `AllWait` and `MachineInv` on the instances of `programs` before they were proved.

### Only model-checked

* Liveness under fairness (`ResumedEventually`, `EverybodyLeaves`), out of the prover's reach.
* Every other property of a passing run is stated by a theorem above.

## 5. Disagreements between the code and what is said of it

Each of the first five has a run whose counterexample shows it.

1. `kernel_cause`: `sim_yield` clears `interrupt_cause` (`process.c:162`) before it
   returns the cause, so that `sim_process_interrupt_cause` is always NULL in the
   interrupted process, while `simpyc.h:99-100` offers it for that use.
2. `kernel_interrupt_new`: an interrupt of a process not yet started coalesces with its
   first resume (`process.c:177`). The body starts and yields; the interrupt is
   then pending, with no resume queued, until the awaited event fires, and takes the
   place of its value.
3. `kernel_stale_interrupt`: interrupting a finished process is a no-op
   (`simpyc.h:99`) only until its structure is used again; then the interrupt hits the
   new process (`process.c:170`).
4. `kernel_strict`: when strict real time aborts `sim_run_until`, the clock is still
   set to its end (`env.c:132`) with earlier entries queued. In strict mode these stay
   late, also when it is set anew; when the program goes on with real time off, as the
   trace does, or paced, the next step sets the clock back.
5. `filter_store_plain`: when a drained put is handed on to a waiting get, its slot is
   free again but no further put is drained (`filter_store.c:173`): a get with a NULL
   filter then waits while a put waits to offer an item.

Found while modelling, without a run of their own:

* `sim_run_until` leaves the events at its end time in the queue (`env.c:126`), as
  `src/README.md:124-125` says and contrary to `simpyc.h:48-49`.
* `sim_process_event` through an old handle returns the done event of the process that
  uses the structure now (same cause as 3).
* A customer of `examples/bank_renege.c` who leaves may have been granted the counter in that
  very instant: the comment `bank_renege.c:50` ("req is still queued") is then not so, and
  the counter stays taken (`LeavesInTime` allows both).
* The worker of `benchmarking/c/factory.c:139` does not ask whether it was interrupted while it
  waited for the machine, as `pre_worker` does (`test_extra.c:138`): evicted between grant
  and wake-up, it works without the machine. The mutant of `WorksWithMachine` is
  that program.
* A condition over an old timeout, whose event the free list may return as the event of the
  condition itself (`cond.c:29` comes before `:38`), waits for itself. `src/README.md:494` forbids
  to keep such a handle; `simpyc.h:113` ("inspect the input events") does not mention it.
* The state of an AnyOf that is done when it is made, with inputs outstanding, is never
  freed (`cond.c:42-46`), nor is that of an AnyOf of no inputs, which is never done
  either (0 of 0 fired, `cond.c:40-55`), so that its event never fires; `StateLifetime` and
  `CondTypeOK` name the cases (`NeverFires`).
* A put into a full filter store waits although a get waits for its very item
  (`filter_store.c:113`), contrary to `src/README.md:394-396`.

## 6. Not modelled

* The coroutine switch: register-level code, below what a state machine says of it.
* Memory exhaustion (the library does not test most allocations), `sim_env_destroy` and the
  destructors, which only free memory.
* `sim_run` and its kin called from inside a process or a callback; rounding of doubles.
* Plain and priority resources whose requests are released while they wait or twice: the
  code then grants or frees a slot too many (`resource.c:58-70`), and neither the header
  nor a client says that this is allowed.
* Stores whose waiting processes are interrupted: no client of the repository does it;
  the get stays queued and takes the next item (`store.c:78-86`).
* The benchmarks, whose processes use the operations in the ways of `Bank` and `Machine`
  and run for ever, and the remaining tests.

## 7. Plan

Order: most important behaviour first. Done: `Agenda`, `Kernel`, `Heap`, the stores and
`Container`, the resources, `Conditions`, `Bank`, `Machine`, and the theorems of section 4.
Nothing of this plan is left.
