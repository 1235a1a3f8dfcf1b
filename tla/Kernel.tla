------------------------------- MODULE Kernel -------------------------------
(***************************************************************************)
(* The simulation kernel: events, processes and the scheduler loop         *)
(* (event.c, process.c and env.c).                                         *)
(*                                                                         *)
(* Everything runs on one thread.  ctx says which code holds it: the host  *)
(* program ("main"), the loop of sim_run/sim_run_until/sim_step ("loop"),  *)
(* _sim_event_run_callbacks ("dispatch"), a user callback ("callback") or  *)
(* the body of a process, which runs on a stack of its own until it        *)
(* yields.  The interleavings are those of processes, callbacks and host   *)
(* program, each free to call any operation of the library.                *)
(*                                                                         *)
(* An event is named by its address.  Every process owns one resume event  *)
(* that is never freed, recycled or shown to a user: it is named by the    *)
(* process itself.                                                         *)
(*                                                                         *)
(* The value an event carries is told by the event it came from: NULL in   *)
(* resume_value is the value of no event (the start of a process, and the  *)
(* cause of an interrupt, which sim_yield drops and replaces).  sim_run    *)
(* and its kin are called by the host only, never from within a process.   *)
(***************************************************************************)
EXTENDS Agenda

CONSTANTS
  Addr,          \* addresses of events other than resume events
  Proc,          \* addresses of processes
  NULL,
  MaxTime,       \* bound: no timeout or run ends later
  Delays,        \* delays passed to sim_timeout
  MaxGen,        \* bound: how often one process structure is used
  MaxCbs,        \* bound: callbacks subscribed to one event
  RunModes,      \* what the host calls: "step", "run", "until"
  RtModes,       \* real-time modes the program selects: "off", "paced", "strict"
  InterruptNew,  \* may a program interrupt a process not yet started?
  StaleHandles   \* may it use the handle of a process already finished?

ASSUME AddressesDiffer ==
  /\ Addr \cap Proc = {}
  /\ NULL \notin Addr \cup Proc
  /\ {"main", "loop", "dispatch", "callback"} \cap Proc = {}
ASSUME BoundsAreNaturals ==
  MaxTime \in Nat /\ MaxGen \in Nat /\ MaxCbs \in Nat /\ Delays \subseteq Nat
ASSUME ModesAreKnown ==
  /\ RunModes \subseteq {"step", "run", "until"}
  /\ RtModes \subseteq {"off", "paced", "strict"}
  /\ InterruptNew \in BOOLEAN /\ StaleHandles \in BOOLEAN

Ev == Addr \cup Proc

Resume(p) == [fn |-> "resume", user |-> p]
Waiter(p) == [fn |-> "waiter", user |-> p]
Cond(c)   == [fn |-> "cond", user |-> c]    \* see module Conditions
User      == [fn |-> "user", user |-> NULL]
Callback  == {Resume(p) : p \in Proc} \cup {Waiter(p) : p \in Proc}
               \cup {Cond(c) : c \in Addr} \cup {User}

VARIABLES
  now, heap,                                   \* struct sim_env
  event_pool, process_pool,
  rt_mode, rt_lagged,
  rt_past,                                     \* the wall clock, see IsBehind
  state, cbs, recyclable,                      \* struct sim_event
  pstate, yielded, done, resume_value,         \* struct sim_process
  interrupt_pending, interrupt_cause, was_interrupted,
  ctx,                                         \* who runs
  running, until,                              \* the host's call in progress
  current, rest,                               \* locals of _sim_event_run_callbacks
  gen,                                         \* history: incarnation of a structure
  waitOn,                                      \* history: event of the wait in progress
  watches                                      \* history: done events handed out

envVars  == <<rt_mode, rt_lagged, rt_past>>
evVars   == <<state, cbs, recyclable, event_pool>>
intVars  == <<interrupt_pending, interrupt_cause, was_interrupted>>
procVars == <<pstate, yielded, done, resume_value, process_pool, gen>>
ctlVars  == <<ctx, running, until, current, rest>>
ghosts   == <<waitOn, watches>>
vars == <<now, heap, envVars, evVars, intVars, procVars, ctlVars, ghosts>>

Init ==
  /\ now = 0 /\ heap = <<>>
  /\ event_pool = <<>> /\ process_pool = <<>>
  /\ rt_mode = "off" /\ rt_lagged = FALSE /\ rt_past = 0
  /\ state = [e \in Ev |-> "fresh"]
  /\ cbs = [e \in Ev |-> <<>>]
  /\ recyclable = [e \in Ev |-> FALSE]
  /\ pstate = [p \in Proc |-> "unborn"]
  /\ gen = [p \in Proc |-> 0]
  /\ yielded = [p \in Proc |-> NULL]
  /\ done = [p \in Proc |-> NULL]
  /\ resume_value = [p \in Proc |-> NULL]
  /\ interrupt_pending = [p \in Proc |-> FALSE]
  /\ interrupt_cause = [p \in Proc |-> 0]
  /\ was_interrupted = [p \in Proc |-> FALSE]
  /\ ctx = "main" /\ running = "idle" /\ until = 0
  /\ current = NULL /\ rest = <<>>
  /\ waitOn = [p \in Proc |-> NULL]
  /\ watches = {}

-----------------------------------------------------------------------------
(* Helpers of event.c and process.c.                                       *)

(* Code of the program, as opposed to the library, holds the thread.       *)
InClient == ctx \in Proc \cup {"main", "callback"}

(* _sim_event_alloc: e is the head of the pool, else new memory.           *)
_sim_event_alloc(e) ==
  IF event_pool # <<>>
  THEN e = Head(event_pool) /\ event_pool' = Tail(event_pool)
  ELSE e \in Addr /\ state[e] = "fresh" /\ UNCHANGED event_pool

(* Mutant: the delay is taken for a point in time.                         *)
_sim_event_schedule_absolute(e, delay) == heap' = Insert(heap, delay, e)

_sim_event_schedule(e, delay) == heap' = Insert(heap, now + delay, e)

(* Mutant: a recycled event keeps its flag.                                *)
Allocated_keepFlag(e, s, r) ==
  /\ _sim_event_alloc(e)
  /\ state' = [state EXCEPT ![e] = s]
  /\ cbs' = [cbs EXCEPT ![e] = <<>>]
  /\ recyclable' = [recyclable EXCEPT ![e] = @ \/ r]

(* An allocated event starts with no callbacks (the memset).               *)
Allocated(e, s, r) ==
  /\ _sim_event_alloc(e)
  /\ state' = [state EXCEPT ![e] = s]
  /\ cbs' = [cbs EXCEPT ![e] = <<>>]
  /\ recyclable' = [recyclable EXCEPT ![e] = r]

(* Mutant: every wake-up is queued, pending or not.                        *)
ResumePending_never(p) == FALSE

(* Mutant: the state is not reset, and a resume event serves only once.    *)
ResumePending_once(p) == state[p] \in {"triggered", "processed"}

ResumePending(p) == state[p] = "triggered"

(* schedule_resume: a resume already pending is only given the new value.  *)
schedule_resume(p, value) ==
  /\ resume_value' = [resume_value EXCEPT ![p] = value]
  /\ IF ResumePending(p)
     THEN UNCHANGED <<state, cbs, heap>>
     ELSE /\ state' = [state EXCEPT ![p] = "triggered"]
          /\ cbs' = [cbs EXCEPT ![p] = Append(@, Resume(p))]
          /\ _sim_event_schedule(p, 0)

-----------------------------------------------------------------------------
(* Operations any code of the program may call.                            *)

sim_event(e) ==
  /\ InClient
  /\ Allocated(e, "pending", FALSE)
  /\ UNCHANGED <<now, heap, envVars, intVars, procVars, ctlVars, ghosts>>

sim_timeout(e, d) ==
  /\ InClient
  /\ now + d <= MaxTime
  /\ Allocated(e, "triggered", TRUE)
  /\ _sim_event_schedule(e, d)
  /\ UNCHANGED <<now, envVars, intVars, procVars, ctlVars, ghosts>>

(* sim_event_succeed and sim_event_fail; a program leaves the done event   *)
(* of a process to the library.                                            *)
sim_event_succeed(e) ==
  /\ InClient
  /\ e \in Addr /\ state[e] = "pending"
  /\ \A w \in watches : w.event # e
  /\ state' = [state EXCEPT ![e] = "triggered"]
  /\ _sim_event_schedule(e, 0)
  /\ UNCHANGED <<now, cbs, recyclable, event_pool,
                 envVars, intVars, procVars, ctlVars, ghosts>>

(* A subscription to a processed event runs the callback in place, in the  *)
(* caller's context: what it does is then what the caller does next.       *)
sim_event_on(e) ==
  /\ InClient
  /\ e \in Addr /\ state[e] \in {"pending", "triggered"}
  /\ Len(cbs[e]) < MaxCbs
  /\ cbs' = [cbs EXCEPT ![e] = Append(@, User)]
  /\ UNCHANGED <<now, heap, state, recyclable, event_pool,
                 envVars, intVars, procVars, ctlVars, ghosts>>

(* Mutant: the structure taken stays linked in the pool.                   *)
Unlinked_not(p) == UNCHANGED process_pool

Unlinked(p) == process_pool' = Tail(process_pool)

(* Mutant: a reused structure keeps its interrupt flags.                   *)
Wiped_not(p) == UNCHANGED intVars

Wiped(p) ==
  /\ interrupt_pending' = [interrupt_pending EXCEPT ![p] = FALSE]
  /\ interrupt_cause' = [interrupt_cause EXCEPT ![p] = 0]
  /\ was_interrupted' = [was_interrupted EXCEPT ![p] = FALSE]

(* sim_process: a structure of the pool if there is one, wiped except for  *)
(* its stack and resume event.                                             *)
sim_process(p) ==
  /\ InClient
  /\ gen[p] < MaxGen
  /\ IF process_pool # <<>>
     THEN p = Head(process_pool) /\ Unlinked(p)
     ELSE pstate[p] = "unborn" /\ UNCHANGED process_pool
  /\ pstate' = [pstate EXCEPT ![p] = "new"]
  /\ yielded' = [yielded EXCEPT ![p] = NULL]
  /\ done' = [done EXCEPT ![p] = NULL]
  /\ Wiped(p)
  /\ schedule_resume(p, NULL)
  /\ gen' = [gen EXCEPT ![p] = @ + 1]
  /\ waitOn' = [waitOn EXCEPT ![p] = NULL]
  /\ UNCHANGED <<now, recyclable, event_pool, envVars, ctlVars, watches>>

(* The handle sim_process returned for the g-th use of structure p.        *)
Handle(p, g) ==
  /\ g \in 1..gen[p]
  /\ StaleHandles \/ g = gen[p]

(* sim_process_interrupt through that handle.  The cause is opaque to the  *)
(* library; the program passes g, so that it tells whom it was meant for.  *)
sim_process_interrupt(p, g) ==
  /\ InClient
  /\ Handle(p, g)
  /\ pstate[p] # "dead" /\ ~interrupt_pending[p]
  /\ InterruptNew \/ pstate[p] # "new"
  /\ interrupt_pending' = [interrupt_pending EXCEPT ![p] = TRUE]
  /\ interrupt_cause' = [interrupt_cause EXCEPT ![p] = g]
  /\ yielded' = [yielded EXCEPT ![p] = NULL]
  /\ schedule_resume(p, NULL)
  /\ UNCHANGED <<now, recyclable, event_pool, was_interrupted, pstate, done,
                 process_pool, gen, envVars, ctlVars, ghosts>>

(* Mutant: the done event of a finished process is left pending.           *)
HasEnded_never(p) == FALSE

HasEnded(p) == pstate[p] = "dead"

(* sim_process_event: the done event, made when first asked for.           *)
sim_process_event(p, g) ==
  /\ InClient
  /\ Handle(p, g)
  /\ IF done[p] # NULL
     THEN /\ watches' = watches \cup {[proc |-> p, gen |-> g, event |-> done[p]]}
          /\ UNCHANGED <<heap, evVars, done>>
     ELSE \E e \in Addr :
            /\ Allocated(e, IF HasEnded(p) THEN "triggered" ELSE "pending", FALSE)
            /\ IF HasEnded(p) THEN _sim_event_schedule(e, 0) ELSE UNCHANGED heap
            /\ done' = [done EXCEPT ![p] = e]
            /\ watches' = watches \cup {[proc |-> p, gen |-> g, event |-> e]}
  /\ UNCHANGED <<now, pstate, yielded, resume_value, process_pool, gen, waitOn,
                 envVars, intVars, ctlVars>>

(* The simulated time of the call is aligned with the wall clock's.        *)
sim_env_set_realtime(m) ==
  /\ InClient
  /\ rt_mode' = m /\ rt_lagged' = FALSE
  /\ rt_past' = IF m = "strict" THEN now ELSE 0
  /\ UNCHANGED <<now, heap, evVars, intVars, procVars, ctlVars, ghosts>>

-----------------------------------------------------------------------------
(* Operations of a process body.                                           *)

(* sim_yield up to the switch: subscribe, or resume at once if the event   *)
(* was already processed.                                                  *)
sim_yield(p, e) ==
  /\ ctx = p
  /\ e \in Addr /\ state[e] # "fresh"
  /\ \A i \in DOMAIN event_pool : event_pool[i] # e
  /\ yielded' = [yielded EXCEPT ![p] = e]
  /\ IF state[e] = "processed"
     THEN schedule_resume(p, e)
     ELSE /\ Len(cbs[e]) < MaxCbs
          /\ cbs' = [cbs EXCEPT ![e] = Append(@, Waiter(p))]
          /\ UNCHANGED <<state, heap, resume_value>>
  /\ ctx' = "dispatch"
  /\ waitOn' = [waitOn EXCEPT ![p] = IF state[e] = "processed" THEN NULL ELSE e]
  /\ UNCHANGED <<now, recyclable, event_pool, pstate, done, process_pool, gen,
                 running, until, current, rest, watches, envVars, intVars>>

(* process_entry after the body returned.                                  *)
process_entry_end(p) ==
  /\ ctx = p
  /\ IF done[p] # NULL /\ state[done[p]] = "pending"
     THEN /\ state' = [state EXCEPT ![done[p]] = "triggered"]
          /\ _sim_event_schedule(done[p], 0)
     ELSE UNCHANGED <<state, heap>>
  /\ pstate' = [pstate EXCEPT ![p] = "dead"]
  /\ process_pool' = <<p>> \o process_pool
  /\ ctx' = "dispatch"
  /\ UNCHANGED <<now, cbs, recyclable, event_pool, yielded, done, resume_value,
                 gen, running, until, current, rest, envVars, intVars, ghosts>>

-----------------------------------------------------------------------------
(* The scheduler loop.  The host calls sim_step, sim_run or sim_run_until. *)

StartRun(m, u) ==
  /\ ctx = "main"
  /\ ctx' = "loop" /\ running' = m /\ until' = u
  /\ UNCHANGED <<now, heap, current, rest, envVars, evVars, intVars, procVars,
                 ghosts>>

(* The loop condition: a sentinel (until, URGENT) ends sim_run_until.      *)
MayStep ==
  /\ heap # <<>>
  /\ running # "stepped"
  /\ running = "until" => Head(heap).time < until

(* The wall clock of strict real time is known by its effect only: it is   *)
(* past the targets of all times before rt_past, and as it never goes back *)
(* an entry that was late once stays late, until real time is set anew.    *)
IsBehind == rt_mode = "strict" /\ Head(heap).time < rt_past

(* sim_step: take the next entry and start running its callbacks.          *)
sim_step ==
  /\ ctx = "loop" /\ MayStep /\ ~IsBehind
  /\ heap' = Tail(heap)
  /\ now' = Head(heap).time
  /\ LET e == Head(heap).ev IN
       /\ current' = e
       /\ state' = [state EXCEPT ![e] = "processed"]
       /\ rest' = cbs[e]
       /\ cbs' = [cbs EXCEPT ![e] = <<>>]
       /\ waitOn' = [p \in Proc |-> IF waitOn[p] = e THEN NULL ELSE waitOn[p]]
  /\ ctx' = "dispatch"
  /\ UNCHANGED <<recyclable, event_pool, running, until, watches, envVars,
                 intVars, procVars>>

(* Mutant: the clock is set to until whatever it was.                      *)
IsLate_always == running = "until"

IsLate == running = "until" /\ now < until

(* The return of the host's call.                                          *)
Return ==
  /\ now' = IF IsLate THEN until ELSE now
  /\ ctx' = "main" /\ running' = "idle" /\ until' = 0
  /\ UNCHANGED <<heap, current, rest, evVars, intVars, procVars, ghosts>>

FinishRun ==
  /\ ctx = "loop" /\ ~MayStep
  /\ Return
  /\ UNCHANGED envVars

(* sim_step in strict real time, the wall clock being past the target, as  *)
(* it was before or is found to be by now.                                 *)
LagAbort ==
  /\ ctx = "loop" /\ MayStep
  /\ rt_mode = "strict"
  /\ rt_lagged' = TRUE
  /\ rt_past' = IF IsBehind THEN rt_past ELSE Head(heap).time + 1
  /\ Return
  /\ UNCHANGED rt_mode

-----------------------------------------------------------------------------
(* _sim_event_run_callbacks.                                               *)

NextCallback(fn) ==
  /\ ctx = "dispatch" /\ rest # <<>> /\ Head(rest).fn = fn
  /\ rest' = Tail(rest)

(* Mutant: a subscription that an interrupt left behind still wakes.       *)
IsStale_never(p) == FALSE

(* Does p wait for another event by now?                                   *)
IsStale(p) == yielded[p] # current

waiter_cb ==
  /\ NextCallback("waiter")
  /\ LET p == Head(rest).user IN
       IF pstate[p] = "dead" \/ IsStale(p)
       THEN UNCHANGED <<state, cbs, heap, resume_value>>
       ELSE schedule_resume(p, current)
  /\ UNCHANGED <<now, recyclable, event_pool, pstate, yielded, done, process_pool,
                 gen, ctx, running, until, current, envVars, intVars, ghosts>>

(* resume_cb of a dead process does nothing.                               *)
resume_cb_dead ==
  /\ NextCallback("resume")
  /\ pstate[Head(rest).user] = "dead"
  /\ UNCHANGED <<now, heap, ctx, running, until, current, envVars, evVars,
                 intVars, procVars, ghosts>>

(* resume_cb of a new process: process_entry starts the body.              *)
resume_cb_start ==
  /\ NextCallback("resume")
  /\ LET p == Head(rest).user IN
       /\ pstate[p] = "new"
       /\ pstate' = [pstate EXCEPT ![p] = "running"]
       /\ ctx' = p
  /\ UNCHANGED <<now, heap, yielded, done, resume_value, process_pool, gen,
                 running, until, current, envVars, evVars, intVars, ghosts>>

(* Mutant: the interrupt just delivered stays pending.                     *)
Delivered_pending(p) == UNCHANGED interrupt_pending

Delivered(p) == interrupt_pending' = [interrupt_pending EXCEPT ![p] = FALSE]

(* resume_cb of a suspended process: sim_yield returns.                    *)
resume_cb_return ==
  /\ NextCallback("resume")
  /\ LET p == Head(rest).user IN
       /\ pstate[p] = "running"
       /\ yielded' = [yielded EXCEPT ![p] = NULL]
       /\ was_interrupted' = [was_interrupted EXCEPT ![p] = interrupt_pending[p]]
       /\ Delivered(p)
       /\ interrupt_cause' = [interrupt_cause EXCEPT
            ![p] = IF interrupt_pending[p] THEN 0 ELSE @]
       /\ ctx' = p
       /\ waitOn' = [waitOn EXCEPT ![p] = NULL]
  /\ UNCHANGED <<now, heap, pstate, done, resume_value, process_pool, gen,
                 running, until, current, watches, envVars, evVars>>

user_cb ==
  /\ NextCallback("user")
  /\ ctx' = "callback"
  /\ UNCHANGED <<now, heap, running, until, current, envVars, evVars, intVars,
                 procVars, ghosts>>

user_cb_return ==
  /\ ctx = "callback"
  /\ ctx' = "dispatch"
  /\ UNCHANGED <<now, heap, running, until, current, rest, envVars, evVars,
                 intVars, procVars, ghosts>>

(* Mutant: every event goes to the pool.                                   *)
MayRecycle_all(e) == TRUE

MayRecycle(e) == recyclable[e]

(* The end of _sim_event_run_callbacks and of sim_step.                    *)
EndDispatch ==
  /\ ctx = "dispatch" /\ rest = <<>>
  /\ event_pool' = IF MayRecycle(current) THEN <<current>> \o event_pool
                                          ELSE event_pool
  /\ ctx' = "loop" /\ current' = NULL
  /\ running' = IF running = "step" THEN "stepped" ELSE running
  /\ UNCHANGED <<now, heap, until, rest, state, cbs, recyclable, envVars,
                 intVars, procVars, ghosts>>

-----------------------------------------------------------------------------
Untils(m) == IF m = "until" THEN 0..MaxTime ELSE {0}

StartSomeRun == \E m \in RunModes : \E u \in Untils(m) : StartRun(m, u)

Program ==
  \/ \E e \in Addr : sim_event(e)
  \/ \E e \in Addr, d \in Delays : sim_timeout(e, d)
  \/ \E e \in Addr : sim_event_succeed(e)
  \/ \E e \in Addr : sim_event_on(e)
  \/ \E p \in Proc : sim_process(p)
  \/ \E p \in Proc, g \in 1..MaxGen : sim_process_interrupt(p, g)
  \/ \E p \in Proc, g \in 1..MaxGen : sim_process_event(p, g)
  \/ \E m \in RtModes : sim_env_set_realtime(m)

Body ==
  \/ \E p \in Proc, e \in Addr : sim_yield(p, e)
  \/ \E p \in Proc : process_entry_end(p)

Library ==
  \/ sim_step
  \/ FinishRun
  \/ waiter_cb
  \/ resume_cb_dead
  \/ resume_cb_start
  \/ resume_cb_return
  \/ user_cb
  \/ EndDispatch

Next == Program \/ Body \/ StartSomeRun \/ Library \/ LagAbort \/ user_cb_return

Spec == Init /\ [][Next]_vars

(* The library's loop never stops by itself; the program may compute as it *)
(* likes but a body eventually yields or returns, a callback returns and   *)
(* the host calls the library again.                                       *)
FairSpec ==
  /\ Spec
  /\ WF_vars(Library \/ LagAbort)
  /\ \A p \in Proc : WF_vars(process_entry_end(p) \/ \E e \in Addr : sim_yield(p, e))
  /\ WF_vars(user_cb_return)
  /\ WF_vars(StartSomeRun)
-----------------------------------------------------------------------------
(* Properties.                                                             *)

TypeOK ==
  /\ now \in Nat /\ heap \in Seq(Entry(Ev))
  /\ event_pool \in Seq(Addr) /\ process_pool \in Seq(Proc)
  /\ rt_mode \in RtModes \cup {"off"} /\ rt_lagged \in BOOLEAN /\ rt_past \in Nat
  /\ state \in [Ev -> {"fresh", "pending", "triggered", "processed"}]
  /\ cbs \in [Ev -> Seq(Callback)]
  /\ recyclable \in [Ev -> BOOLEAN]
  /\ pstate \in [Proc -> {"unborn", "new", "running", "dead"}]
  /\ yielded \in [Proc -> Addr \cup {NULL}]
  /\ done \in [Proc -> Addr \cup {NULL}]
  /\ resume_value \in [Proc -> Addr \cup {NULL}]
  /\ interrupt_pending \in [Proc -> BOOLEAN]
  /\ interrupt_cause \in [Proc -> Nat]
  /\ was_interrupted \in [Proc -> BOOLEAN]
  /\ gen \in [Proc -> Nat]
  /\ ctx \in Proc \cup {"main", "loop", "dispatch", "callback"}
  /\ running \in {"idle", "stepped"} \cup RunModes /\ until \in Nat
  /\ current \in Ev \cup {NULL} /\ rest \in Seq(Callback)
  /\ waitOn \in [Proc -> Addr \cup {NULL}]
  /\ watches \subseteq [proc : Proc, gen : Nat, event : Addr]

(* A process inside sim_yield.                                             *)
Suspended(p) == pstate[p] = "running" /\ ctx # p

(* The resume event of p is queued, and will switch to p once.             *)
ResumeQueued(p) ==
  state[p] = "triggered" /\ cbs[p] = <<Resume(p)>>

(* The resume event of p is being dispatched and has not switched yet.     *)
ResumeDue(p) == current = p /\ rest = <<Resume(p)>>

(* The waiter callback of p is registered where it will still be run.      *)
Listening(p) ==
  /\ yielded[p] \in Addr
  /\ \/ /\ state[yielded[p]] \in {"pending", "triggered"}
        /\ Waiter(p) \in ToSet(cbs[yielded[p]])
     \/ /\ current = yielded[p]
        /\ Waiter(p) \in ToSet(rest)

(* An event is in the queue exactly once while it is triggered and not yet *)
(* processed, and otherwise not at all (_sim_event_schedule in every path  *)
(* that triggers, the state guards of succeed and schedule_resume).        *)
QueuedOnce ==
  /\ \A e \in Ev : state[e] = "triggered" <=> e \in Queued(heap)
  /\ Distinct(heap)

(* No entry is in the past, and one that resumes a process is of this very *)
(* instant: time never passes between an event and the processes it wakes. *)
ResumeAtOnce ==
  /\ InTimeOrder(heap)
  /\ \A i \in DOMAIN heap :
       /\ heap[i].time >= now
       /\ heap[i].ev \in Proc => heap[i].time = now

(* An event in the pool is there once, and unused: nobody can be waiting   *)
(* for it, it has no callbacks left, is not queued and is not the event    *)
(* whose callbacks are being run.                                          *)
PoolUnused ==
  /\ \A i, j \in DOMAIN event_pool : event_pool[i] = event_pool[j] => i = j
  /\ \A i \in DOMAIN event_pool :
       LET e == event_pool[i] IN
         /\ state[e] = "processed"
         /\ cbs[e] = <<>>
         /\ e # current
         /\ \A p \in Proc : waitOn[p] # e /\ done[p] # e

PoolRecyclable == \A i \in DOMAIN event_pool : recyclable[event_pool[i]]

(* An event in the pool is free, and no event that a program may keep      *)
(* after it was processed gets there.                                      *)
PoolIsFree == PoolUnused /\ PoolRecyclable

(* The structures in the process pool are those of the dead processes.     *)
PooledAreDead ==
  /\ \A i, j \in DOMAIN process_pool : process_pool[i] = process_pool[j] => i = j
  /\ \A p \in Proc : pstate[p] = "dead" <=> p \in ToSet(process_pool)

(* No wake-up is lost: a new process will be started and a suspended one   *)
(* is about to be resumed or still listens to the event it yielded.        *)
NoLostWakeup ==
  \A p \in Proc :
    /\ pstate[p] = "new" => ResumeQueued(p) \/ ResumeDue(p)
    /\ Suspended(p) => ResumeQueued(p) \/ ResumeDue(p) \/ Listening(p)

(* sim_yield returns for a reason, with the value that belongs to it: a    *)
(* process resumed without an interrupt had its own event processed, and   *)
(* is handed the value of that event and of no other.                      *)
NoSpuriousWakeup ==
  \A p \in Proc :
    Suspended(p) /\ (ResumeQueued(p) \/ ResumeDue(p)) /\ ~interrupt_pending[p] =>
      waitOn[p] = NULL /\ yielded[p] # NULL /\ resume_value[p] = yielded[p]

(* An interrupt is delivered at once: while one is pending for a suspended *)
(* process, its resume is on its way at the current time.                  *)
InterruptPrompt ==
  \A p \in Proc :
    Suspended(p) /\ interrupt_pending[p] => ResumeQueued(p) \/ ResumeDue(p)

(* An interrupt reaches only the process it was sent to, not a later one   *)
(* that uses the same structure ("No-op for finished processes").          *)
InterruptReachesAddressee ==
  \A p \in Proc : interrupt_pending[p] => interrupt_cause[p] = gen[p]

Finished(p, g) == g < gen[p] \/ pstate[p] = "dead"

(* The done event somebody got for a process is triggered exactly when     *)
(* that process has finished ("The event that fires when the process       *)
(* terminates"), whether it was asked for before, during or after its life.*)
DoneMeansFinished ==
  \A w \in watches : state[w.event] = "pending" <=> ~Finished(w.proc, w.gen)

-----------------------------------------------------------------------------
(* The inductive invariant: what the parts above rest on.                  *)

(* Callbacks are run, and bodies resumed by one, only while an event is    *)
(* current; resume events are not recycled.                                *)
ControlOK ==
  /\ ctx \in {"main", "loop"} => current = NULL /\ rest = <<>>
  /\ ctx \notin {"main", "loop"} => current \in Ev
  /\ \A p \in Proc : ~recyclable[p]

(* A body runs from the only callback of its own resume event.             *)
RunningOK ==
  ctx \in Proc => pstate[ctx] = "running" /\ current = ctx /\ rest = <<>>

NoResume(s) == \A i \in DOMAIN s : s[i].fn # "resume"

(* Which callbacks an event can have, and those left of the current one.   *)
CallbacksOK ==
  /\ \A p \in Proc :
       /\ state[p] # "pending"
       /\ cbs[p] = IF state[p] = "triggered" THEN <<Resume(p)>> ELSE <<>>
  /\ \A e \in Addr :
       /\ NoResume(cbs[e])
       /\ state[e] \in {"fresh", "processed"} => cbs[e] = <<>>
  /\ current \in Proc => rest \in {<<>>, <<Resume(current)>>}
  /\ current \in Addr => state[current] = "processed" /\ NoResume(rest)

(* An awaited event is still to be processed; a done event is kept.        *)
AwaitedOK ==
  \A p \in Proc :
    /\ waitOn[p] # NULL => state[waitOn[p]] \in {"pending", "triggered"}
    /\ done[p] # NULL => state[done[p]] # "fresh" /\ ~recyclable[done[p]]

IInv ==
  /\ TypeOK
  /\ ControlOK
  /\ RunningOK
  /\ CallbacksOK
  /\ AwaitedOK
  /\ PooledAreDead
  /\ PoolUnused
  /\ QueuedOnce
  /\ NoLostWakeup

-----------------------------------------------------------------------------
(* The clock never goes back ("advances env->now").                        *)
ClockMonotonic == [][now' >= now]_vars

(* A process whose resume is queued runs, however long the others go on    *)
(* waking each other without letting time pass; or strict real time aborts *)
(* the run, and sim_env_realtime_lagged tells so.                          *)
ResumedEventually ==
  \A p \in Proc :
    (Suspended(p) /\ ResumeQueued(p)) ~> (ctx = p \/ rt_lagged)

(* simpyc.h of sim_process_interrupt_cause: the cause is retrievable       *)
(* inside the process that was interrupted.                                *)
CauseRetrievable ==
  \A p \in Proc : ctx = p /\ was_interrupted[p] => interrupt_cause[p] # 0
=============================================================================
