---------------------------- MODULE KernelSafety ----------------------------
(***************************************************************************)
(* The theorems of Kernel that need more than IInv: that time does not     *)
(* pass between an event and those it wakes, that sim_yield returns for a  *)
(* reason, and what an interrupt and a done event are good for.  Each part *)
(* below is preserved by every step from a state of IInv where it holds.   *)
(* Three of the theorems have a condition on the program; a run shows for  *)
(* each that without it the property is violated.                          *)
(***************************************************************************)
EXTENDS KernelProofs

(* A callback is the program's only while an event of the program is       *)
(* current, and a resume event switches before it can be triggered again.  *)
DispatchOK ==
  /\ ctx = "callback" => current \in Addr
  /\ current \in Proc /\ rest # <<>> => state[current] = "processed"

(* What the resume event of p means: nothing is queued for a body that     *)
(* runs; one that waits, waits for the event it yielded, and is resumed    *)
(* only once that was processed, with its value.                           *)
ReasonOK(p) ==
  pstate[p] = "running" /\ ~interrupt_pending[p] =>
    IF ctx = p THEN state[p] # "triggered"
    ELSE /\ waitOn[p] \in {NULL, yielded[p]}
         /\ state[p] = "triggered" \/ ResumeDue(p) =>
              /\ waitOn[p] = NULL
              /\ yielded[p] # NULL /\ resume_value[p] = yielded[p]

Reasons == DispatchOK /\ \A p \in Proc : ReasonOK(p)

(* An interrupt is pending only for a process that started, with a resume  *)
(* on the way, whoever runs.                                               *)
Prompt(p) ==
  interrupt_pending[p] =>
    /\ pstate[p] # "new"
    /\ pstate[p] = "running" => ResumeQueued(p) \/ ResumeDue(p)

PromptOK == \A p \in Proc : Prompt(p)

(* A done event handed out belongs to one use of one structure, is never   *)
(* allocated again, and is found in the structure as long as that is used. *)
WatchesOK ==
  /\ \A p \in Proc :
       /\ pstate[p] = "unborn" => gen[p] = 0
       /\ done[p] # NULL => [proc |-> p, gen |-> gen[p], event |-> done[p]] \in watches
  /\ \A w \in watches :
       /\ w.gen \in 1..gen[w.proc]
       /\ w.gen = gen[w.proc] => done[w.proc] = w.event
       /\ state[w.event] # "fresh" /\ ~recyclable[w.event]
  /\ \A v, w \in watches : v.event = w.event => v = w

-----------------------------------------------------------------------------
(* The clock.                                                              *)

(* A schedule for now or later keeps the queue in order and out of the     *)
(* past; resume events are scheduled for now (_sim_event_schedule).        *)
LEMMA ScheduleClock ==
  ASSUME TypeOK, ResumeAtOnce, NEW e \in Ev, NEW d \in Nat,
         e \in Proc => d = 0, _sim_event_schedule(e, d), now' = now
  PROVE  ResumeAtOnce'
<1>1. heap \in Seq(Entry(Ev)) /\ now \in Nat /\ now + d \in Nat
  BY DEF TypeOK
<1>2. InTimeOrder(heap) /\ heap' = Insert(heap, now + d, e)
  BY DEF ResumeAtOnce, _sim_event_schedule
<1>3. /\ InTimeOrder(heap')
      /\ \A i \in DOMAIN heap' : \/ heap'[i] = [time |-> now + d, ev |-> e]
                                 \/ \E j \in DOMAIN heap : heap'[i] = heap[j]
  <2>1. ASSUME NEW s \in Seq(Entry(Ev)), NEW t \in Nat, InTimeOrder(s)
        PROVE  /\ InTimeOrder(Insert(s, t, e))
               /\ \A i \in DOMAIN Insert(s, t, e) :
                    \/ Insert(s, t, e)[i] = [time |-> t, ev |-> e]
                    \/ \E j \in DOMAIN s : Insert(s, t, e)[i] = s[j]
    BY <2>1, InsertOrdered
  <2> QED
    BY <1>1, <1>2, <2>1
<1>4. ASSUME NEW i \in DOMAIN heap'
      PROVE  heap'[i].time >= now /\ (heap'[i].ev \in Proc => heap'[i].time = now)
  <2>1. CASE heap'[i] = [time |-> now + d, ev |-> e]
    BY <2>1, <1>1
  <2>2. CASE \E j \in DOMAIN heap : heap'[i] = heap[j]
    BY <2>2 DEF ResumeAtOnce
  <2> QED
    BY <2>1, <2>2, <1>3
<1> QED
  BY <1>3, <1>4 DEF ResumeAtOnce

(* schedule_resume: the resume is queued for now, or already was.          *)
LEMMA ScheduleResumeClock ==
  ASSUME TypeOK, ResumeAtOnce, NEW p \in Proc, NEW v, schedule_resume(p, v),
         now' = now
  PROVE  ResumeAtOnce'
<1>1. CASE state[p] = "triggered"
  BY <1>1 DEF schedule_resume, ResumePending, ResumeAtOnce
<1>2. CASE state[p] # "triggered"
  <2>1. p \in Ev /\ _sim_event_schedule(p, 0)
    BY <1>2 DEF schedule_resume, ResumePending, Ev
  <2> QED
    BY <2>1, ScheduleClock
<1> QED
  BY <1>1, <1>2

(* sim_step takes the earliest entry; what remains is not before it, and a *)
(* resume of this instant was not overtaken by the clock.                  *)
LEMMA StepClock ==
  ASSUME TypeOK, ResumeAtOnce, sim_step
  PROVE  ResumeAtOnce' /\ now' >= now
<1>1. /\ heap \in Seq(Entry(Ev)) /\ heap # <<>> /\ now \in Nat
      /\ heap' = Tail(heap) /\ now' = Head(heap).time
  BY DEF TypeOK, sim_step, MayStep
<1>2. /\ DOMAIN heap = 1..Len(heap) /\ Len(heap) \in Nat
      /\ \A j \in DOMAIN heap : heap[j].time \in Nat
  BY <1>1, EntryTimes
<1>3. /\ 1 \in DOMAIN heap /\ now' = heap[1].time
      /\ \A i \in DOMAIN heap' :
           i \in Nat \ {0} /\ i + 1 \in DOMAIN heap /\ heap'[i] = heap[i + 1]
  BY <1>1, <1>2
<1>4. InTimeOrder(heap')
  <2> SUFFICES ASSUME NEW i \in DOMAIN heap', NEW j \in DOMAIN heap', i < j
               PROVE  heap'[i].time <= heap'[j].time
    BY DEF InTimeOrder
  <2>1. i + 1 \in DOMAIN heap /\ j + 1 \in DOMAIN heap /\ i + 1 < j + 1
    BY <1>3
  <2> QED
    BY <2>1, <1>3 DEF ResumeAtOnce, InTimeOrder
<1>5. now' >= now
  BY <1>3 DEF ResumeAtOnce
<1>6. ASSUME NEW i \in DOMAIN heap'
      PROVE  heap'[i].time >= now' /\ (heap'[i].ev \in Proc => heap'[i].time = now')
  <2>1. i + 1 \in DOMAIN heap /\ 1 < i + 1 /\ heap'[i] = heap[i + 1]
    BY <1>3
  <2>2. heap[1].time <= heap[i + 1].time
    BY <2>1, <1>3 DEF ResumeAtOnce, InTimeOrder
  <2>3. heap[i + 1].ev \in Proc => heap[i + 1].time = now
    BY <2>1 DEF ResumeAtOnce
  <2> QED
    BY <2>1, <2>2, <2>3, <1>2, <1>3, <1>5, <1>1
<1> QED
  BY <1>4, <1>5, <1>6 DEF ResumeAtOnce

(* sim_run_until moves the clock to its end only over an empty interval.   *)
LEMMA FinishClock ==
  ASSUME TypeOK, ResumeAtOnce, FinishRun
  PROVE  ResumeAtOnce' /\ now' >= now
<1>1. /\ heap \in Seq(Entry(Ev)) /\ now \in Nat /\ until \in Nat /\ heap' = heap
      /\ now' = IF running = "until" /\ now < until THEN until ELSE now
      /\ heap # <<>> /\ running = "until" => ~(Head(heap).time < until)
  BY DEF TypeOK, FinishRun, Return, IsLate, MayStep
<1>2. CASE running = "until" /\ now < until
  <2>1. now' = until /\ now' > now
    BY <1>1, <1>2
  <2>2. /\ DOMAIN heap = 1..Len(heap) /\ Len(heap) \in Nat
        /\ \A j \in DOMAIN heap : heap[j].time \in Nat
    BY <1>1, EntryTimes
  <2>3. ASSUME NEW i \in DOMAIN heap
        PROVE  heap[i].time >= until
    <3>1. 1 \in DOMAIN heap /\ heap # <<>> /\ Head(heap) = heap[1]
      BY <1>1, <2>2
    <3>2. heap[1].time <= heap[i].time
      BY <3>1, <2>2 DEF ResumeAtOnce, InTimeOrder
    <3> QED
      BY <3>1, <3>2, <1>1, <1>2, <2>2
  <2>4. \A i \in DOMAIN heap : heap[i].ev \notin Proc
    BY <2>1, <2>2, <2>3, <1>1 DEF ResumeAtOnce
  <2> QED
    BY <2>1, <2>3, <2>4, <1>1 DEF ResumeAtOnce
<1>3. CASE ~(running = "until" /\ now < until)
  BY <1>1, <1>3 DEF ResumeAtOnce
<1> QED
  BY <1>2, <1>3

(* Every step keeps the clock and the queue in agreement, if a run that    *)
(* strict real time may abort is not one with an end time.                 *)
LEMMA NextClock ==
  ASSUME "strict" \in RtModes => "until" \notin RunModes,
         IInv, ResumeAtOnce, [Next]_vars
  PROVE  ResumeAtOnce' /\ now' >= now
<1>t. TypeOK /\ now \in Nat /\ Addr \subseteq Ev /\ Proc \subseteq Ev
  BY DEF IInv, TypeOK, Ev
<1>u. ASSUME UNCHANGED <<now, heap>>
      PROVE  ResumeAtOnce' /\ now' >= now
  BY <1>u, <1>t DEF ResumeAtOnce
<1>s. ASSUME now' = now, ResumeAtOnce'
      PROVE  ResumeAtOnce' /\ now' >= now
  BY <1>s, <1>t
<1> USE AddressesDiffer
<1>1. CASE UNCHANGED vars
  BY <1>1, <1>u DEF vars
<1>2. CASE Program
  <2>1. ASSUME NEW e \in Addr, sim_event(e) PROVE UNCHANGED <<now, heap>>
    BY <2>1 DEF sim_event
  <2>2. ASSUME NEW e \in Addr, NEW d \in Delays, sim_timeout(e, d)
        PROVE  now' = now /\ ResumeAtOnce'
    <3>1. e \in Ev /\ e \notin Proc /\ d \in Nat
      BY <1>t, BoundsAreNaturals
    <3> QED
      BY <2>2, <3>1, <1>t, ScheduleClock DEF sim_timeout
  <2>3. ASSUME NEW e \in Addr, sim_event_succeed(e)
        PROVE  now' = now /\ ResumeAtOnce'
    <3>1. e \in Ev /\ e \notin Proc
      BY <1>t
    <3> QED
      BY <2>3, <3>1, <1>t, ScheduleClock DEF sim_event_succeed
  <2>4. ASSUME NEW e \in Addr, sim_event_on(e) PROVE UNCHANGED <<now, heap>>
    BY <2>4 DEF sim_event_on
  <2>5. ASSUME NEW p \in Proc, sim_process(p) PROVE now' = now /\ ResumeAtOnce'
    BY <2>5, <1>t, ScheduleResumeClock DEF sim_process
  <2>6. ASSUME NEW p \in Proc, NEW g \in 1..MaxGen, sim_process_interrupt(p, g)
        PROVE  now' = now /\ ResumeAtOnce'
    BY <2>6, <1>t, ScheduleResumeClock DEF sim_process_interrupt
  <2>7. ASSUME NEW p \in Proc, NEW g \in 1..MaxGen, sim_process_event(p, g)
        PROVE  now' = now /\ ResumeAtOnce'
    <3>1. \/ UNCHANGED <<now, heap>>
          \/ now' = now /\ \E e \in Addr : _sim_event_schedule(e, 0)
      BY <2>7 DEF sim_process_event
    <3> QED
      BY <3>1, <1>t, <1>u, ScheduleClock
  <2>8. ASSUME NEW m \in RtModes, sim_env_set_realtime(m)
        PROVE  UNCHANGED <<now, heap>>
    BY <2>8 DEF sim_env_set_realtime
  <2> QED
    BY <1>2, <1>u, <1>s, <2>1, <2>2, <2>3, <2>4, <2>5, <2>6, <2>7, <2>8 DEF Program
<1>3. CASE Body
  <2>1. ASSUME NEW p \in Proc, NEW e \in Addr, sim_yield(p, e)
        PROVE  now' = now /\ ResumeAtOnce'
    <3>1. now' = now /\ (UNCHANGED heap \/ schedule_resume(p, e))
      BY <2>1 DEF sim_yield
    <3> QED
      BY <3>1, <1>t, <1>u, ScheduleResumeClock
  <2>2. ASSUME NEW p \in Proc, process_entry_end(p)
        PROVE  now' = now /\ ResumeAtOnce'
    <3>1. now' = now /\ (UNCHANGED heap \/
            (done[p] \in Addr /\ _sim_event_schedule(done[p], 0)))
      BY <2>2, <1>t DEF process_entry_end, TypeOK
    <3> QED
      BY <3>1, <1>t, <1>u, ScheduleClock
  <2> QED
    BY <1>3, <1>s, <2>1, <2>2 DEF Body
<1>4. CASE StartSomeRun
  BY <1>4, <1>u DEF StartSomeRun, StartRun
<1>5. CASE Library
  <2>1. CASE waiter_cb
    <3>1. now' = now /\ Head(rest).user \in Proc
      BY <2>1, <1>t, NextCallbackType DEF waiter_cb
    <3>2. UNCHANGED heap \/ schedule_resume(Head(rest).user, current)
      BY <2>1 DEF waiter_cb
    <3> QED
      BY <3>1, <3>2, <1>t, <1>u, <1>s, ScheduleResumeClock
  <2>2. CASE resume_cb_dead \/ resume_cb_start \/ resume_cb_return \/ user_cb
             \/ EndDispatch
    BY <2>2, <1>u
       DEF resume_cb_dead, resume_cb_start, resume_cb_return, user_cb, EndDispatch
  <2> QED
    BY <1>5, <1>t, <2>1, <2>2, StepClock, FinishClock DEF Library
<1>6. CASE LagAbort
  <2>1. "strict" \in RtModes
    BY <1>6, <1>t DEF LagAbort, TypeOK
  <2>2. running # "until"
    BY <2>1, <1>t DEF TypeOK
  <2> QED
    BY <1>6, <2>2, <1>u DEF LagAbort, Return, IsLate
<1>7. CASE user_cb_return
  BY <1>7, <1>u DEF user_cb_return
<1> QED
  BY <1>1, <1>2, <1>3, <1>4, <1>5, <1>6, <1>7 DEF Next

(* Time does not pass between an event and the processes it wakes, unless  *)
(* strict real time aborts a sim_run_until (env.c:132; the run             *)
(* kernel_strict shows what happens then).                                 *)
THEOREM Instants ==
  ASSUME "strict" \in RtModes => "until" \notin RunModes
  PROVE  Spec => []ResumeAtOnce
<1>1. Init => ResumeAtOnce
  BY DEF Init, ResumeAtOnce, InTimeOrder
<1>2. IInv /\ ResumeAtOnce /\ [Next]_vars => ResumeAtOnce'
  BY NextClock
<1> QED
  BY <1>1, <1>2, Inductive, PTL DEF Spec

(* The clock never goes back, under the same condition.                    *)
THEOREM Clock ==
  ASSUME "strict" \in RtModes => "until" \notin RunModes
  PROVE  Spec => ClockMonotonic
<1>1. IInv /\ ResumeAtOnce /\ [Next]_vars => [now' >= now]_vars
  BY NextClock
<1> QED
  BY <1>1, Inductive, Instants, PTL DEF Spec, ClockMonotonic

-----------------------------------------------------------------------------
(* Reasons to wake.                                                        *)

(* A step that does not concern process p.                                 *)
Untouched(p) ==
  /\ pstate'[p] = pstate[p] /\ yielded'[p] = yielded[p] /\ waitOn'[p] = waitOn[p]
  /\ interrupt_pending'[p] = interrupt_pending[p]
  /\ resume_value'[p] = resume_value[p]
  /\ state'[p] = state[p] /\ cbs'[p] = cbs[p]
  /\ ctx' = p <=> ctx = p

(* The operations of the program leave the control of the library alone.   *)
LEMMA ProgramControl ==
  ASSUME Program
  PROVE  InClient /\ UNCHANGED <<ctx, current, rest, running, until>>
BY DEF Program, ctlVars, sim_event, sim_timeout, sim_event_succeed, sim_event_on,
       sim_process, sim_process_interrupt, sim_process_event, sim_env_set_realtime

(* The only operations of the program to concern a process are its         *)
(* creation and an interrupt.                                              *)
LEMMA ProgramTouches ==
  ASSUME IInv, Program
  PROVE  \/ \A q \in Proc : Untouched(q)
         \/ \E p \in Proc :
              /\ \A q \in Proc \ {p} : Untouched(q)
              /\ sim_process(p) \/ \E g \in 1..MaxGen : sim_process_interrupt(p, g)
<1> DEFINE Touches(p) == \A q \in Proc \ {p} : Untouched(q)
<1>t. /\ state \in [Ev -> {"fresh", "pending", "triggered", "processed"}]
      /\ cbs \in [Ev -> Seq(Callback)]
      /\ pstate \in [Proc -> {"unborn", "new", "running", "dead"}]
      /\ yielded \in [Proc -> Addr \cup {NULL}]
      /\ resume_value \in [Proc -> Addr \cup {NULL}]
      /\ waitOn \in [Proc -> Addr \cup {NULL}]
      /\ interrupt_pending \in [Proc -> BOOLEAN]
      /\ Addr \subseteq Ev /\ Proc \subseteq Ev
  BY DEF IInv, TypeOK, Ev
<1>d. \A a \in Addr : a \notin Proc
  BY AddressesDiffer
<1>c. UNCHANGED ctx
  BY ProgramControl
<1>1. ASSUME NEW e \in Addr, NEW s \in {"pending", "triggered"}, NEW r \in BOOLEAN,
             Allocated(e, s, r)
      PROVE  \A q \in Proc : state'[q] = state[q] /\ cbs'[q] = cbs[q]
  BY <1>1, <1>d, <1>t, AllocatedEffect
<1>2. ASSUME NEW e \in Addr, sim_event(e) PROVE \A q \in Proc : Untouched(q)
  BY <1>1, <1>2 DEF Untouched, sim_event, intVars, procVars, ctlVars, ghosts
<1>3. ASSUME NEW e \in Addr, NEW d \in Delays, sim_timeout(e, d)
      PROVE  \A q \in Proc : Untouched(q)
  BY <1>1, <1>3 DEF Untouched, sim_timeout, intVars, procVars, ctlVars, ghosts
<1>4. ASSUME NEW e \in Addr, sim_event_succeed(e) PROVE \A q \in Proc : Untouched(q)
  BY <1>4, <1>d, <1>t
     DEF Untouched, sim_event_succeed, intVars, procVars, ctlVars, ghosts
<1>5. ASSUME NEW e \in Addr, sim_event_on(e) PROVE \A q \in Proc : Untouched(q)
  BY <1>5, <1>d, <1>t DEF Untouched, sim_event_on, intVars, procVars, ctlVars, ghosts
<1>6. ASSUME NEW p \in Proc, sim_process(p) PROVE Touches(p)
  <2>1. schedule_resume(p, NULL)
    BY <1>6 DEF sim_process
  <2> QED
    BY <1>6, <2>1, <1>t, ScheduleResumeEffect
       DEF Untouched, sim_process, Wiped, schedule_resume, ctlVars
<1>7. ASSUME NEW p \in Proc, NEW g \in 1..MaxGen, sim_process_interrupt(p, g)
      PROVE  Touches(p)
  <2>1. schedule_resume(p, NULL)
    BY <1>7 DEF sim_process_interrupt
  <2> QED
    BY <1>7, <2>1, <1>t, ScheduleResumeEffect
       DEF Untouched, sim_process_interrupt, schedule_resume, ctlVars, ghosts
<1>8. ASSUME NEW p \in Proc, NEW g \in 1..MaxGen, sim_process_event(p, g)
      PROVE  \A q \in Proc : Untouched(q)
  <2>1. \A q \in Proc : state'[q] = state[q] /\ cbs'[q] = cbs[q]
    BY <1>1, <1>8 DEF sim_process_event, evVars
  <2> QED
    BY <2>1, <1>8 DEF Untouched, sim_process_event, intVars, ctlVars
<1>9. ASSUME NEW m \in RtModes, sim_env_set_realtime(m)
      PROVE  \A q \in Proc : Untouched(q)
  BY <1>9 DEF Untouched, sim_env_set_realtime, evVars, intVars, procVars, ctlVars,
              ghosts
<1> QED
  BY <1>2, <1>3, <1>4, <1>5, <1>6, <1>7, <1>8, <1>9 DEF Program

(* A body that yields or ends concerns no process but its own.             *)
LEMMA BodyTouches ==
  ASSUME IInv, NEW p \in Proc,
         process_entry_end(p) \/ \E e \in Addr : sim_yield(p, e)
  PROVE  /\ ctx = p /\ ctx' = "dispatch" /\ UNCHANGED <<current, rest>>
         /\ pstate[p] = "running" /\ rest = <<>>
         /\ \A q \in Proc \ {p} : Untouched(q)
<1>t. /\ state \in [Ev -> {"fresh", "pending", "triggered", "processed"}]
      /\ cbs \in [Ev -> Seq(Callback)]
      /\ pstate \in [Proc -> {"unborn", "new", "running", "dead"}]
      /\ yielded \in [Proc -> Addr \cup {NULL}] /\ done \in [Proc -> Addr \cup {NULL}]
      /\ resume_value \in [Proc -> Addr \cup {NULL}]
      /\ waitOn \in [Proc -> Addr \cup {NULL}]
      /\ Addr \subseteq Ev /\ Proc \subseteq Ev
  BY DEF IInv, TypeOK, Ev
<1>d. /\ \A a \in Addr : a \notin Proc /\ a # NULL
      /\ \A q \in Proc : q # "dispatch"
  BY AddressesDiffer
<1>1. /\ ctx = p /\ ctx' = "dispatch" /\ UNCHANGED <<current, rest>>
      /\ pstate[p] = "running" /\ rest = <<>>
  BY DEF process_entry_end, sim_yield, IInv, RunningOK
<1>2. CASE process_entry_end(p)
  <2>1. \A q \in Proc : state'[q] = state[q]
    BY <1>2, <1>d, <1>t DEF process_entry_end
  <2> QED
    BY <1>1, <1>2, <2>1, <1>d, <1>t DEF process_entry_end, Untouched, intVars, ghosts
<1>3. ASSUME NEW e \in Addr, sim_yield(p, e)
      PROVE  \A q \in Proc \ {p} : Untouched(q)
  <2>1. \A q \in Proc \ {p} : /\ state'[q] = state[q] /\ cbs'[q] = cbs[q]
                              /\ resume_value'[q] = resume_value[q]
    <3>1. CASE state[e] = "processed"
      <4>1. schedule_resume(p, e)
        BY <1>3, <3>1 DEF sim_yield
      <4> QED
        BY <4>1, <1>t, ScheduleResumeEffect DEF schedule_resume
    <3>2. CASE state[e] # "processed"
      BY <1>3, <3>2, <1>d, <1>t DEF sim_yield
    <3> QED
      BY <3>1, <3>2
  <2> QED
    BY <1>1, <1>3, <2>1, <1>d, <1>t DEF Untouched, sim_yield, intVars
<1> QED
  BY <1>1, <1>2, <1>3

(* sim_step takes an event that is triggered, and makes it the current one.*)
LEMMA StepTakes ==
  ASSUME IInv, sim_step
  PROVE  \E e \in Ev :
           /\ ctx = "loop" /\ ctx' = "dispatch" /\ current' = e /\ rest' = cbs[e]
           /\ state[e] = "triggered"
           /\ state' = [state EXCEPT ![e] = "processed"]
           /\ cbs' = [cbs EXCEPT ![e] = <<>>]
           /\ waitOn' = [p \in Proc |-> IF waitOn[p] = e THEN NULL ELSE waitOn[p]]
           /\ UNCHANGED <<pstate, yielded, interrupt_pending, resume_value>>
<1>1. heap \in Seq(Entry(Ev)) /\ heap # <<>>
  BY DEF sim_step, MayStep, IInv, TypeOK
<1>2. 1 \in DOMAIN heap /\ Head(heap) = heap[1] /\ heap[1] \in Entry(Ev)
  BY <1>1
<1>3. Head(heap).ev \in Ev /\ state[Head(heap).ev] = "triggered"
  BY <1>2 DEF Queued, Entry, IInv, QueuedOnce
<1> QED
  BY <1>3 DEF sim_step, intVars, procVars

(* waiter_cb concerns a process only if it still waits for the event whose *)
(* callbacks are run.                                                      *)
LEMMA WaiterTouches ==
  ASSUME IInv, waiter_cb
  PROVE  \E p \in Proc :
           /\ ctx = "dispatch" /\ current \in Addr /\ \A q \in Proc \ {p} : Untouched(q)
           /\ UNCHANGED <<pstate, yielded, interrupt_pending, waitOn, ctx, current>>
           /\ Untouched(p) \/ (yielded[p] = current /\ schedule_resume(p, current))
<1>t. TypeOK /\ cbs \in [Ev -> Seq(Callback)] /\ Proc \subseteq Ev
      /\ state \in [Ev -> {"fresh", "pending", "triggered", "processed"}]
      /\ resume_value \in [Proc -> Addr \cup {NULL}]
  BY DEF IInv, TypeOK, Ev
<1>0. PICK p \in Proc : p = Head(rest).user /\ Head(rest) = Waiter(p)
  BY <1>t, NextCallbackType DEF waiter_cb
<1>1. /\ ctx = "dispatch" /\ rest # <<>>
      /\ UNCHANGED <<pstate, yielded, interrupt_pending, waitOn, ctx, current>>
  BY <1>0 DEF waiter_cb, NextCallback, intVars, ghosts
<1>2. current \in Addr
  <2>1. current \in Ev
    BY <1>1 DEF IInv, ControlOK
  <2>2. SUFFICES ASSUME current \in Proc PROVE FALSE
    BY <2>1 DEF Ev
  <2>3. Head(rest) = Resume(current)
    BY <2>2, <1>1 DEF IInv, CallbacksOK
  <2> QED
    BY <2>3, <1>0 DEF Resume, Waiter
<1>3. CASE UNCHANGED <<state, cbs, resume_value>>
  BY <1>1, <1>2, <1>3 DEF Untouched
<1>4. CASE yielded[p] = current /\ schedule_resume(p, current)
  <2>1. \A q \in Proc \ {p} : Untouched(q)
    BY <1>1, <1>4, <1>t, ScheduleResumeEffect DEF Untouched, schedule_resume
  <2> QED
    BY <2>1, <1>1, <1>2, <1>4
<1> QED
  BY <1>0, <1>3, <1>4 DEF waiter_cb, IsStale

(* resume_cb concerns the process whose resume event it is called for.     *)
LEMMA ResumeTouches ==
  ASSUME IInv, resume_cb_dead \/ resume_cb_start \/ resume_cb_return
  PROVE  \E p \in Proc :
           /\ current = p /\ rest = <<Resume(p)>> /\ rest' = <<>>
           /\ UNCHANGED <<current, state>> /\ \A q \in Proc \ {p} : Untouched(q)
           /\ ctx' = p \/ (pstate[p] = "dead" /\ pstate' = pstate /\ ctx' = "dispatch")
<1>t. /\ pstate \in [Proc -> {"unborn", "new", "running", "dead"}]
      /\ yielded \in [Proc -> Addr \cup {NULL}] /\ waitOn \in [Proc -> Addr \cup {NULL}]
      /\ interrupt_pending \in [Proc -> BOOLEAN]
  BY DEF IInv, TypeOK
<1>1. /\ ctx = "dispatch" /\ NextCallback("resume")
      /\ UNCHANGED <<current, state, cbs, resume_value>>
  BY DEF resume_cb_dead, resume_cb_start, resume_cb_return, NextCallback, evVars,
         procVars
<1>2. PICK p \in Proc : /\ current = p /\ rest = <<Resume(p)>> /\ rest' = <<>>
                        /\ p = Head(rest).user
  BY <1>1, ResumeIsCurrent
<1>3. ctx' = p \/ (pstate[p] = "dead" /\ pstate' = pstate /\ ctx' = "dispatch")
  BY <1>1, <1>2 DEF resume_cb_dead, resume_cb_start, resume_cb_return, procVars
<1>4. \A q \in Proc \ {p} : Untouched(q)
  BY <1>1, <1>2, <1>3, <1>t, AddressesDiffer
     DEF resume_cb_dead, resume_cb_start, resume_cb_return, Delivered, Untouched,
         procVars, intVars, ghosts
<1> QED
  BY <1>1, <1>2, <1>3, <1>4

(* A callback of the program, and the end of a dispatch, concern nobody.   *)
LEMMA OthersTouch ==
  ASSUME IInv, user_cb \/ user_cb_return \/ EndDispatch \/ StartSomeRun
               \/ FinishRun \/ LagAbort
  PROVE  /\ \A p \in Proc : Untouched(p) /\ (ResumeDue(p) <=> ResumeDue(p)')
         /\ ctx' = "callback" => current' \in Addr
         /\ current' \in Proc => UNCHANGED <<current, rest, state>>
<1>d. \A q \in Proc : q \notin {"main", "loop", "dispatch", "callback", NULL}
  BY AddressesDiffer
<1>1. \A p \in Proc : Untouched(p)
  BY <1>d DEF user_cb, user_cb_return, EndDispatch, StartSomeRun, StartRun, FinishRun,
              LagAbort, Return, NextCallback, Untouched, evVars, intVars, procVars,
              ghosts
<1>2. CASE user_cb
  <2>1. /\ rest # <<>> /\ Head(rest).fn = "user" /\ ctx = "dispatch"
        /\ current' = current
    BY <1>2 DEF user_cb, NextCallback
  <2>2. current \in Ev /\ current \notin Proc
    BY <2>1 DEF IInv, ControlOK, CallbacksOK, Resume
  <2> QED
    BY <1>1, <2>1, <2>2 DEF ResumeDue, Ev
<1>3. CASE user_cb_return \/ StartSomeRun \/ FinishRun \/ LagAbort
  BY <1>1, <1>3 DEF user_cb_return, StartSomeRun, StartRun, FinishRun, LagAbort,
                    Return, ResumeDue, evVars
<1>4. CASE EndDispatch
  BY <1>1, <1>4, <1>d DEF EndDispatch, ResumeDue
<1> QED
  BY <1>2, <1>3, <1>4

(* ReasonOK(p) looks at p only.                                            *)
LEMMA UntouchedReason ==
  ASSUME NEW p \in Proc, ReasonOK(p), Untouched(p), ResumeDue(p)' => ResumeDue(p)
  PROVE  ReasonOK(p)'
BY DEF ReasonOK, Untouched

(* Code of the program never runs while a resume event has still to        *)
(* switch, so that it cannot trigger one that is being dispatched.         *)
LEMMA ClientDispatch ==
  ASSUME IInv, DispatchOK, InClient, UNCHANGED <<current, rest>>,
         ctx' \in {ctx, "dispatch"}
  PROVE  DispatchOK' /\ \A p \in Proc : ~ResumeDue(p) /\ ~ResumeDue(p)'
<1>1. current \notin Proc \/ rest = <<>>
  BY AddressesDiffer DEF IInv, ControlOK, RunningOK, DispatchOK, InClient
<1> QED
  BY <1>1 DEF DispatchOK, ResumeDue

(* Every step keeps Reasons: a wake-up left over from an interrupted wait  *)
(* is stale, since the wait that counts is for the event last yielded.     *)
LEMMA NextReasons == IInv /\ Reasons /\ [Next]_vars => Reasons'
<1> SUFFICES ASSUME IInv, Reasons, [Next]_vars
             PROVE  Reasons'
  OBVIOUS
<1>t. /\ state \in [Ev -> {"fresh", "pending", "triggered", "processed"}]
      /\ cbs \in [Ev -> Seq(Callback)]
      /\ pstate \in [Proc -> {"unborn", "new", "running", "dead"}]
      /\ yielded \in [Proc -> Addr \cup {NULL}] /\ done \in [Proc -> Addr \cup {NULL}]
      /\ resume_value \in [Proc -> Addr \cup {NULL}]
      /\ waitOn \in [Proc -> Addr \cup {NULL}]
      /\ interrupt_pending \in [Proc -> BOOLEAN]
      /\ Addr \subseteq Ev /\ Proc \subseteq Ev /\ TypeOK
  BY DEF IInv, TypeOK, Ev
<1>i. /\ ControlOK /\ RunningOK /\ CallbacksOK /\ AwaitedOK /\ PooledAreDead
      /\ QueuedOnce /\ DispatchOK /\ \A q \in Proc : ReasonOK(q)
  BY DEF IInv, Reasons
<1>d. /\ \A a \in Addr : a \notin Proc /\ a # NULL
      /\ \A q \in Proc : q \notin {"main", "loop", "dispatch", "callback"}
  BY AddressesDiffer
<1>c. ASSUME InClient, UNCHANGED <<current, rest>>, ctx' \in {ctx, "dispatch"},
             \A q \in Proc : ReasonOK(q)' \/ Untouched(q)
      PROVE  Reasons'
  BY <1>c, <1>i, ClientDispatch, UntouchedReason DEF Reasons
<1>1. CASE UNCHANGED vars
  BY <1>1, <1>i DEF vars, evVars, intVars, procVars, ctlVars, ghosts, Reasons,
                    DispatchOK, ReasonOK, ResumeDue
<1>2. CASE Program
  <2>1. InClient /\ UNCHANGED <<ctx, current, rest>>
    BY <1>2, ProgramControl
  <2>2. CASE \A q \in Proc : Untouched(q)
    BY <2>1, <2>2, <1>c
  <2>3. ASSUME NEW p \in Proc, \A q \in Proc \ {p} : Untouched(q),
               sim_process(p) \/ \E g \in 1..MaxGen : sim_process_interrupt(p, g)
        PROVE  Reasons'
    <3>1. ReasonOK(p)'
      BY <2>3, <1>t DEF ReasonOK, sim_process, sim_process_interrupt
    <3> QED
      BY <2>1, <2>3, <3>1, <1>c
  <2> QED
    BY <1>2, <2>2, <2>3, ProgramTouches
<1>3. ASSUME NEW p \in Proc, NEW e \in Addr, sim_yield(p, e) PROVE Reasons'
  <2>1. ctx = p /\ pstate[p] = "running" /\ rest = <<>> /\ ctx' = "dispatch"
    BY <1>3, <1>i DEF sim_yield, RunningOK
  <2>2. ~interrupt_pending[p] => state[p] # "triggered"
    BY <2>1, <1>i DEF ReasonOK
  <2>3. yielded' = [yielded EXCEPT ![p] = e] /\ UNCHANGED <<pstate, current, rest>>
    BY <1>3 DEF sim_yield
  <2>4. ReasonOK(p)'
    <3>1. CASE state[e] = "processed"
      <4>1. resume_value'[p] = e /\ waitOn'[p] = NULL
        BY <1>3, <3>1, <1>t DEF sim_yield, schedule_resume
      <4> QED
        BY <4>1, <2>1, <2>3, <1>d, <1>t DEF ReasonOK
    <3>2. CASE state[e] # "processed"
      <4>1. waitOn'[p] = e /\ UNCHANGED <<state, interrupt_pending>>
        BY <1>3, <3>2, <1>t DEF sim_yield, intVars
      <4>2. ~ResumeDue(p)'
        BY <2>1, <2>3 DEF ResumeDue
      <4> QED
        BY <4>1, <4>2, <2>1, <2>2, <2>3, <1>d, <1>t DEF ReasonOK
    <3> QED
      BY <3>1, <3>2
  <2> QED
    BY <1>3, <2>1, <2>4, <1>c, BodyTouches DEF InClient
<1>4. ASSUME NEW p \in Proc, process_entry_end(p) PROVE Reasons'
  <2>1. ReasonOK(p)'
    BY <1>4, <1>t DEF process_entry_end, ReasonOK
  <2> QED
    BY <1>4, <2>1, <1>c, BodyTouches DEF InClient
<1>5. CASE user_cb \/ user_cb_return \/ EndDispatch \/ StartSomeRun \/ FinishRun
             \/ LagAbort
  BY <1>5, <1>i, OthersTouch, UntouchedReason DEF Reasons, DispatchOK
<1>6. CASE sim_step
  <2>1. PICK e \in Ev :
          /\ ctx = "loop" /\ ctx' = "dispatch" /\ current' = e /\ state[e] = "triggered"
          /\ state' = [state EXCEPT ![e] = "processed"]
          /\ waitOn' = [p \in Proc |-> IF waitOn[p] = e THEN NULL ELSE waitOn[p]]
          /\ UNCHANGED <<pstate, yielded, interrupt_pending, resume_value>>
    BY <1>6, StepTakes
  <2>2. DispatchOK'
    BY <2>1, <1>t DEF DispatchOK
  <2>3. ASSUME NEW p \in Proc PROVE ReasonOK(p)'
    <3>1. state'[p] = "triggered" \/ ResumeDue(p)' => state[p] = "triggered"
      BY <2>1, <1>t DEF ResumeDue
    <3>2. waitOn'[p] \in {NULL, waitOn[p]}
      BY <2>1
    <3>3. ctx # p /\ ctx' # p /\ ReasonOK(p)
      BY <2>1, <1>d, <1>i
    <3> QED
      BY <2>1, <3>1, <3>2, <3>3 DEF ReasonOK
  <2> QED
    BY <2>2, <2>3 DEF Reasons
<1>7. CASE waiter_cb
  <2>1. PICK p \in Proc :
          /\ ctx = "dispatch" /\ current \in Addr /\ \A q \in Proc \ {p} : Untouched(q)
          /\ UNCHANGED <<pstate, yielded, interrupt_pending, waitOn, ctx, current>>
          /\ Untouched(p) \/ (yielded[p] = current /\ schedule_resume(p, current))
    BY <1>7, WaiterTouches
  <2>2. DispatchOK' /\ \A q \in Proc : ~ResumeDue(q)'
    BY <2>1, <1>d DEF DispatchOK, ResumeDue
  <2>3. ASSUME NEW q \in Proc, Untouched(q) PROVE ReasonOK(q)'
    BY <2>2, <2>3, <1>i, UntouchedReason
  <2>4. CASE yielded[p] = current /\ schedule_resume(p, current)
    <3>1. resume_value'[p] = current
      BY <2>1, <2>4, <1>t DEF schedule_resume
    <3>2. waitOn[p] # current
      BY <2>1, <1>d, <1>i DEF AwaitedOK, CallbacksOK
    <3>3. ctx # p
      BY <2>1, <1>d
    <3>4. ReasonOK(p)'
      BY <3>1, <3>2, <3>3, <2>1, <2>4, <1>d, <1>i DEF ReasonOK
    <3> QED
      BY <3>4, <2>1, <2>2, <2>3 DEF Reasons
  <2> QED
    BY <2>1, <2>2, <2>3, <2>4 DEF Reasons
<1>8. CASE resume_cb_dead \/ resume_cb_start \/ resume_cb_return
  <2>1. PICK p \in Proc :
          /\ current = p /\ rest = <<Resume(p)>> /\ rest' = <<>>
          /\ UNCHANGED <<current, state>> /\ \A q \in Proc \ {p} : Untouched(q)
          /\ ctx' = p \/ (pstate[p] = "dead" /\ pstate' = pstate /\ ctx' = "dispatch")
    BY <1>8, ResumeTouches
  <2>2. state[p] = "processed"
    BY <2>1, <1>i DEF DispatchOK
  <2>3. ReasonOK(p)' /\ DispatchOK' /\ \A q \in Proc : ~ResumeDue(q)'
    BY <2>1, <2>2, <1>d DEF ReasonOK, DispatchOK, ResumeDue
  <2> QED
    BY <2>1, <2>3, <1>i, UntouchedReason DEF Reasons
<1> QED
  BY <1>1, <1>2, <1>3, <1>4, <1>5, <1>6, <1>7, <1>8 DEF Next, Body, Library

LEMMA ReasonsWake == Reasons => NoSpuriousWakeup
BY DEF Reasons, ReasonOK, NoSpuriousWakeup, Suspended, ResumeQueued

(* sim_yield returns for a reason: without an interrupt, only once the     *)
(* event it yielded was processed, and with the value of that event.       *)
THEOREM Wakings == Spec => []NoSpuriousWakeup
<1>1. Init => Reasons
  BY AddressesDiffer DEF Init, Reasons, DispatchOK, ReasonOK
<1>2. IInv /\ Reasons /\ [Next]_vars => Reasons'
  BY NextReasons
<1>3. Reasons => NoSpuriousWakeup
  BY ReasonsWake
<1> QED
  BY <1>1, <1>2, <1>3, Inductive, PTL DEF Spec

-----------------------------------------------------------------------------
(* Interrupts.                                                             *)

LEMMA UntouchedPrompt ==
  ASSUME NEW p \in Proc, Prompt(p), Untouched(p), ResumeDue(p) => ResumeDue(p)'
  PROVE  Prompt(p)'
BY DEF Prompt, Untouched, ResumeQueued

(* Every step keeps PromptOK: the resume that an interrupt schedules, or   *)
(* finds already scheduled, is the one that delivers it.                   *)
LEMMA NextPrompt ==
  ASSUME ~InterruptNew, IInv, Reasons, PromptOK, [Next]_vars
  PROVE  PromptOK'
<1>t. /\ state \in [Ev -> {"fresh", "pending", "triggered", "processed"}]
      /\ cbs \in [Ev -> Seq(Callback)]
      /\ pstate \in [Proc -> {"unborn", "new", "running", "dead"}]
      /\ interrupt_pending \in [Proc -> BOOLEAN]
      /\ Addr \subseteq Ev /\ Proc \subseteq Ev /\ TypeOK
  BY DEF IInv, TypeOK, Ev
<1>i. /\ ControlOK /\ CallbacksOK /\ DispatchOK /\ \A q \in Proc : Prompt(q)
  BY DEF IInv, Reasons, PromptOK
<1>d. /\ \A a \in Addr : a \notin Proc /\ a # NULL
      /\ NULL \notin Proc
  BY AddressesDiffer
<1>1. CASE UNCHANGED vars
  BY <1>1, <1>i DEF vars, evVars, intVars, procVars, ctlVars, ghosts, PromptOK,
                    Prompt, ResumeQueued, ResumeDue
<1>2. CASE Program
  <2>1. \A q \in Proc : ResumeDue(q) => ResumeDue(q)'
    BY <1>2, ProgramControl DEF ResumeDue
  <2>2. CASE \A q \in Proc : Untouched(q)
    BY <2>1, <2>2, <1>i, UntouchedPrompt DEF PromptOK
  <2>3. ASSUME NEW p \in Proc, \A q \in Proc \ {p} : Untouched(q),
               sim_process(p) \/ \E g \in 1..MaxGen : sim_process_interrupt(p, g)
        PROVE  PromptOK'
    <3>1. CASE sim_process(p)
      BY <3>1, <2>1, <2>3, <1>i, <1>t, UntouchedPrompt
         DEF PromptOK, Prompt, sim_process, Wiped
    <3>2. CASE \E g \in 1..MaxGen : sim_process_interrupt(p, g)
      <4>1. pstate[p] # "new" /\ pstate' = pstate /\ schedule_resume(p, NULL)
        BY <3>2 DEF sim_process_interrupt
      <4>2. ResumeQueued(p)'
        BY <4>1, <1>t, ScheduleResumeEffect DEF ResumeQueued
      <4>3. Prompt(p)'
        BY <4>1, <4>2 DEF Prompt
      <4> QED
        BY <4>3, <2>1, <2>3, <1>i, UntouchedPrompt DEF PromptOK
    <3> QED
      BY <2>3, <3>1, <3>2
  <2> QED
    BY <1>2, <2>2, <2>3, ProgramTouches
<1>3. ASSUME NEW p \in Proc, NEW e \in Addr, sim_yield(p, e) PROVE PromptOK'
  <2>1. /\ rest = <<>> /\ UNCHANGED <<current, rest>>
        /\ \A q \in Proc \ {p} : Untouched(q)
    BY <1>3, BodyTouches
  <2>2. ResumeQueued(p) => ResumeQueued(p)'
    <3>1. CASE state[e] = "processed"
      <4>1. schedule_resume(p, e)
        BY <1>3, <3>1 DEF sim_yield
      <4> QED
        BY <4>1, <1>t, ScheduleResumeEffect DEF ResumeQueued
    <3>2. CASE state[e] # "processed"
      BY <1>3, <3>2, <1>d, <1>t DEF sim_yield, ResumeQueued
    <3> QED
      BY <3>1, <3>2
  <2>3. UNCHANGED <<pstate, interrupt_pending>> /\ \A q \in Proc : ~ResumeDue(q)
    BY <1>3, <2>1 DEF sim_yield, intVars, ResumeDue
  <2> QED
    BY <2>1, <2>2, <2>3, <1>i, UntouchedPrompt DEF PromptOK, Prompt
<1>4. ASSUME NEW p \in Proc, process_entry_end(p) PROVE PromptOK'
  <2>1. pstate'[p] = "dead"
    BY <1>4, <1>t DEF process_entry_end
  <2>2. rest = <<>> /\ \A q \in Proc \ {p} : Untouched(q)
    BY <1>4, BodyTouches
  <2>3. \A q \in Proc : ~ResumeDue(q)
    BY <2>2 DEF ResumeDue
  <2> QED
    BY <2>1, <2>2, <2>3, <1>i, UntouchedPrompt DEF PromptOK, Prompt
<1>5. CASE user_cb \/ user_cb_return \/ EndDispatch \/ StartSomeRun \/ FinishRun
             \/ LagAbort
  BY <1>5, <1>i, OthersTouch, UntouchedPrompt DEF PromptOK
<1>6. CASE sim_step
  <2>1. PICK e \in Ev :
          /\ ctx = "loop" /\ current' = e /\ rest' = cbs[e]
          /\ state' = [state EXCEPT ![e] = "processed"]
          /\ cbs' = [cbs EXCEPT ![e] = <<>>]
          /\ UNCHANGED <<pstate, interrupt_pending>>
    BY <1>6, StepTakes
  <2>2. \A p \in Proc : ~ResumeDue(p)
    BY <2>1, <1>d, <1>i DEF ControlOK, ResumeDue
  <2>3. \A p \in Proc : ResumeQueued(p) => ResumeQueued(p)' \/ ResumeDue(p)'
    BY <2>1, <1>t DEF ResumeQueued, ResumeDue
  <2> QED
    BY <2>1, <2>2, <2>3, <1>i DEF PromptOK, Prompt
<1>7. CASE waiter_cb
  <2>1. PICK p \in Proc :
          /\ current \in Addr /\ \A q \in Proc \ {p} : Untouched(q)
          /\ UNCHANGED <<pstate, interrupt_pending, current>>
          /\ Untouched(p) \/ (yielded[p] = current /\ schedule_resume(p, current))
    BY <1>7, WaiterTouches
  <2>2. \A q \in Proc : ~ResumeDue(q)
    BY <2>1, <1>d DEF ResumeDue
  <2>3. CASE schedule_resume(p, current)
    <3>1. ResumeQueued(p)'
      BY <2>3, <1>t, ScheduleResumeEffect DEF ResumeQueued
    <3>2. Prompt(p)'
      BY <2>1, <3>1, <1>i DEF Prompt
    <3> QED
      BY <3>2, <2>1, <2>2, <1>i, UntouchedPrompt DEF PromptOK
  <2> QED
    BY <2>1, <2>2, <2>3, <1>i, UntouchedPrompt DEF PromptOK
<1>8. CASE resume_cb_dead \/ resume_cb_start \/ resume_cb_return
  <2>1. PICK p \in Proc : /\ current = p /\ \A q \in Proc \ {p} : Untouched(q)
                          /\ p = Head(rest).user
    BY <1>8, ResumeTouches DEF Resume
  <2>2. Prompt(p)'
    BY <1>8, <2>1, <1>t, <1>i
       DEF Prompt, resume_cb_dead, resume_cb_start, resume_cb_return, Delivered,
           procVars, intVars
  <2>3. \A q \in Proc \ {p} : ~ResumeDue(q)
    BY <2>1 DEF ResumeDue
  <2> QED
    BY <2>1, <2>2, <2>3, <1>i, UntouchedPrompt DEF PromptOK
<1> QED
  BY <1>1, <1>2, <1>3, <1>4, <1>5, <1>6, <1>7, <1>8 DEF Next, Body, Library

(* An interrupt is delivered at once, if the program interrupts no process *)
(* that has not started; kernel_interrupt_new shows what happens if it     *)
(* does.                                                                   *)
THEOREM Interrupts ==
  ASSUME ~InterruptNew
  PROVE  Spec => []InterruptPrompt
<1>1. Init => Reasons /\ PromptOK
  BY AddressesDiffer
     DEF Init, Reasons, DispatchOK, ReasonOK, PromptOK, Prompt
<1>2. IInv /\ Reasons /\ [Next]_vars => Reasons'
  BY NextReasons
<1>3. IInv /\ Reasons /\ PromptOK /\ [Next]_vars => PromptOK'
  BY NextPrompt
<1>4. PromptOK => InterruptPrompt
  BY DEF PromptOK, Prompt, InterruptPrompt, Suspended
<1> QED
  BY <1>1, <1>2, <1>3, <1>4, Inductive, PTL DEF Spec

(* Every step keeps an interrupt with the process it was sent to: the      *)
(* structure of a process is wiped before it serves another.               *)
LEMMA NextAddressee ==
  ASSUME ~StaleHandles, TypeOK, InterruptReachesAddressee, [Next]_vars
  PROVE  InterruptReachesAddressee'
<1>t. /\ interrupt_pending \in [Proc -> BOOLEAN] /\ interrupt_cause \in [Proc -> Nat]
      /\ gen \in [Proc -> Nat]
  BY DEF TypeOK
<1>u. ASSUME UNCHANGED <<interrupt_pending, interrupt_cause, gen>>
      PROVE  InterruptReachesAddressee'
  BY <1>u DEF InterruptReachesAddressee
<1>1. CASE UNCHANGED vars
  BY <1>1, <1>u DEF vars, intVars, procVars
<1>2. ASSUME NEW p \in Proc, sim_process(p) PROVE InterruptReachesAddressee'
  BY <1>2, <1>t DEF InterruptReachesAddressee, sim_process, Wiped
<1>3. ASSUME NEW p \in Proc, NEW g \in 1..MaxGen, sim_process_interrupt(p, g)
      PROVE  InterruptReachesAddressee'
  BY <1>3, <1>t DEF InterruptReachesAddressee, sim_process_interrupt, Handle
<1>4. CASE resume_cb_return
  BY <1>4, <1>t
     DEF InterruptReachesAddressee, resume_cb_return, Delivered
<1>5. CASE Program
  BY <1>2, <1>3, <1>5, <1>u
     DEF Program, sim_event, sim_timeout, sim_event_succeed, sim_event_on,
         sim_process_event, sim_env_set_realtime, intVars, procVars
<1>6. CASE Body \/ StartSomeRun \/ LagAbort \/ user_cb_return
  BY <1>6, <1>u DEF Body, sim_yield, process_entry_end, StartSomeRun, StartRun,
                    LagAbort, Return, user_cb_return, intVars, procVars
<1>7. CASE Library
  BY <1>4, <1>7, <1>u
     DEF Library, sim_step, FinishRun, Return, waiter_cb, resume_cb_dead,
         resume_cb_start, user_cb, EndDispatch, intVars, procVars
<1> QED
  BY <1>1, <1>5, <1>6, <1>7 DEF Next

(* An interrupt reaches only the process it was sent to, if the program    *)
(* drops the handle of a process that finished; kernel_stale_interrupt     *)
(* shows what happens if it does not.                                      *)
THEOREM Addressees ==
  ASSUME ~StaleHandles
  PROVE  Spec => []InterruptReachesAddressee
<1>1. Init => InterruptReachesAddressee
  BY DEF Init, InterruptReachesAddressee
<1>2. TypeOK /\ InterruptReachesAddressee /\ [Next]_vars => InterruptReachesAddressee'
  BY NextAddressee
<1> QED
  BY <1>1, <1>2, Typing, PTL DEF Spec

-----------------------------------------------------------------------------
(* Done events.                                                            *)

(* An allocation takes an event that nobody watches.                       *)
LEMMA AllocatedUnwatched ==
  ASSUME IInv, PoolRecyclable, WatchesOK, NEW e \in Addr,
         NEW s \in {"pending", "triggered"}, NEW r \in BOOLEAN, Allocated(e, s, r)
  PROVE  /\ \A w \in watches : w.event # e
         /\ \A w \in watches : /\ state'[w.event] = state[w.event]
                               /\ recyclable'[w.event] = recyclable[w.event]
         /\ state'[e] = s /\ recyclable'[e] = r
<1>t. /\ state \in [Ev -> {"fresh", "pending", "triggered", "processed"}]
      /\ recyclable \in [Ev -> BOOLEAN] /\ event_pool \in Seq(Addr)
      /\ e \in Ev /\ watches \subseteq [proc : Proc, gen : Nat, event : Addr]
  BY DEF IInv, TypeOK, Ev
<1>1. state[e] = "fresh" \/ recyclable[e]
  BY AllocRecyclable DEF Allocated
<1>2. \A w \in watches : w.event # e
  BY <1>1 DEF WatchesOK
<1>3. state' = [state EXCEPT ![e] = s] /\ recyclable' = [recyclable EXCEPT ![e] = r]
  BY AllocatedEffect
<1>4. \A w \in watches : w.event \in Ev
  BY <1>t DEF Ev
<1> QED
  BY <1>2, <1>3, <1>4, <1>t

(* What a step must not change for the watches to stay right: the uses     *)
(* that have finished, and the done events.                                *)
LEMMA SameWatches ==
  ASSUME IInv, WatchesOK, DoneMeansFinished, UNCHANGED <<gen, done, watches>>,
         \A p \in Proc : /\ pstate'[p] = "dead" <=> pstate[p] = "dead"
                         /\ pstate'[p] = "unborn" => pstate[p] = "unborn",
         \A w \in watches : /\ state'[w.event] = "pending" <=> state[w.event] = "pending"
                            /\ state'[w.event] # "fresh"
                            /\ recyclable'[w.event] = recyclable[w.event]
  PROVE  WatchesOK' /\ DoneMeansFinished'
<1>1. \A w \in watches : w.proc \in Proc
  BY DEF IInv, TypeOK
<1>2. WatchesOK'
  BY DEF WatchesOK
<1> QED
  BY <1>1, <1>2 DEF DoneMeansFinished, Finished

(* The watches are about events of the program: what happens to resume     *)
(* events does not matter to them.                                         *)
LEMMA ResumesUnwatched ==
  ASSUME IInv, WatchesOK, DoneMeansFinished, UNCHANGED <<gen, done, watches, recyclable>>,
         \A p \in Proc : /\ pstate'[p] = "dead" <=> pstate[p] = "dead"
                         /\ pstate'[p] = "unborn" => pstate[p] = "unborn",
         state' = state \/ \E p \in Proc, v \in Addr \cup {NULL} : schedule_resume(p, v)
  PROVE  WatchesOK' /\ DoneMeansFinished'
<1>1. /\ watches \subseteq [proc : Proc, gen : Nat, event : Addr]
      /\ state \in [Ev -> {"fresh", "pending", "triggered", "processed"}]
      /\ Addr \subseteq Ev
  BY DEF IInv, TypeOK, Ev
<1>2. \A w \in watches : w.event \in Addr /\ w.event \notin Proc
  BY <1>1, AddressesDiffer
<1>3. \A w \in watches : state'[w.event] = state[w.event]
  <2>1. ASSUME NEW p \in Proc, NEW v, schedule_resume(p, v)
        PROVE  \A w \in watches : state'[w.event] = state[w.event]
    BY <2>1, <1>1, <1>2, ScheduleResumeEffect
  <2> QED
    BY <2>1
<1> QED
  BY <1>3, SameWatches DEF WatchesOK

(* Every step keeps the done events right.                                 *)
LEMMA NextWatches ==
  ASSUME ~StaleHandles, IInv, PoolRecyclable, WatchesOK, DoneMeansFinished, [Next]_vars
  PROVE  WatchesOK' /\ DoneMeansFinished'
<1>t. /\ state \in [Ev -> {"fresh", "pending", "triggered", "processed"}]
      /\ recyclable \in [Ev -> BOOLEAN]
      /\ pstate \in [Proc -> {"unborn", "new", "running", "dead"}]
      /\ done \in [Proc -> Addr \cup {NULL}]
      /\ gen \in [Proc -> Nat] /\ process_pool \in Seq(Proc)
      /\ watches \subseteq [proc : Proc, gen : Nat, event : Addr]
      /\ Addr \subseteq Ev /\ Proc \subseteq Ev /\ TypeOK
  BY DEF IInv, TypeOK, Ev
<1>d. \A a \in Addr : a \notin Proc /\ a # NULL
  BY AddressesDiffer
<1>w. \A w \in watches : /\ w.proc \in Proc /\ w.gen \in Nat /\ w.event \in Addr
                         /\ w.event \in Ev /\ w.event # NULL
  BY <1>t, <1>d
<1>1. CASE UNCHANGED vars
  BY <1>1, ResumesUnwatched DEF vars, evVars, procVars, ghosts
<1>2. CASE Program
  <2>1. ASSUME NEW e \in Addr,
               sim_event(e) \/ \E d \in Delays : sim_timeout(e, d)
        PROVE  WatchesOK' /\ DoneMeansFinished'
    <3>1. \E s \in {"pending", "triggered"}, r \in BOOLEAN : Allocated(e, s, r)
      BY <2>1 DEF sim_event, sim_timeout
    <3>2. UNCHANGED <<gen, done, watches, pstate>>
      BY <2>1 DEF sim_event, sim_timeout, procVars, ghosts
    <3> QED
      BY <3>1, <3>2, AllocatedUnwatched, SameWatches DEF WatchesOK
  <2>2. ASSUME NEW e \in Addr, sim_event_succeed(e)
        PROVE  WatchesOK' /\ DoneMeansFinished'
    <3>1. \A w \in watches : w.event # e
      BY <2>2 DEF sim_event_succeed
    <3>2. state' = [state EXCEPT ![e] = "triggered"]
          /\ UNCHANGED <<gen, done, watches, pstate, recyclable>>
      BY <2>2 DEF sim_event_succeed, procVars, ghosts
    <3> QED
      BY <3>1, <3>2, <1>t, <1>w, SameWatches DEF WatchesOK
  <2>3. ASSUME NEW p \in Proc, sim_process(p)
        PROVE  WatchesOK' /\ DoneMeansFinished'
    <3>1. /\ pstate' = [pstate EXCEPT ![p] = "new"]
          /\ done' = [done EXCEPT ![p] = NULL]
          /\ gen' = [gen EXCEPT ![p] = @ + 1]
          /\ schedule_resume(p, NULL) /\ UNCHANGED <<recyclable, watches>>
      BY <2>3 DEF sim_process
    <3>2. pstate[p] = "dead" \/ pstate[p] = "unborn"
      <4>1. CASE process_pool # <<>>
        <5>1. p = Head(process_pool)
          BY <2>3, <4>1 DEF sim_process
        <5>2. 1 \in DOMAIN process_pool /\ process_pool[1] = p
          BY <4>1, <5>1, <1>t
        <5> QED
          BY <5>2 DEF IInv, PooledAreDead, ToSet
      <4> QED
        BY <2>3, <4>1 DEF sim_process
    <3>3. \A w \in watches : w.proc = p => pstate[p] = "dead" /\ w.gen < gen'[p]
                                           /\ w.gen \in 1..gen'[p]
      <4> SUFFICES ASSUME NEW w \in watches, w.proc = p
                   PROVE  pstate[p] = "dead" /\ w.gen < gen'[p] /\ w.gen \in 1..gen'[p]
        OBVIOUS
      <4>1. w.gen \in 1..gen[p] /\ gen[p] \in Nat /\ gen'[p] = gen[p] + 1
        BY <3>1, <1>t DEF WatchesOK
      <4>2. gen[p] # 0
        BY <4>1
      <4>3. pstate[p] # "unborn"
        BY <4>2 DEF WatchesOK
      <4> QED
        BY <3>2, <4>1, <4>3
    <3>4. \A w \in watches : state'[w.event] = state[w.event]
      BY <3>1, <1>t, <1>d, <1>w, ScheduleResumeEffect
    <3>5. \A q \in Proc \ {p} :
            pstate'[q] = pstate[q] /\ gen'[q] = gen[q] /\ done'[q] = done[q]
      BY <3>1, <1>t
    <3>6. pstate'[p] = "new" /\ done'[p] = NULL
      BY <3>1, <1>t
    <3>7. WatchesOK'
      <4>1. \A w \in watches : /\ w.gen \in 1..gen'[w.proc]
                               /\ w.gen = gen'[w.proc] => done'[w.proc] = w.event
        <5> SUFFICES ASSUME NEW w \in watches
                     PROVE  /\ w.gen \in 1..gen'[w.proc]
                            /\ w.gen = gen'[w.proc] => done'[w.proc] = w.event
          OBVIOUS
        <5>1. CASE w.proc = p
          <6>1. gen'[p] \in Nat
            BY <3>1, <1>t
          <6> QED
            BY <3>3, <5>1, <6>1, <1>w
        <5>2. CASE w.proc # p
          BY <3>5, <5>2, <1>w DEF WatchesOK
        <5> QED
          BY <5>1, <5>2
      <4> QED
        BY <4>1, <3>1, <3>4, <3>5, <3>6 DEF WatchesOK
    <3>8. DoneMeansFinished'
      <4> SUFFICES ASSUME NEW w \in watches
                   PROVE  state'[w.event] = "pending" <=> ~Finished(w.proc, w.gen)'
        BY <3>1 DEF DoneMeansFinished
      <4>1. CASE w.proc = p
        BY <4>1, <3>3, <3>4 DEF DoneMeansFinished, Finished
      <4>2. CASE w.proc # p
        BY <4>2, <3>4, <3>5, <1>w DEF DoneMeansFinished, Finished
      <4> QED
        BY <4>1, <4>2
    <3> QED
      BY <3>7, <3>8
  <2>4. ASSUME NEW p \in Proc, NEW g \in 1..MaxGen, sim_process_interrupt(p, g)
        PROVE  WatchesOK' /\ DoneMeansFinished'
    BY <2>4, ResumesUnwatched DEF sim_process_interrupt, ghosts
  <2>5. ASSUME NEW p \in Proc, NEW g \in 1..MaxGen, sim_process_event(p, g)
        PROVE  WatchesOK' /\ DoneMeansFinished'
    <3>1. g = gen[p] /\ g \in 1..gen[p] /\ UNCHANGED <<gen, pstate>>
      BY <2>5 DEF sim_process_event, Handle
    <3>2. CASE done[p] # NULL
      <4>1. [proc |-> p, gen |-> g, event |-> done[p]] \in watches
        BY <3>1, <3>2 DEF WatchesOK
      <4>2. watches' = watches /\ UNCHANGED <<done, state, recyclable>>
        BY <2>5, <3>2, <4>1 DEF sim_process_event, evVars
      <4> QED
        BY <3>1, <4>2, ResumesUnwatched
    <3>3. CASE done[p] = NULL
      <4> DEFINE s == IF HasEnded(p) THEN "triggered" ELSE "pending"
                 w0(e) == [proc |-> p, gen |-> g, event |-> e]
      <4>1. PICK e \in Addr : /\ Allocated(e, s, FALSE)
                              /\ done' = [done EXCEPT ![p] = e]
                              /\ watches' = watches \cup {w0(e)}
        BY <2>5, <3>3 DEF sim_process_event
      <4>2. /\ \A w \in watches : w.event # e
            /\ \A w \in watches : /\ state'[w.event] = state[w.event]
                                  /\ recyclable'[w.event] = recyclable[w.event]
            /\ state'[e] = s /\ recyclable'[e] = FALSE
        BY <4>1, AllocatedUnwatched
      <4>3. s = "pending" <=> pstate[p] # "dead"
        BY DEF HasEnded
      <4>4. \A w \in watches : w.proc = p => w.gen # gen[p]
        BY <3>3, <1>w DEF WatchesOK
      <4> HIDE DEF s
      <4>5. s \in {"pending", "triggered"} /\ pstate[p] # "unborn"
        <5>1. gen[p] # 0
          BY <3>1, <1>t
        <5> QED
          BY <5>1 DEF s, WatchesOK
      <4>6. done'[p] = e /\ \A q \in Proc \ {p} : done'[q] = done[q]
        BY <4>1, <1>t
      <4>7. WatchesOK'
        <5>1. \A q \in Proc :
                /\ pstate'[q] = "unborn" => gen'[q] = 0
                /\ done'[q] # NULL => [proc |-> q, gen |-> gen'[q], event |-> done'[q]]
                                      \in watches'
          <6>1. done'[p] # NULL => [proc |-> p, gen |-> gen'[p], event |-> done'[p]]
                                   \in watches'
            BY <3>1, <4>1, <4>6
          <6>2. ASSUME NEW q \in Proc \ {p}, done'[q] # NULL
                PROVE  [proc |-> q, gen |-> gen'[q], event |-> done'[q]] \in watches'
            BY <3>1, <4>1, <4>6, <6>2 DEF WatchesOK
          <6>3. ASSUME NEW q \in Proc, pstate'[q] = "unborn" PROVE gen'[q] = 0
            BY <3>1, <6>3 DEF WatchesOK
          <6> QED
            BY <6>1, <6>2, <6>3
        <5>2. \A w \in watches' :
                /\ w.gen \in 1..gen'[w.proc]
                /\ w.gen = gen'[w.proc] => done'[w.proc] = w.event
                /\ state'[w.event] # "fresh" /\ ~recyclable'[w.event]
          <6>1. ASSUME NEW w \in watches
                PROVE  /\ w.gen \in 1..gen'[w.proc]
                       /\ w.gen = gen'[w.proc] => done'[w.proc] = w.event
                       /\ state'[w.event] # "fresh" /\ ~recyclable'[w.event]
            BY <3>1, <4>2, <4>4, <4>6, <1>w DEF WatchesOK
          <6> QED
            BY <3>1, <4>1, <4>2, <4>5, <4>6, <6>1
        <5>3. \A v, w \in watches' : v.event = w.event => v = w
          BY <4>1, <4>2 DEF WatchesOK
        <5> QED
          BY <5>1, <5>2, <5>3 DEF WatchesOK
      <4>8. DoneMeansFinished'
        <5> SUFFICES ASSUME NEW w \in watches'
                     PROVE  state'[w.event] = "pending" <=> ~Finished(w.proc, w.gen)'
          BY DEF DoneMeansFinished
        <5>1. CASE w \in watches
          BY <5>1, <3>1, <4>2 DEF DoneMeansFinished, Finished
        <5>2. CASE w = w0(e)
          BY <5>2, <3>1, <4>2, <4>3, <1>t DEF Finished
        <5> QED
          BY <4>1, <5>1, <5>2
      <4> QED
        BY <4>7, <4>8
    <3> QED
      BY <3>2, <3>3
  <2>6. ASSUME \/ \E e \in Addr : sim_event_on(e)
               \/ \E m \in RtModes : sim_env_set_realtime(m)
        PROVE  WatchesOK' /\ DoneMeansFinished'
    BY <2>6, ResumesUnwatched
       DEF sim_event_on, sim_env_set_realtime, evVars, procVars, ghosts
  <2> QED
    BY <1>2, <2>1, <2>2, <2>3, <2>4, <2>5, <2>6 DEF Program
<1>3. ASSUME NEW p \in Proc, NEW e \in Addr, sim_yield(p, e)
      PROVE  WatchesOK' /\ DoneMeansFinished'
  BY <1>3, ResumesUnwatched DEF sim_yield
<1>4. ASSUME NEW p \in Proc, process_entry_end(p)
      PROVE  WatchesOK' /\ DoneMeansFinished'
  <2>1. /\ pstate[p] = "running" /\ pstate' = [pstate EXCEPT ![p] = "dead"]
        /\ UNCHANGED <<gen, done, watches, recyclable>>
    BY <1>4 DEF process_entry_end, ghosts, IInv, RunningOK
  <2>2. \A w \in watches : Finished(w.proc, w.gen)' <=>
          Finished(w.proc, w.gen) \/ (w.proc = p /\ w.gen = gen[p])
    <3> SUFFICES ASSUME NEW w \in watches
                 PROVE  Finished(w.proc, w.gen)' <=>
                          Finished(w.proc, w.gen) \/ (w.proc = p /\ w.gen = gen[p])
      OBVIOUS
    <3>1. CASE w.proc = p
      <4>1. w.gen \in Nat /\ gen[p] \in Nat /\ w.gen <= gen[p]
        BY <3>1, <1>t, <1>w DEF WatchesOK
      <4> QED
        BY <3>1, <4>1, <2>1, <1>t DEF Finished
    <3>2. CASE w.proc # p
      BY <3>2, <2>1, <1>t, <1>w DEF Finished
    <3> QED
      BY <3>1, <3>2
  <2>3. \A w \in watches : w.proc = p /\ w.gen = gen[p] =>
                             w.event = done[p] /\ state[done[p]] = "pending"
    <3> SUFFICES ASSUME NEW w \in watches, w.proc = p, w.gen = gen[p]
                 PROVE  w.event = done[p] /\ state[done[p]] = "pending"
      OBVIOUS
    <3>1. w.event = done[p]
      BY DEF WatchesOK
    <3>2. ~Finished(w.proc, w.gen)
      BY <2>1, <1>t DEF Finished
    <3> QED
      BY <3>1, <3>2 DEF DoneMeansFinished
  <2>4. CASE done[p] # NULL /\ state[done[p]] = "pending"
    <3>1. state' = [state EXCEPT ![done[p]] = "triggered"] /\ done[p] \in Ev
      BY <1>4, <2>4, <1>t DEF process_entry_end
    <3>2. \A w \in watches : w.event = done[p] <=> w.proc = p /\ w.gen = gen[p]
      <4>1. [proc |-> p, gen |-> gen[p], event |-> done[p]] \in watches
        BY <2>4 DEF WatchesOK
      <4> QED
        BY <4>1, <2>3 DEF WatchesOK
    <3>3. \A w \in watches : state'[w.event] = "pending" <=>
                             state[w.event] = "pending" /\ w.event # done[p]
      BY <3>1, <1>t, <1>w
    <3>4. \A w \in watches : state'[w.event] # "fresh"
      BY <3>1, <1>t, <1>w DEF WatchesOK
    <3>5. DoneMeansFinished'
      BY <2>1, <2>2, <3>2, <3>3 DEF DoneMeansFinished
    <3>6. WatchesOK'
      BY <2>1, <3>4, <1>t DEF WatchesOK
    <3> QED
      BY <3>5, <3>6
  <2>5. CASE ~(done[p] # NULL /\ state[done[p]] = "pending")
    <3>1. state' = state
      BY <1>4, <2>5 DEF process_entry_end
    <3>2. \A w \in watches : ~(w.proc = p /\ w.gen = gen[p])
      BY <2>3, <2>5, <1>w
    <3>3. DoneMeansFinished'
      BY <2>1, <2>2, <3>1, <3>2 DEF DoneMeansFinished
    <3>4. WatchesOK'
      BY <2>1, <3>1, <1>t DEF WatchesOK
    <3> QED
      BY <3>3, <3>4
  <2> QED
    BY <2>4, <2>5
<1>5. CASE sim_step
  <2>1. PICK e \in Ev : /\ state[e] = "triggered"
                        /\ state' = [state EXCEPT ![e] = "processed"]
    BY <1>5, StepTakes
  <2>2. UNCHANGED <<gen, done, watches, pstate, recyclable>>
    BY <1>5 DEF sim_step, procVars
  <2>3. \A w \in watches :
          /\ state'[w.event] = "pending" <=> state[w.event] = "pending"
          /\ state'[w.event] # "fresh"
    BY <2>1, <1>t, <1>w DEF WatchesOK
  <2> QED
    BY <2>2, <2>3, SameWatches
<1>6. CASE waiter_cb
  <2>1. \/ state' = state
        \/ \E p \in Proc, v \in Addr \cup {NULL} : schedule_resume(p, v)
    <3>1. PICK p \in Proc : p = Head(rest).user /\ current \in Addr
      BY <1>6, <1>t, NextCallbackType, WaiterTouches DEF waiter_cb
    <3> QED
      BY <1>6, <3>1 DEF waiter_cb
  <2> QED
    BY <1>6, <2>1, ResumesUnwatched DEF waiter_cb, ghosts
<1>7. CASE resume_cb_dead \/ resume_cb_start \/ resume_cb_return
  <2>1. Head(rest).user \in Proc
    BY <1>7, <1>t, NextCallbackType DEF resume_cb_dead, resume_cb_start, resume_cb_return
  <2>2. \A p \in Proc : /\ pstate'[p] = "dead" <=> pstate[p] = "dead"
                        /\ pstate'[p] = "unborn" => pstate[p] = "unborn"
    BY <1>7, <2>1, <1>t DEF resume_cb_dead, resume_cb_start, resume_cb_return, procVars
  <2>3. UNCHANGED <<gen, done, watches, recyclable, state>>
    BY <1>7 DEF resume_cb_dead, resume_cb_start, resume_cb_return, procVars, evVars,
                ghosts
  <2> QED
    BY <2>2, <2>3, ResumesUnwatched
<1>8. CASE user_cb \/ user_cb_return \/ EndDispatch \/ StartSomeRun \/ FinishRun
             \/ LagAbort
  BY <1>8, ResumesUnwatched
     DEF user_cb, user_cb_return, EndDispatch, StartSomeRun, StartRun, FinishRun,
         LagAbort, Return, evVars, procVars, ghosts
<1> QED
  BY <1>1, <1>2, <1>3, <1>4, <1>5, <1>6, <1>7, <1>8 DEF Next, Body, Library

(* The done event of a process is triggered exactly when it has finished,  *)
(* whenever it was asked for, if the program drops the handle of a process *)
(* that finished.                                                          *)
THEOREM DoneEvents ==
  ASSUME ~StaleHandles
  PROVE  Spec => []DoneMeansFinished
<1>1. Init => WatchesOK /\ DoneMeansFinished
  BY DEF Init, WatchesOK, DoneMeansFinished
<1>2. IInv /\ PoolRecyclable /\ WatchesOK /\ DoneMeansFinished /\ [Next]_vars
        => WatchesOK' /\ DoneMeansFinished'
  BY NextWatches
<1>3. PoolIsFree => PoolRecyclable
  BY DEF PoolIsFree
<1> QED
  BY <1>1, <1>2, <1>3, Inductive, Recycling, PTL DEF Spec
=============================================================================
