---------------------------- MODULE KernelProofs ----------------------------
(***************************************************************************)
(* The safety theorems of Kernel.  IInv is inductive: each of its parts is *)
(* preserved by every step from a state where all of them hold, and it     *)
(* contains the invariants that the runs check on small instances.         *)
(***************************************************************************)
EXTENDS Kernel, SequenceLemmas

-----------------------------------------------------------------------------
(* Types, for any sets of events and processes and any bounds: TypeOK      *)
(* needs to know besides only that callbacks are run while an event is     *)
(* current (ControlOK).                                                    *)

(* Subscribing to an event, and clearing its subscriptions, keeps the      *)
(* callback lists well-typed.                                              *)
LEMMA AppendCallback ==
  ASSUME NEW f \in [Ev -> Seq(Callback)], NEW e, NEW c \in Callback
  PROVE  [f EXCEPT ![e] = Append(@, c)] \in [Ev -> Seq(Callback)]
<1>1. \A x \in Ev : Append(f[x], c) \in Seq(Callback)
  BY AppendProperties
<1> QED
  BY <1>1

(* _sim_event_run_callbacks and _sim_event_alloc leave an event with no    *)
(* callbacks, and the lists of the other events as they were.              *)
LEMMA ClearCallbacks ==
  ASSUME NEW f \in [Ev -> Seq(Callback)], NEW e
  PROVE  [f EXCEPT ![e] = <<>>] \in [Ev -> Seq(Callback)]
<1>1. <<>> \in Seq(Callback)
  BY EmptySeq
<1> QED
  BY <1>1

(* A schedule keeps the queue well-typed (_sim_event_schedule).            *)
LEMMA ScheduleType ==
  ASSUME TypeOK, NEW e \in Ev, NEW d \in Nat, _sim_event_schedule(e, d)
  PROVE  heap' \in Seq(Entry(Ev))
<1>1. heap \in Seq(Entry(Ev)) /\ now + d \in Nat
  BY DEF TypeOK
<1> QED
  BY <1>1, InsertProperties DEF _sim_event_schedule

(* schedule_resume keeps the queue, the states, the callback lists and the *)
(* value to be resumed with well-typed, pending or not.                    *)
LEMMA ScheduleResumeType ==
  ASSUME TypeOK, NEW p \in Proc, NEW v \in Addr \cup {NULL}, schedule_resume(p, v)
  PROVE  /\ resume_value' \in [Proc -> Addr \cup {NULL}]
         /\ state' \in [Ev -> {"fresh", "pending", "triggered", "processed"}]
         /\ cbs' \in [Ev -> Seq(Callback)]
         /\ heap' \in Seq(Entry(Ev))
<1>1. resume_value' \in [Proc -> Addr \cup {NULL}]
  BY DEF TypeOK, schedule_resume, ResumePending
<1>2. CASE state[p] = "triggered"
  BY <1>1, <1>2 DEF TypeOK, schedule_resume, ResumePending
<1>3. CASE state[p] # "triggered"
  <2>1. p \in Ev /\ Resume(p) \in Callback
    BY DEF Ev, Callback
  <2>2. heap' \in Seq(Entry(Ev))
    BY <1>3, <2>1, ScheduleType DEF schedule_resume, ResumePending
  <2>3. state' \in [Ev -> {"fresh", "pending", "triggered", "processed"}]
    BY <1>3, <2>1 DEF TypeOK, schedule_resume, ResumePending
  <2>4. cbs' \in [Ev -> Seq(Callback)]
    <3>1. cbs \in [Ev -> Seq(Callback)]
      BY DEF TypeOK
    <3>2. cbs' = [cbs EXCEPT ![p] = Append(@, Resume(p))]
      BY <1>3 DEF schedule_resume, ResumePending
    <3> QED
      BY <2>1, <3>1, <3>2, AppendCallback
  <2> QED
    BY <1>1, <2>2, <2>3, <2>4
<1> QED
  BY <1>2, <1>3

(* An allocation, from the pool or of new memory, returns the address of   *)
(* an event and keeps the fields of the events well-typed.                 *)
LEMMA AllocatedType ==
  ASSUME TypeOK, NEW e \in Addr, NEW s \in {"pending", "triggered"},
         NEW r \in BOOLEAN, Allocated(e, s, r)
  PROVE  /\ event_pool' \in Seq(Addr)
         /\ state' \in [Ev -> {"fresh", "pending", "triggered", "processed"}]
         /\ cbs' \in [Ev -> Seq(Callback)]
         /\ recyclable' \in [Ev -> BOOLEAN]
<1>1. event_pool' \in Seq(Addr)
  <2>1. event_pool \in Seq(Addr)
    BY DEF TypeOK
  <2> QED
    BY <2>1, HeadTailProperties DEF Allocated, _sim_event_alloc
<1>2. state' \in [Ev -> {"fresh", "pending", "triggered", "processed"}]
  BY DEF TypeOK, Allocated
<1>3. cbs' \in [Ev -> Seq(Callback)]
  BY ClearCallbacks DEF TypeOK, Allocated
<1>4. recyclable' \in [Ev -> BOOLEAN]
  BY DEF TypeOK, Allocated
<1> QED
  BY <1>1, <1>2, <1>3, <1>4

(* The next callback: who it is for depends on its function.               *)
LEMMA NextCallbackType ==
  ASSUME TypeOK, NEW fn, NextCallback(fn)
  PROVE  /\ rest # <<>> /\ rest' = Tail(rest) /\ rest' \in Seq(Callback)
         /\ Head(rest) \in Callback /\ Head(rest).fn = fn
         /\ fn = "resume" => /\ Head(rest).user \in Proc
                              /\ Head(rest) = Resume(Head(rest).user)
         /\ fn = "waiter" => /\ Head(rest).user \in Proc
                              /\ Head(rest) = Waiter(Head(rest).user)
         /\ fn = "cond" => /\ Head(rest).user \in Addr
                            /\ Head(rest) = Cond(Head(rest).user)
<1>1. rest \in Seq(Callback) /\ rest # <<>> /\ rest' = Tail(rest) /\ Head(rest).fn = fn
  BY DEF TypeOK, NextCallback
<1>2. Head(rest) \in Callback /\ rest' \in Seq(Callback)
  BY <1>1, HeadTailProperties
<1>3. ASSUME NEW c \in Callback
      PROVE  /\ c.fn = "resume" => c.user \in Proc /\ c = Resume(c.user)
             /\ c.fn = "waiter" => c.user \in Proc /\ c = Waiter(c.user)
             /\ c.fn = "cond" => c.user \in Addr /\ c = Cond(c.user)
  BY DEF Callback, Resume, Waiter, User, Cond
<1> QED
  BY <1>1, <1>2, <1>3

(* A new environment is well-typed, with the host in control.              *)
LEMMA InitTyping == Init => TypeOK /\ ControlOK
<1> SUFFICES ASSUME Init PROVE TypeOK /\ ControlOK
  OBVIOUS
<1>1. TypeOK
  <2>1. <<>> \in Seq(Entry(Ev)) /\ <<>> \in Seq(Addr) /\ <<>> \in Seq(Proc)
        /\ <<>> \in Seq(Callback)
    BY EmptySeq
  <2> QED
    BY <2>1 DEF Init, TypeOK
<1>2. ControlOK
  BY AddressesDiffer DEF Init, ControlOK, Ev
<1> QED
  BY <1>1, <1>2

(* Every operation and every step of the loop keeps the types, and runs    *)
(* callbacks only while an event is current.                               *)
LEMMA NextTyping == TypeOK /\ ControlOK /\ [Next]_vars => TypeOK' /\ ControlOK'
<1> SUFFICES ASSUME TypeOK, ControlOK, [Next]_vars
             PROVE  TypeOK' /\ ControlOK'
  OBVIOUS
<1> USE AddressesDiffer
<1>1. CASE UNCHANGED vars
  BY <1>1 DEF TypeOK, ControlOK, vars, envVars, evVars, intVars, procVars,
              ctlVars, ghosts
<1>2. ASSUME NEW e \in Addr, sim_event(e) PROVE TypeOK' /\ ControlOK'
  <2>1. /\ event_pool' \in Seq(Addr)
        /\ state' \in [Ev -> {"fresh", "pending", "triggered", "processed"}]
        /\ cbs' \in [Ev -> Seq(Callback)]
        /\ recyclable' \in [Ev -> BOOLEAN]
    BY <1>2, AllocatedType DEF sim_event
  <2>2. TypeOK'
    BY <1>2, <2>1 DEF TypeOK, sim_event, envVars, evVars, intVars, procVars,
              ctlVars, ghosts
  <2>3. ControlOK'
    BY <1>2 DEF ControlOK, TypeOK, Ev, sim_event, Allocated, envVars, evVars, intVars, procVars,
              ctlVars, ghosts
  <2> QED
    BY <2>2, <2>3
<1>3. ASSUME NEW e \in Addr, NEW d \in Delays, sim_timeout(e, d) PROVE TypeOK' /\ ControlOK'
  <2>1. /\ event_pool' \in Seq(Addr)
        /\ state' \in [Ev -> {"fresh", "pending", "triggered", "processed"}]
        /\ cbs' \in [Ev -> Seq(Callback)]
        /\ recyclable' \in [Ev -> BOOLEAN]
    BY <1>3, AllocatedType DEF sim_timeout
  <2>2. heap' \in Seq(Entry(Ev))
    BY <1>3, ScheduleType, BoundsAreNaturals DEF sim_timeout, Ev
  <2>3. TypeOK'
    BY <1>3, <2>1, <2>2 DEF TypeOK, sim_timeout, envVars, evVars, intVars, procVars,
              ctlVars, ghosts
  <2>4. ControlOK'
    BY <1>3 DEF ControlOK, TypeOK, Ev, sim_timeout, Allocated, envVars, evVars, intVars, procVars,
              ctlVars, ghosts
  <2> QED
    BY <2>3, <2>4
<1>4. ASSUME NEW e \in Addr, sim_event_succeed(e) PROVE TypeOK' /\ ControlOK'
  <2>1. heap' \in Seq(Entry(Ev))
    BY <1>4, ScheduleType DEF sim_event_succeed, Ev
  <2>2. TypeOK'
    BY <1>4, <2>1 DEF TypeOK, sim_event_succeed, envVars, evVars, intVars, procVars,
              ctlVars, ghosts
  <2>3. ControlOK'
    BY <1>4 DEF ControlOK, sim_event_succeed, envVars, evVars, intVars, procVars,
              ctlVars, ghosts
  <2> QED
    BY <2>2, <2>3
<1>5. ASSUME NEW e \in Addr, sim_event_on(e) PROVE TypeOK' /\ ControlOK'
  <2>1. cbs' \in [Ev -> Seq(Callback)]
    <3>1. User \in Callback
      BY DEF Callback
    <3> QED
      BY <1>5, <3>1, AppendCallback DEF TypeOK, sim_event_on
  <2>2. TypeOK'
    BY <1>5, <2>1 DEF TypeOK, sim_event_on, envVars, evVars, intVars, procVars,
              ctlVars, ghosts
  <2>3. ControlOK'
    BY <1>5 DEF ControlOK, sim_event_on, envVars, evVars, intVars, procVars,
              ctlVars, ghosts
  <2> QED
    BY <2>2, <2>3
<1>6. ASSUME NEW p \in Proc, sim_process(p) PROVE TypeOK' /\ ControlOK'
  <2>1. /\ resume_value' \in [Proc -> Addr \cup {NULL}]
        /\ state' \in [Ev -> {"fresh", "pending", "triggered", "processed"}]
        /\ cbs' \in [Ev -> Seq(Callback)]
        /\ heap' \in Seq(Entry(Ev))
    BY <1>6, ScheduleResumeType DEF sim_process, Unlinked, Wiped
  <2>2. process_pool' \in Seq(Proc)
    <3>1. process_pool \in Seq(Proc)
      BY DEF TypeOK
    <3>2. \/ process_pool' = process_pool
          \/ process_pool # <<>> /\ process_pool' = Tail(process_pool)
      BY <1>6 DEF sim_process, Unlinked, Wiped
    <3> QED
      BY <3>1, <3>2, HeadTailProperties
  <2>3. /\ pstate' \in [Proc -> {"unborn", "new", "running", "dead"}]
        /\ yielded' \in [Proc -> Addr \cup {NULL}]
        /\ done' \in [Proc -> Addr \cup {NULL}]
        /\ waitOn' \in [Proc -> Addr \cup {NULL}]
        /\ interrupt_pending' \in [Proc -> BOOLEAN]
        /\ interrupt_cause' \in [Proc -> Nat]
        /\ was_interrupted' \in [Proc -> BOOLEAN]
        /\ gen' \in [Proc -> Nat]
    BY <1>6 DEF TypeOK, sim_process, Unlinked, Wiped
  <2>4. TypeOK'
    BY <1>6, <2>1, <2>2, <2>3 DEF TypeOK, sim_process, Unlinked, Wiped, envVars, ctlVars
  <2>5. ControlOK'
    BY <1>6 DEF ControlOK, sim_process, Unlinked, Wiped, ctlVars
  <2> QED
    BY <2>4, <2>5
<1>7. ASSUME NEW p \in Proc, NEW g \in 1..MaxGen, sim_process_interrupt(p, g) PROVE TypeOK' /\ ControlOK'
  <2>1. /\ resume_value' \in [Proc -> Addr \cup {NULL}]
        /\ state' \in [Ev -> {"fresh", "pending", "triggered", "processed"}]
        /\ cbs' \in [Ev -> Seq(Callback)]
        /\ heap' \in Seq(Entry(Ev))
    BY <1>7, ScheduleResumeType DEF sim_process_interrupt
  <2>2. TypeOK'
    <3>1. g \in Nat
      BY BoundsAreNaturals
    <3> QED
      BY <1>7, <2>1, <3>1
         DEF TypeOK, sim_process_interrupt, envVars, ctlVars, ghosts
  <2>3. ControlOK'
    BY <1>7 DEF ControlOK, sim_process_interrupt, ctlVars
  <2> QED
    BY <2>2, <2>3
<1>8. ASSUME NEW p \in Proc, NEW g \in 1..MaxGen, sim_process_event(p, g) PROVE TypeOK' /\ ControlOK'
  <2>1. CASE done[p] # NULL
    <3>1. watches' \subseteq [proc : Proc, gen : Nat, event : Addr]
      BY <1>8, <2>1 DEF TypeOK, sim_process_event, HasEnded
    <3>2. TypeOK'
      BY <1>8, <2>1, <3>1 DEF TypeOK, sim_process_event, HasEnded, evVars, envVars, intVars,
                              ctlVars
    <3>3. ControlOK'
      BY <1>8, <2>1 DEF ControlOK, sim_process_event, HasEnded, evVars, ctlVars
    <3> QED
      BY <3>2, <3>3
  <2>2. CASE done[p] = NULL
    <3>1. PICK e \in Addr :
            /\ Allocated(e, IF pstate[p] = "dead" THEN "triggered" ELSE "pending",
                         FALSE)
            /\ IF pstate[p] = "dead" THEN _sim_event_schedule(e, 0)
                                     ELSE UNCHANGED heap
            /\ done' = [done EXCEPT ![p] = e]
            /\ watches' = watches \cup {[proc |-> p, gen |-> g, event |-> e]}
      BY <1>8, <2>2 DEF sim_process_event, HasEnded
    <3>2. /\ event_pool' \in Seq(Addr)
          /\ state' \in [Ev -> {"fresh", "pending", "triggered", "processed"}]
          /\ cbs' \in [Ev -> Seq(Callback)]
          /\ recyclable' \in [Ev -> BOOLEAN]
      BY <3>1, AllocatedType
    <3>3. heap' \in Seq(Entry(Ev))
      BY <3>1, ScheduleType DEF Ev, TypeOK
    <3>4. watches' \subseteq [proc : Proc, gen : Nat, event : Addr]
      BY <3>1 DEF TypeOK
    <3>5. TypeOK'
      BY <1>8, <3>1, <3>2, <3>3, <3>4
         DEF TypeOK, sim_process_event, HasEnded, envVars, intVars, ctlVars
    <3>6. ControlOK'
      BY <1>8, <3>1 DEF ControlOK, TypeOK, Ev, sim_process_event, HasEnded, Allocated, ctlVars
    <3> QED
      BY <3>5, <3>6
  <2> QED
    BY <2>1, <2>2
<1>9. ASSUME NEW m \in RtModes, sim_env_set_realtime(m) PROVE TypeOK' /\ ControlOK'
  BY <1>9 DEF TypeOK, ControlOK, sim_env_set_realtime, evVars, intVars, procVars,
              ctlVars, ghosts
<1>10. ASSUME NEW p \in Proc, NEW e \in Addr, sim_yield(p, e) PROVE TypeOK' /\ ControlOK'
  <2>1. /\ resume_value' \in [Proc -> Addr \cup {NULL}]
        /\ state' \in [Ev -> {"fresh", "pending", "triggered", "processed"}]
        /\ cbs' \in [Ev -> Seq(Callback)]
        /\ heap' \in Seq(Entry(Ev))
    <3>1. CASE state[e] = "processed"
      BY <1>10, <3>1, ScheduleResumeType DEF sim_yield
    <3>2. CASE state[e] # "processed"
      <4>1. Waiter(p) \in Callback
        BY DEF Callback
      <4> QED
        <5>1. cbs \in [Ev -> Seq(Callback)]
          BY DEF TypeOK
        <5>2. cbs' = [cbs EXCEPT ![e] = Append(@, Waiter(p))]
          BY <1>10, <3>2 DEF sim_yield
        <5>3. cbs' \in [Ev -> Seq(Callback)]
          BY <4>1, <5>1, <5>2, AppendCallback
        <5> QED
          BY <1>10, <3>2, <5>3 DEF TypeOK, sim_yield
    <3> QED
      BY <3>1, <3>2
  <2>2. TypeOK'
    BY <1>10, <2>1 DEF TypeOK, sim_yield, envVars, intVars
  <2>3. ControlOK'
    BY <1>10 DEF ControlOK, sim_yield, Ev
  <2> QED
    BY <2>2, <2>3
<1>11. ASSUME NEW p \in Proc, process_entry_end(p) PROVE TypeOK' /\ ControlOK'
  <2>1. heap' \in Seq(Entry(Ev))
    BY <1>11, ScheduleType DEF process_entry_end, TypeOK, Ev
  <2>2. state' \in [Ev -> {"fresh", "pending", "triggered", "processed"}]
    <3>1. state \in [Ev -> {"fresh", "pending", "triggered", "processed"}]
      BY DEF TypeOK
    <3>2. state' = state \/ state' = [state EXCEPT ![done[p]] = "triggered"]
      BY <1>11 DEF process_entry_end
    <3> QED
      BY <3>1, <3>2
  <2>3. process_pool' \in Seq(Proc)
    BY <1>11 DEF process_entry_end, TypeOK
  <2>4. TypeOK'
    BY <1>11, <2>1, <2>2, <2>3 DEF TypeOK, process_entry_end, envVars, intVars, ghosts
  <2>5. ControlOK'
    BY <1>11 DEF ControlOK, process_entry_end, Ev
  <2> QED
    BY <2>4, <2>5
<1>12. ASSUME NEW m \in RunModes, NEW u \in Untils(m), StartRun(m, u) PROVE TypeOK' /\ ControlOK'
  <2>1. u \in Nat
    BY BoundsAreNaturals DEF Untils
  <2> QED
    BY <1>12, <2>1 DEF TypeOK, ControlOK, StartRun, envVars, evVars, intVars,
                      procVars, ghosts
<1>13. ASSUME sim_step PROVE TypeOK' /\ ControlOK'
  <2>1. /\ Head(heap).time \in Nat /\ Head(heap).ev \in Ev
        /\ heap' \in Seq(Entry(Ev))
    BY <1>13, TailQueued DEF TypeOK, sim_step, MayStep, Entry
  <2>2. cbs[Head(heap).ev] \in Seq(Callback)
    BY <2>1 DEF TypeOK
  <2>3. waitOn' \in [Proc -> Addr \cup {NULL}]
    BY <1>13 DEF TypeOK, sim_step
  <2>4. TypeOK'
    BY <1>13, <2>1, <2>2, <2>3 DEF TypeOK, sim_step, envVars, intVars, procVars
  <2>5. ControlOK'
    BY <1>13, <2>1 DEF ControlOK, sim_step, procVars
  <2> QED
    BY <2>4, <2>5
<1>14. ASSUME Return, ctx = "loop",
              \/ UNCHANGED envVars
              \/ rt_lagged' = TRUE /\ rt_past' \in Nat /\ UNCHANGED rt_mode
       PROVE  TypeOK' /\ ControlOK'
  BY <1>14 DEF TypeOK, ControlOK, Return, IsLate, envVars, evVars, intVars, procVars, ghosts
<1>15. ASSUME waiter_cb PROVE TypeOK' /\ ControlOK'
  <2> DEFINE p == Head(rest).user
  <2>1. rest' \in Seq(Callback) /\ p \in Proc
    BY <1>15, NextCallbackType DEF waiter_cb, IsStale
  <2>2. /\ resume_value' \in [Proc -> Addr \cup {NULL}]
        /\ state' \in [Ev -> {"fresh", "pending", "triggered", "processed"}]
        /\ cbs' \in [Ev -> Seq(Callback)]
        /\ heap' \in Seq(Entry(Ev))
    <3>1. CASE pstate[p] = "dead" \/ yielded[p] # current
      BY <1>15, <3>1 DEF waiter_cb, IsStale, TypeOK
    <3>2. CASE ~(pstate[p] = "dead" \/ yielded[p] # current)
      <4>1. current \in Addr \cup {NULL}
        BY <3>2, <2>1 DEF TypeOK
      <4> QED
        BY <1>15, <3>2, <4>1, <2>1, ScheduleResumeType DEF waiter_cb, IsStale
    <3> QED
      BY <3>1, <3>2
  <2>3. TypeOK'
    BY <1>15, <2>1, <2>2 DEF TypeOK, waiter_cb, IsStale, envVars, intVars, ghosts
  <2>4. ControlOK'
    BY <1>15 DEF ControlOK, waiter_cb, IsStale, NextCallback
  <2> QED
    BY <2>3, <2>4
<1>16. ASSUME resume_cb_dead PROVE TypeOK' /\ ControlOK'
  <2>1. rest' \in Seq(Callback)
    BY <1>16, NextCallbackType DEF resume_cb_dead
  <2>2. TypeOK'
    BY <1>16, <2>1 DEF TypeOK, resume_cb_dead, envVars, evVars, intVars, procVars, ghosts
  <2>3. ControlOK'
    BY <1>16 DEF ControlOK, resume_cb_dead, NextCallback, evVars, procVars
  <2> QED
    BY <2>2, <2>3
<1>17. ASSUME resume_cb_start PROVE TypeOK' /\ ControlOK'
  <2> DEFINE p == Head(rest).user
  <2>2. rest' \in Seq(Callback) /\ p \in Proc
    BY <1>17, NextCallbackType DEF resume_cb_start
  <2>3. TypeOK'
    BY <1>17, <2>2 DEF TypeOK, resume_cb_start, envVars, evVars, intVars, ghosts
  <2>4. ControlOK'
    BY <1>17, <2>2 DEF ControlOK, resume_cb_start, NextCallback, evVars
  <2> QED
    BY <2>3, <2>4
<1>18. ASSUME resume_cb_return PROVE TypeOK' /\ ControlOK'
  <2> DEFINE p == Head(rest).user
  <2>2. rest' \in Seq(Callback) /\ p \in Proc
    BY <1>18, NextCallbackType DEF resume_cb_return, Delivered
  <2>3. TypeOK'
    BY <1>18, <2>2 DEF TypeOK, resume_cb_return, Delivered, envVars, evVars
  <2>4. ControlOK'
    BY <1>18, <2>2 DEF ControlOK, resume_cb_return, Delivered, NextCallback, evVars
  <2> QED
    BY <2>3, <2>4
<1>19. ASSUME user_cb PROVE TypeOK' /\ ControlOK'
  <2>1. rest' \in Seq(Callback)
    BY <1>19, NextCallbackType DEF user_cb
  <2>2. TypeOK'
    BY <1>19, <2>1 DEF TypeOK, user_cb, envVars, evVars, intVars, procVars, ghosts
  <2>3. ControlOK'
    BY <1>19 DEF ControlOK, user_cb, NextCallback, evVars
  <2> QED
    BY <2>2, <2>3
<1>20. ASSUME user_cb_return PROVE TypeOK' /\ ControlOK'
  BY <1>20 DEF TypeOK, ControlOK, user_cb_return, envVars, evVars, intVars,
              procVars, ghosts
<1>21. ASSUME EndDispatch PROVE TypeOK' /\ ControlOK'
  <2>1. event_pool' \in Seq(Addr)
    <3>1. event_pool \in Seq(Addr) /\ current \in Ev
      BY <1>21 DEF TypeOK, ControlOK, EndDispatch, MayRecycle
    <3>2. CASE recyclable[current]
      <4>1. current \in Addr
        BY <3>1, <3>2 DEF ControlOK, Ev
      <4>2. event_pool' = <<current>> \o event_pool
        BY <1>21, <3>2 DEF EndDispatch, MayRecycle
      <4> QED
        BY <3>1, <4>1, <4>2
    <3>3. CASE ~recyclable[current]
      BY <1>21, <3>1, <3>3 DEF EndDispatch, MayRecycle
    <3> QED
      BY <3>2, <3>3
  <2>2. TypeOK'
    BY <1>21, <2>1 DEF TypeOK, EndDispatch, MayRecycle, envVars, intVars, procVars, ghosts
  <2>3. ControlOK'
    BY <1>21 DEF ControlOK, EndDispatch, MayRecycle
  <2> QED
    BY <2>2, <2>3
<1>22. CASE Next
  <2>1. CASE Program
    BY <2>1, <1>2, <1>3, <1>4, <1>5, <1>6, <1>7, <1>8, <1>9 DEF Program
  <2>2. CASE Body
    BY <2>2, <1>10, <1>11 DEF Body
  <2>3. CASE StartSomeRun
    BY <2>3, <1>12 DEF StartSomeRun
  <2>4. CASE Library
    BY <2>4, <1>13, <1>14, <1>15, <1>16, <1>17, <1>18, <1>19, <1>21
       DEF Library, FinishRun
  <2>5. CASE LagAbort
    <3>1. Head(heap).time \in Nat
      BY <2>5, TailQueued DEF TypeOK, LagAbort, MayStep, Entry
    <3>2. rt_past' \in Nat
      BY <2>5, <3>1 DEF TypeOK, LagAbort
    <3> QED
      BY <2>5, <3>2, <1>14 DEF LagAbort
  <2> QED
    BY <1>22, <1>20, <2>1, <2>2, <2>3, <2>4, <2>5 DEF Next
<1> QED
  BY <1>1, <1>22

(* Every reachable state is well-typed.                                    *)
THEOREM Typing == Spec => []TypeOK
<1> DEFINE I == TypeOK /\ ControlOK
<1>1. Init => I
  BY InitTyping
<1>2. I /\ [Next]_vars => I'
  BY NextTyping
<1>3. I => TypeOK
  OBVIOUS
<1> QED
  BY <1>1, <1>2, <1>3, PTL DEF Spec

-----------------------------------------------------------------------------
(* What the helpers do, in a state where the invariant holds.              *)

(* The address an allocation returns is used by nobody (_sim_event_alloc). *)
LEMMA AllocEffect ==
  ASSUME IInv, NEW e \in Addr, _sim_event_alloc(e)
  PROVE  /\ state[e] \in {"fresh", "processed"}
         /\ cbs[e] = <<>> /\ e # current
         /\ \A p \in Proc : waitOn[p] # e /\ done[p] # e
         /\ event_pool' \in Seq(Addr)
         /\ \A i, j \in DOMAIN event_pool' : event_pool'[i] = event_pool'[j] => i = j
         /\ \A i \in DOMAIN event_pool' :
              /\ event_pool'[i] # e
              /\ \E j \in DOMAIN event_pool : event_pool'[i] = event_pool[j]
<1>1. event_pool \in Seq(Addr) /\ e \in Ev
  BY DEF IInv, TypeOK, Ev
<1>2. CASE event_pool # <<>>
  <2>1. e = event_pool[1] /\ 1 \in DOMAIN event_pool
    BY <1>1, <1>2 DEF _sim_event_alloc
  <2>2. /\ event_pool' = Tail(event_pool)
        /\ event_pool' \in Seq(Addr)
        /\ \A i \in DOMAIN event_pool' :
             i + 1 \in DOMAIN event_pool /\ event_pool'[i] = event_pool[i + 1]
    BY <1>1, <1>2 DEF _sim_event_alloc
  <2>3. state[e] = "processed" /\ e # current
        /\ \A p \in Proc : waitOn[p] # e /\ done[p] # e
    BY <2>1 DEF IInv, PoolUnused
  <2>4. \A i \in DOMAIN event_pool' : i \in Nat \ {0}
    BY <1>1, <1>2, <2>2
  <2>5. \A i \in DOMAIN event_pool' :
          /\ event_pool'[i] # e
          /\ \E j \in DOMAIN event_pool : event_pool'[i] = event_pool[j]
    BY <2>1, <2>2, <2>4 DEF IInv, PoolUnused
  <2>6. \A i, j \in DOMAIN event_pool' : event_pool'[i] = event_pool'[j] => i = j
    BY <2>2, <2>4 DEF IInv, PoolUnused
  <2>7. cbs[e] = <<>>
    BY <2>3 DEF IInv, CallbacksOK
  <2> QED
    BY <2>2, <2>3, <2>5, <2>6, <2>7
<1>3. CASE event_pool = <<>>
  <2>1. state[e] = "fresh" /\ event_pool' = <<>>
    BY <1>3 DEF _sim_event_alloc
  <2>2. e # current
    BY <2>1 DEF IInv, CallbacksOK
  <2>3. \A p \in Proc : waitOn[p] # e /\ done[p] # e
    BY <2>1, AddressesDiffer DEF IInv, AwaitedOK
  <2>4. cbs[e] = <<>>
    BY <2>1 DEF IInv, CallbacksOK
  <2> QED
    BY <2>1, <2>2, <2>3, <2>4
<1> QED
  BY <1>2, <1>3

(* Clearing its callbacks (the memset) changes nothing.                    *)
LEMMA AllocatedEffect ==
  ASSUME IInv, NEW e \in Addr, NEW s \in {"pending", "triggered"},
         NEW r \in BOOLEAN, Allocated(e, s, r)
  PROVE  /\ state[e] \in {"fresh", "processed"} /\ e # current
         /\ \A p \in Proc : waitOn[p] # e /\ done[p] # e
         /\ state' = [state EXCEPT ![e] = s]
         /\ cbs' = cbs
         /\ recyclable' = [recyclable EXCEPT ![e] = r]
         /\ \A i, j \in DOMAIN event_pool' : event_pool'[i] = event_pool'[j] => i = j
         /\ \A i \in DOMAIN event_pool' :
              /\ event_pool'[i] # e
              /\ \E j \in DOMAIN event_pool : event_pool'[i] = event_pool[j]
<1>1. _sim_event_alloc(e) /\ e \in Ev
  BY DEF Allocated, Ev
<1>2. cbs[e] = <<>>
  BY <1>1, AllocEffect
<1>3. cbs' = cbs
  BY <1>1, <1>2 DEF Allocated, IInv, TypeOK
<1> QED
  BY <1>1, <1>3, AllocEffect DEF Allocated

(* A schedule of an event not triggered before queues it once.             *)
LEMMA ScheduleEffect ==
  ASSUME IInv, NEW e \in Ev, NEW d \in Nat, state[e] # "triggered",
         _sim_event_schedule(e, d), state' = [state EXCEPT ![e] = "triggered"]
  PROVE  QueuedOnce'
<1>1. heap \in Seq(Entry(Ev)) /\ now + d \in Nat
  BY DEF IInv, TypeOK
<1>2. e \notin Queued(heap) /\ Distinct(heap)
  BY DEF IInv, QueuedOnce
<1>3. Queued(heap') = Queued(heap) \cup {e}
  BY <1>1, InsertQueued DEF _sim_event_schedule
<1>4. Distinct(heap')
  BY <1>1, <1>2, InsertDistinct DEF _sim_event_schedule
<1>5. \A x \in Ev : state'[x] = "triggered" <=> (x = e \/ state[x] = "triggered")
  BY DEF IInv, TypeOK
<1> QED
  BY <1>3, <1>4, <1>5 DEF IInv, QueuedOnce

(* However the resume event stood, it is queued afterwards, with the one   *)
(* callback that switches to its process.                                  *)
LEMMA ScheduleResumeEffect ==
  ASSUME IInv, NEW p \in Proc, NEW v, schedule_resume(p, v)
  PROVE  /\ state' = [state EXCEPT ![p] = "triggered"]
         /\ cbs' = [cbs EXCEPT ![p] = <<Resume(p)>>]
         /\ QueuedOnce'
<1>0. /\ p \in Ev /\ state \in [Ev -> {"fresh", "pending", "triggered", "processed"}]
      /\ cbs \in [Ev -> Seq(Callback)]
  BY DEF IInv, TypeOK, Ev
<1>1. cbs[p] = IF state[p] = "triggered" THEN <<Resume(p)>> ELSE <<>>
  BY DEF IInv, CallbacksOK
<1>2. CASE state[p] = "triggered"
  <2>1. UNCHANGED <<state, cbs, heap>>
    BY <1>2 DEF schedule_resume, ResumePending
  <2>2. QueuedOnce'
    BY <2>1 DEF IInv, QueuedOnce
  <2> QED
    BY <1>0, <1>1, <1>2, <2>1, <2>2
<1>3. CASE state[p] # "triggered"
  <2>1. /\ state' = [state EXCEPT ![p] = "triggered"]
        /\ cbs' = [cbs EXCEPT ![p] = Append(@, Resume(p))]
        /\ _sim_event_schedule(p, 0)
    BY <1>3 DEF schedule_resume, ResumePending
  <2>2. Append(cbs[p], Resume(p)) = <<Resume(p)>>
    BY <1>1, <1>3
  <2>3. QueuedOnce'
    BY <1>0, <1>3, <2>1, ScheduleEffect
  <2> QED
    BY <2>1, <2>2, <2>3
<1> QED
  BY <1>2, <1>3

(* A subscription adds its callback to those of the event.                 *)
LEMMA AppendToSet ==
  ASSUME NEW S, NEW s \in Seq(S), NEW c \in S
  PROVE  ToSet(Append(s, c)) = ToSet(s) \cup {c}
<1>1. /\ Append(s, c) \in Seq(S) /\ Len(Append(s, c)) = Len(s) + 1
      /\ \A i \in 1..Len(s) : Append(s, c)[i] = s[i]
      /\ Append(s, c)[Len(s) + 1] = c
  BY AppendProperties
<1>2. /\ Len(s) \in Nat /\ DOMAIN s = 1..Len(s)
      /\ DOMAIN Append(s, c) = 1..(Len(s) + 1)
  BY <1>1, LenProperties
<1>3. ASSUME NEW i \in DOMAIN Append(s, c)
      PROVE  Append(s, c)[i] \in ToSet(s) \cup {c}
  BY <1>1, <1>2 DEF ToSet
<1>4. ASSUME NEW i \in DOMAIN s
      PROVE  s[i] \in ToSet(Append(s, c))
  <2>1. i \in DOMAIN Append(s, c) /\ Append(s, c)[i] = s[i]
    BY <1>1, <1>2
  <2> QED
    BY <2>1 DEF ToSet
<1>5. c \in ToSet(Append(s, c))
  <2>1. Len(s) + 1 \in DOMAIN Append(s, c)
    BY <1>2
  <2> QED
    BY <1>1, <2>1 DEF ToSet
<1> QED
  BY <1>3, <1>4, <1>5 DEF ToSet

(* The callbacks left once the first has been run, which was among them.   *)
LEMMA TailToSet ==
  ASSUME NEW S, NEW s \in Seq(S), s # <<>>
  PROVE  /\ Head(s) \in ToSet(s)
         /\ \A x \in ToSet(Tail(s)) : x \in ToSet(s)
         /\ \A x \in ToSet(s) : x = Head(s) \/ x \in ToSet(Tail(s))
<1>1. /\ Len(s) \in Nat \ {0} /\ DOMAIN s = 1..Len(s) /\ Head(s) = s[1]
      /\ DOMAIN Tail(s) = 1..(Len(s) - 1)
      /\ \A i \in 1..(Len(s) - 1) : Tail(s)[i] = s[i + 1]
  OBVIOUS
<1>2. Head(s) \in ToSet(s)
  BY <1>1 DEF ToSet
<1>3. ASSUME NEW i \in DOMAIN Tail(s) PROVE Tail(s)[i] \in ToSet(s)
  <2>1. i + 1 \in DOMAIN s /\ Tail(s)[i] = s[i + 1]
    BY <1>1
  <2> QED
    BY <2>1 DEF ToSet
<1>4. ASSUME NEW i \in DOMAIN s, i # 1 PROVE s[i] \in ToSet(Tail(s))
  <2>1. i - 1 \in DOMAIN Tail(s) /\ Tail(s)[i - 1] = s[i]
    BY <1>1, <1>4
  <2> QED
    BY <2>1 DEF ToSet
<1> QED
  BY <1>1, <1>2, <1>3, <1>4 DEF ToSet

(* NoResume in terms of the set of callbacks.                              *)
LEMMA NoResumeSet ==
  ASSUME NEW s
  PROVE  NoResume(s) <=> \A c \in ToSet(s) : c.fn # "resume"
BY DEF NoResume, ToSet

(* A resume callback is the only one of the resume event being dispatched. *)
LEMMA ResumeIsCurrent ==
  ASSUME IInv, ctx = "dispatch", NextCallback("resume")
  PROVE  /\ Head(rest).user \in Proc /\ current = Head(rest).user
         /\ rest = <<Resume(current)>> /\ rest' = <<>>
<1>1. /\ rest # <<>> /\ rest' = Tail(rest) /\ rest \in Seq(Callback)
      /\ Head(rest).fn = "resume"
      /\ Head(rest).user \in Proc /\ Head(rest) = Resume(Head(rest).user)
  BY NextCallbackType DEF IInv, TypeOK
<1>2. current \in Addr \cup Proc
  BY AddressesDiffer DEF IInv, ControlOK, Ev
<1>3. current \notin Addr
  <2>1. ~NoResume(rest)
    BY <1>1, TailToSet, NoResumeSet
  <2> QED
    BY <2>1 DEF IInv, CallbacksOK
<1>4. rest = <<Resume(current)>>
  BY <1>1, <1>2, <1>3 DEF IInv, CallbacksOK
<1> QED
  BY <1>1, <1>4 DEF Resume

-----------------------------------------------------------------------------
(* A new environment satisfies the invariant: no event, no process, and    *)
(* the host in control.                                                    *)
LEMMA InitIInv == Init => IInv
<1> SUFFICES ASSUME Init PROVE IInv
  OBVIOUS
<1> USE AddressesDiffer
<1>1. TypeOK /\ ControlOK
  BY InitTyping
<1>2. RunningOK /\ AwaitedOK
  BY DEF Init, RunningOK, AwaitedOK
<1>3. CallbacksOK
  BY DEF Init, CallbacksOK, NoResume, Ev
<1>4. PooledAreDead
  BY DEF Init, PooledAreDead, ToSet
<1>5. PoolUnused
  BY DEF Init, PoolUnused
<1>6. QueuedOnce
  BY DEF Init, QueuedOnce, Queued, Distinct
<1>7. NoLostWakeup
  BY DEF Init, NoLostWakeup, Suspended
<1> QED
  BY <1>1, <1>2, <1>3, <1>4, <1>5, <1>6, <1>7 DEF IInv

(* An event that is allocated and queued in one call, as a timeout is.     *)
LEMMA TriggeredIInv ==
  ASSUME IInv, NEW e \in Addr, NEW r \in BOOLEAN, NEW d \in Nat,
         Allocated(e, "triggered", r), _sim_event_schedule(e, d),
         UNCHANGED <<now, envVars, intVars, procVars, ctlVars, ghosts>>
  PROVE  IInv'
<1> USE AddressesDiffer
<1>t. /\ state \in [Ev -> {"fresh", "pending", "triggered", "processed"}]
      /\ cbs \in [Ev -> Seq(Callback)] /\ recyclable \in [Ev -> BOOLEAN]
      /\ event_pool \in Seq(Addr) /\ Addr \subseteq Ev /\ Proc \subseteq Ev /\ TypeOK
  BY DEF IInv, TypeOK, Ev
<1>i. /\ ControlOK /\ RunningOK /\ CallbacksOK /\ AwaitedOK /\ PooledAreDead
      /\ PoolUnused /\ QueuedOnce /\ NoLostWakeup
  BY DEF IInv
<1>e. /\ state[e] \in {"fresh", "processed"} /\ e # current
      /\ \A p \in Proc : waitOn[p] # e /\ done[p] # e
      /\ state' = [state EXCEPT ![e] = "triggered"]
      /\ cbs' = cbs
      /\ recyclable' = [recyclable EXCEPT ![e] = r]
      /\ \A i, j \in DOMAIN event_pool' : event_pool'[i] = event_pool'[j] => i = j
      /\ \A i \in DOMAIN event_pool' :
           /\ event_pool'[i] # e
           /\ \E j \in DOMAIN event_pool : event_pool'[i] = event_pool[j]
  BY AllocatedEffect
<1>1. TypeOK'
  <2>1. heap' \in Seq(Entry(Ev))
    BY <1>t, ScheduleType
  <2>2. /\ event_pool' \in Seq(Addr)
        /\ state' \in [Ev -> {"fresh", "pending", "triggered", "processed"}]
        /\ cbs' \in [Ev -> Seq(Callback)] /\ recyclable' \in [Ev -> BOOLEAN]
    BY <1>t, AllocatedType
  <2> QED
    BY <1>t, <2>1, <2>2 DEF TypeOK, envVars, intVars, procVars, ctlVars, ghosts
<1>2. ControlOK' /\ RunningOK'
  BY <1>t, <1>i, <1>e DEF ControlOK, RunningOK, procVars, ctlVars
<1>3. CallbacksOK'
  BY <1>t, <1>i, <1>e DEF CallbacksOK, NoResume, ctlVars
<1>4. AwaitedOK'
  BY <1>t, <1>i, <1>e DEF AwaitedOK, procVars, ghosts
<1>5. PooledAreDead'
  BY <1>i DEF PooledAreDead, procVars
<1>6. PoolUnused'
  BY <1>t, <1>i, <1>e DEF PoolUnused, procVars, ctlVars, ghosts
<1>7. QueuedOnce'
  BY <1>t, <1>e, ScheduleEffect
<1>8. NoLostWakeup'
  BY <1>t, <1>i, <1>e
     DEF NoLostWakeup, Suspended, ResumeQueued, ResumeDue, Listening, procVars, ctlVars
<1> QED
  BY <1>1, <1>2, <1>3, <1>4, <1>5, <1>6, <1>7, <1>8 DEF IInv

(* Every operation and every step of the loop preserves the invariant; one *)
(* step of the proof per action.                                           *)
LEMMA NextIInv == IInv /\ [Next]_vars => IInv'
<1> SUFFICES ASSUME IInv, [Next]_vars
             PROVE  IInv'
  OBVIOUS
<1> USE AddressesDiffer
<1>t. /\ state \in [Ev -> {"fresh", "pending", "triggered", "processed"}]
      /\ cbs \in [Ev -> Seq(Callback)] /\ recyclable \in [Ev -> BOOLEAN]
      /\ pstate \in [Proc -> {"unborn", "new", "running", "dead"}]
      /\ yielded \in [Proc -> Addr \cup {NULL}] /\ done \in [Proc -> Addr \cup {NULL}]
      /\ waitOn \in [Proc -> Addr \cup {NULL}]
      /\ rest \in Seq(Callback) /\ current \in Ev \cup {NULL}
      /\ event_pool \in Seq(Addr) /\ process_pool \in Seq(Proc)
      /\ Addr \subseteq Ev /\ Proc \subseteq Ev
  BY DEF IInv, TypeOK, Ev
<1>i. /\ ControlOK /\ RunningOK /\ CallbacksOK /\ AwaitedOK /\ PooledAreDead
      /\ PoolUnused /\ QueuedOnce /\ NoLostWakeup
  BY DEF IInv
<1>n. TypeOK' /\ ControlOK'
  BY NextTyping DEF IInv
<1>1. CASE UNCHANGED vars
  BY <1>1, <1>i, <1>n
     DEF IInv, RunningOK, CallbacksOK, AwaitedOK, PooledAreDead, PoolUnused,
         QueuedOnce, NoLostWakeup, Suspended, ResumeQueued, ResumeDue, Listening,
         vars, envVars, evVars, intVars, procVars, ctlVars, ghosts
<1>2. ASSUME NEW e \in Addr, sim_event(e)
      PROVE  IInv'
  <2>e. /\ state[e] \in {"fresh", "processed"} /\ e # current
        /\ \A p \in Proc : waitOn[p] # e /\ done[p] # e
        /\ state' = [state EXCEPT ![e] = "pending"]
        /\ cbs' = cbs
        /\ recyclable' = [recyclable EXCEPT ![e] = FALSE]
        /\ \A i, j \in DOMAIN event_pool' : event_pool'[i] = event_pool'[j] => i = j
        /\ \A i \in DOMAIN event_pool' :
             /\ event_pool'[i] # e
             /\ \E j \in DOMAIN event_pool : event_pool'[i] = event_pool[j]
    BY <1>2, AllocatedEffect DEF sim_event
  <2>1. RunningOK'
    BY <1>2, <1>t, <1>i, <2>e
       DEF RunningOK, sim_event, procVars, ctlVars
  <2>2. CallbacksOK'
    BY <1>2, <1>t, <1>i, <2>e
       DEF CallbacksOK, NoResume, sim_event, ctlVars
  <2>3. AwaitedOK'
    BY <1>2, <1>t, <1>i, <2>e
       DEF AwaitedOK, sim_event, procVars, ghosts
  <2>4. PooledAreDead'
    BY <1>2, <1>t, <1>i, <2>e
       DEF PooledAreDead, ToSet, sim_event, procVars
  <2>5. PoolUnused'
    BY <1>2, <1>t, <1>i, <2>e
       DEF PoolUnused, sim_event, procVars, ctlVars, ghosts
  <2>6. QueuedOnce'
    BY <1>2, <1>t, <1>i, <2>e
       DEF QueuedOnce, sim_event
  <2>7. NoLostWakeup'
    BY <1>2, <1>t, <1>i, <2>e
       DEF NoLostWakeup, Suspended, ResumeQueued, ResumeDue, Listening,
           sim_event, procVars, ctlVars
  <2> QED
    BY <1>n, <2>1, <2>2, <2>3, <2>4, <2>5, <2>6, <2>7 DEF IInv
<1>3. ASSUME NEW e \in Addr, NEW d \in Delays, sim_timeout(e, d)
      PROVE  IInv'
  BY <1>3, BoundsAreNaturals, TriggeredIInv DEF sim_timeout
<1>4. ASSUME NEW e \in Addr, sim_event_succeed(e)
      PROVE  IInv'
  <2>1. RunningOK'
    BY <1>4, <1>t, <1>i
       DEF RunningOK, sim_event_succeed, procVars, ctlVars
  <2>2. CallbacksOK'
    BY <1>4, <1>t, <1>i
       DEF CallbacksOK, NoResume, sim_event_succeed, ctlVars
  <2>3. AwaitedOK'
    BY <1>4, <1>t, <1>i
       DEF AwaitedOK, sim_event_succeed, procVars, ghosts
  <2>4. PooledAreDead'
    BY <1>4, <1>t, <1>i
       DEF PooledAreDead, ToSet, sim_event_succeed, procVars
  <2>5. PoolUnused'
    BY <1>4, <1>t, <1>i
       DEF PoolUnused, sim_event_succeed, procVars, ctlVars, ghosts
  <2>6. QueuedOnce'
    BY <1>4, <1>t, ScheduleEffect DEF sim_event_succeed
  <2>7. NoLostWakeup'
    BY <1>4, <1>t, <1>i
       DEF NoLostWakeup, Suspended, ResumeQueued, ResumeDue, Listening,
           sim_event_succeed, procVars, ctlVars
  <2> QED
    BY <1>n, <2>1, <2>2, <2>3, <2>4, <2>5, <2>6, <2>7 DEF IInv
<1>5. ASSUME NEW e \in Addr, sim_event_on(e)
      PROVE  IInv'
  <2>e. /\ cbs' = [cbs EXCEPT ![e] = Append(@, User)]
        /\ ToSet(Append(cbs[e], User)) = ToSet(cbs[e]) \cup {User}
    <3>1. User \in Callback
      BY DEF Callback
    <3> QED
      BY <1>5, <1>t, <3>1, AppendToSet DEF sim_event_on
  <2>1. RunningOK'
    BY <1>5, <1>t, <1>i
       DEF RunningOK, sim_event_on, procVars, ctlVars
  <2>2. CallbacksOK'
    <3>1. \A x \in Ev : x # e => cbs'[x] = cbs[x]
      BY <2>e, <1>t
    <3>2. NoResume(cbs'[e])
      BY <2>e, <1>t, <1>i, NoResumeSet DEF CallbacksOK, User
    <3> QED
      BY <1>5, <1>t, <1>i, <3>1, <3>2 DEF CallbacksOK, sim_event_on, ctlVars
  <2>3. AwaitedOK'
    BY <1>5, <1>t, <1>i
       DEF AwaitedOK, sim_event_on, procVars, ghosts
  <2>4. PooledAreDead'
    BY <1>5, <1>t, <1>i
       DEF PooledAreDead, ToSet, sim_event_on, procVars
  <2>5. PoolUnused'
    BY <1>5, <1>t, <1>i
       DEF PoolUnused, sim_event_on, procVars, ctlVars, ghosts
  <2>6. QueuedOnce'
    BY <1>5, <1>t, <1>i
       DEF QueuedOnce, sim_event_on
  <2>7. NoLostWakeup'
    <3>1. \A x \in Ev : ToSet(cbs[x]) \subseteq ToSet(cbs'[x])
      BY <2>e, <1>t
    <3>2. \A p \in Proc : cbs'[p] = cbs[p]
      BY <1>5, <1>t, <2>e
    <3> QED
      BY <1>5, <1>t, <1>i, <3>1, <3>2
         DEF NoLostWakeup, Suspended, ResumeQueued, ResumeDue, Listening,
             sim_event_on, procVars, ctlVars
  <2> QED
    BY <1>n, <2>1, <2>2, <2>3, <2>4, <2>5, <2>6, <2>7 DEF IInv
<1>6. ASSUME NEW p \in Proc, sim_process(p)
      PROVE  IInv'
  <2>e. /\ state' = [state EXCEPT ![p] = "triggered"]
        /\ cbs' = [cbs EXCEPT ![p] = <<Resume(p)>>]
        /\ QueuedOnce'
    BY <1>6, ScheduleResumeEffect DEF sim_process, Unlinked, Wiped
  <2>d. /\ pstate[p] \in {"unborn", "dead"}
        /\ \A i, j \in DOMAIN process_pool' : process_pool'[i] = process_pool'[j] => i = j
        /\ \A q \in Proc : q \in ToSet(process_pool') <=> q \in ToSet(process_pool) /\ q # p
    <3>1. CASE process_pool # <<>>
      <4>1. /\ p = Head(process_pool) /\ process_pool' = Tail(process_pool)
            /\ Head(process_pool) = process_pool[1] /\ 1 \in DOMAIN process_pool
        BY <1>6, <1>t, <3>1 DEF sim_process, Unlinked, Wiped
      <4>2. p \in ToSet(process_pool)
        BY <1>t, <3>1, <4>1, TailToSet
      <4>3. \A i \in DOMAIN process_pool' :
              /\ i + 1 \in DOMAIN process_pool /\ i \in Nat \ {0}
              /\ process_pool'[i] = process_pool[i + 1]
        BY <1>t, <3>1, <4>1
      <4>4. \A i, j \in DOMAIN process_pool' : process_pool'[i] = process_pool'[j] => i = j
        BY <4>3, <1>i DEF PooledAreDead
      <4>5. p \notin ToSet(process_pool')
        BY <4>1, <4>3, <1>i DEF PooledAreDead, ToSet
      <4> QED
        BY <1>t, <1>i, <3>1, <4>1, <4>2, <4>4, <4>5, TailToSet DEF PooledAreDead
    <3>2. CASE process_pool = <<>>
      <4>1. pstate[p] = "unborn" /\ process_pool' = process_pool
        BY <1>6, <3>2 DEF sim_process, Unlinked, Wiped
      <4> QED
        BY <4>1, <1>i DEF PooledAreDead
    <3> QED
      BY <3>1, <3>2
  <2>1. RunningOK'
    BY <1>6, <1>t, <1>i, <2>d DEF RunningOK, sim_process, Unlinked, Wiped, ctlVars
  <2>2. CallbacksOK'
    BY <1>6, <1>t, <1>i, <2>e
       DEF CallbacksOK, NoResume, sim_process, Unlinked, Wiped, ctlVars
  <2>3. AwaitedOK'
    BY <1>6, <1>t, <1>i, <2>e
       DEF AwaitedOK, sim_process, Unlinked, Wiped
  <2>4. PooledAreDead'
    BY <1>6, <1>t, <1>i, <2>d DEF PooledAreDead, sim_process, Unlinked, Wiped
  <2>5. PoolUnused'
    BY <1>6, <1>t, <1>i, <2>e
       DEF PoolUnused, sim_process, Unlinked, Wiped, ctlVars
  <2>6. NoLostWakeup'
    BY <1>6, <1>t, <1>i, <2>e
       DEF NoLostWakeup, Suspended, ResumeQueued, ResumeDue, Listening,
           sim_process, Unlinked, Wiped, ctlVars
  <2> QED
    BY <1>n, <2>1, <2>2, <2>3, <2>4, <2>5, <2>6, <2>e DEF IInv
<1>7. ASSUME NEW p \in Proc, NEW g \in 1..MaxGen, sim_process_interrupt(p, g)
      PROVE  IInv'
  <2>e. /\ state' = [state EXCEPT ![p] = "triggered"]
        /\ cbs' = [cbs EXCEPT ![p] = <<Resume(p)>>]
        /\ QueuedOnce'
    BY <1>7, ScheduleResumeEffect DEF sim_process_interrupt
  <2>1. RunningOK'
    BY <1>7, <1>t, <1>i, <2>e
       DEF RunningOK, sim_process_interrupt, ctlVars
  <2>2. CallbacksOK'
    BY <1>7, <1>t, <1>i, <2>e
       DEF CallbacksOK, NoResume, sim_process_interrupt, ctlVars
  <2>3. AwaitedOK'
    BY <1>7, <1>t, <1>i, <2>e
       DEF AwaitedOK, sim_process_interrupt, ghosts
  <2>4. PooledAreDead'
    BY <1>7, <1>t, <1>i, <2>e
       DEF PooledAreDead, ToSet, sim_process_interrupt
  <2>5. PoolUnused'
    BY <1>7, <1>t, <1>i, <2>e
       DEF PoolUnused, sim_process_interrupt, ctlVars, ghosts
  <2>6. NoLostWakeup'
    BY <1>7, <1>t, <1>i, <2>e
       DEF NoLostWakeup, Suspended, ResumeQueued, ResumeDue, Listening,
           sim_process_interrupt, ctlVars
  <2> QED
    BY <1>n, <2>1, <2>2, <2>3, <2>4, <2>5, <2>6, <2>e DEF IInv
<1>8. ASSUME NEW p \in Proc, NEW g \in 1..MaxGen, sim_process_event(p, g)
      PROVE  IInv'
  <2>1. CASE done[p] # NULL
    BY <1>8, <2>1, <1>i, <1>n
       DEF IInv, RunningOK, CallbacksOK, AwaitedOK, PooledAreDead, PoolUnused,
           QueuedOnce, NoLostWakeup, Suspended, ResumeQueued, ResumeDue, Listening,
           sim_process_event, HasEnded, evVars, ctlVars
  <2>2. CASE done[p] = NULL
    <3> DEFINE s == IF pstate[p] = "dead" THEN "triggered" ELSE "pending"
    <3>1. PICK e \in Addr :
            /\ Allocated(e, s, FALSE)
            /\ IF pstate[p] = "dead" THEN _sim_event_schedule(e, 0) ELSE UNCHANGED heap
            /\ done' = [done EXCEPT ![p] = e]
      BY <1>8, <2>2 DEF sim_process_event, HasEnded
    <3>2. s \in {"pending", "triggered"}
      OBVIOUS
    <3>3. /\ state[e] \in {"fresh", "processed"} /\ e # current
          /\ \A q \in Proc : waitOn[q] # e /\ done[q] # e
          /\ state' = [state EXCEPT ![e] = s]
          /\ cbs' = cbs
          /\ recyclable' = [recyclable EXCEPT ![e] = FALSE]
          /\ \A i, j \in DOMAIN event_pool' : event_pool'[i] = event_pool'[j] => i = j
          /\ \A i \in DOMAIN event_pool' :
               /\ event_pool'[i] # e
               /\ \E j \in DOMAIN event_pool : event_pool'[i] = event_pool[j]
      BY <3>1, <3>2, AllocatedEffect
    <3> HIDE DEF s
    <3>4. UNCHANGED <<pstate, yielded, process_pool, waitOn, ctx, current, rest>>
      BY <1>8 DEF sim_process_event, HasEnded, ctlVars
    <3>5. RunningOK'
      BY <3>4, <1>i DEF RunningOK
    <3>6. CallbacksOK'
      BY <3>2, <3>3, <3>4, <1>t, <1>i DEF CallbacksOK, NoResume
    <3>7. AwaitedOK'
      BY <3>1, <3>2, <3>3, <3>4, <1>t, <1>i DEF AwaitedOK
    <3>8. PooledAreDead'
      BY <3>4, <1>i DEF PooledAreDead
    <3>9. PoolUnused'
      BY <3>1, <3>3, <3>4, <1>t, <1>i DEF PoolUnused
    <3>10. QueuedOnce'
      <4>1. CASE pstate[p] = "dead"
        BY <3>1, <3>3, <4>1, <1>t, ScheduleEffect DEF s
      <4>2. CASE pstate[p] # "dead"
        BY <3>1, <3>3, <4>2, <1>t, <1>i DEF QueuedOnce, s
      <4> QED
        BY <4>1, <4>2
    <3>11. NoLostWakeup'
      BY <3>2, <3>3, <3>4, <1>t, <1>i
         DEF NoLostWakeup, Suspended, ResumeQueued, ResumeDue, Listening
    <3> QED
      BY <1>n, <3>5, <3>6, <3>7, <3>8, <3>9, <3>10, <3>11 DEF IInv
  <2> QED
    BY <2>1, <2>2
<1>9. ASSUME NEW m \in RtModes, sim_env_set_realtime(m)
      PROVE  IInv'
  BY <1>9, <1>i, <1>n
     DEF IInv, RunningOK, CallbacksOK, AwaitedOK, PooledAreDead, PoolUnused,
         QueuedOnce, NoLostWakeup, Suspended, ResumeQueued, ResumeDue, Listening,
         sim_env_set_realtime, evVars, procVars, ctlVars, ghosts
<1>10. ASSUME NEW p \in Proc, NEW e \in Addr, sim_yield(p, e)
      PROVE  IInv'
  <2>c. /\ e \in Ev /\ state[e] # "fresh"
        /\ \A i \in DOMAIN event_pool : event_pool[i] # e
        /\ yielded' = [yielded EXCEPT ![p] = e]
        /\ UNCHANGED <<recyclable, event_pool, pstate, done, process_pool, current, rest>>
        /\ ctx = p /\ ctx' = "dispatch"
    BY <1>10, <1>t DEF sim_yield
  <2>d. ASSUME state[e] = "processed"
        PROVE  /\ CallbacksOK' /\ AwaitedOK' /\ PoolUnused'
               /\ QueuedOnce' /\ NoLostWakeup'
    <3>1. /\ state' = [state EXCEPT ![p] = "triggered"]
          /\ cbs' = [cbs EXCEPT ![p] = <<Resume(p)>>]
          /\ QueuedOnce'
      BY <1>10, <2>d, ScheduleResumeEffect DEF sim_yield
    <3>2. waitOn' = [waitOn EXCEPT ![p] = NULL]
      BY <1>10, <2>d DEF sim_yield
    <3>3. CallbacksOK'
      BY <2>c, <3>1, <1>t, <1>i DEF CallbacksOK, NoResume
    <3>4. AwaitedOK'
      BY <2>c, <3>1, <3>2, <1>t, <1>i DEF AwaitedOK
    <3>5. PoolUnused'
      BY <2>c, <3>1, <3>2, <1>t, <1>i DEF PoolUnused
    <3>6. NoLostWakeup'
      BY <2>c, <3>1, <1>t, <1>i
         DEF NoLostWakeup, Suspended, ResumeQueued, ResumeDue, Listening
    <3> QED
      BY <3>1, <3>3, <3>4, <3>5, <3>6
  <2>f. ASSUME state[e] # "processed"
        PROVE  /\ CallbacksOK' /\ AwaitedOK' /\ PoolUnused'
               /\ QueuedOnce' /\ NoLostWakeup'
    <3>1. /\ UNCHANGED <<state, heap>>
          /\ waitOn' = [waitOn EXCEPT ![p] = e]
          /\ cbs' = [cbs EXCEPT ![e] = Append(@, Waiter(p))]
      BY <1>10, <2>f DEF sim_yield
    <3>2. state[e] \in {"pending", "triggered"}
      BY <2>c, <2>f, <1>t
    <3>3. Waiter(p) \in Callback /\ Waiter(p).fn = "waiter"
      BY DEF Callback, Waiter
    <3>4. /\ ToSet(cbs'[e]) = ToSet(cbs[e]) \cup {Waiter(p)}
          /\ \A x \in Ev : x # e => cbs'[x] = cbs[x]
      BY <3>1, <3>3, <1>t, AppendToSet
    <3>5. NoResume(cbs'[e])
      BY <3>3, <3>4, <1>i, NoResumeSet DEF CallbacksOK
    <3>6. CallbacksOK'
      BY <2>c, <3>1, <3>2, <3>4, <3>5, <1>t, <1>i DEF CallbacksOK
    <3>7. AwaitedOK'
      BY <2>c, <3>1, <3>2, <1>t, <1>i DEF AwaitedOK
    <3>8. PoolUnused'
      BY <2>c, <2>f, <3>1, <3>4, <1>t, <1>i DEF PoolUnused
    <3>9. QueuedOnce'
      BY <3>1, <1>i DEF QueuedOnce
    <3>10. Listening(p)'
      BY <1>10, <2>c, <3>1, <3>2, <3>4, <1>t DEF Listening
    <3>11. ASSUME NEW q \in Proc, q # p, Listening(q) PROVE Listening(q)'
      BY <2>c, <3>1, <3>4, <3>11, <1>t DEF Listening
    <3>12. NoLostWakeup'
      BY <2>c, <3>1, <3>4, <3>10, <3>11, <1>t, <1>i
         DEF NoLostWakeup, Suspended, ResumeQueued, ResumeDue
    <3> QED
      BY <3>6, <3>7, <3>8, <3>9, <3>12
  <2>1. RunningOK'
    BY <1>10, <1>t, <1>i
       DEF RunningOK, sim_yield
  <2>2. CallbacksOK'
    BY <2>d, <2>f
  <2>3. AwaitedOK'
    BY <2>d, <2>f
  <2>4. PooledAreDead'
    BY <1>10, <1>t, <1>i
       DEF PooledAreDead, ToSet, sim_yield
  <2>5. PoolUnused'
    BY <2>d, <2>f
  <2>6. QueuedOnce'
    BY <2>d, <2>f
  <2>7. NoLostWakeup'
    BY <2>d, <2>f
  <2> QED
    BY <1>n, <2>1, <2>2, <2>3, <2>4, <2>5, <2>6, <2>7 DEF IInv
<1>11. ASSUME NEW p \in Proc, process_entry_end(p)
      PROVE  IInv'
  <2>1. RunningOK'
    BY <1>11, <1>t, <1>i
       DEF RunningOK, process_entry_end
  <2>2. CallbacksOK'
    BY <1>11, <1>t, <1>i
       DEF CallbacksOK, NoResume, process_entry_end
  <2>3. AwaitedOK'
    BY <1>11, <1>t, <1>i
       DEF AwaitedOK, process_entry_end, ghosts
  <2>4. PooledAreDead'
    <3>1. p \notin ToSet(process_pool)
      BY <1>11, <1>i DEF process_entry_end, RunningOK, PooledAreDead
    <3>2. /\ process_pool' = <<p>> \o process_pool
          /\ pstate' = [pstate EXCEPT ![p] = "dead"]
      BY <1>11 DEF process_entry_end
    <3>3. /\ DOMAIN process_pool = 1..Len(process_pool) /\ Len(process_pool) \in Nat
          /\ DOMAIN process_pool' = 1..(Len(process_pool) + 1)
          /\ process_pool'[1] = p
          /\ \A i \in 1..Len(process_pool) : process_pool'[i + 1] = process_pool[i]
      BY <3>2, <1>t
    <3>4. ASSUME NEW i \in DOMAIN process_pool', i # 1
          PROVE  i - 1 \in DOMAIN process_pool /\ process_pool'[i] = process_pool[i - 1]
      <4>1. i - 1 \in 1..Len(process_pool) /\ (i - 1) + 1 = i
        BY <3>3, <3>4
      <4> QED
        BY <4>1, <3>3
    <3>5. \A i, j \in DOMAIN process_pool' : process_pool'[i] = process_pool'[j] => i = j
      BY <3>1, <3>3, <3>4, <1>i DEF PooledAreDead, ToSet
    <3>6. ToSet(process_pool') = ToSet(process_pool) \cup {p}
      BY <3>3, <3>4 DEF ToSet
    <3> QED
      BY <3>2, <3>5, <3>6, <1>t, <1>i DEF PooledAreDead
  <2>5. PoolUnused'
    BY <1>11, <1>t, <1>i
       DEF PoolUnused, process_entry_end, ghosts
  <2>6. QueuedOnce'
    <3>1. CASE done[p] # NULL /\ state[done[p]] = "pending"
      BY <1>11, <3>1, <1>t, ScheduleEffect DEF process_entry_end
    <3>2. CASE ~(done[p] # NULL /\ state[done[p]] = "pending")
      BY <1>11, <3>2, <1>i DEF process_entry_end, QueuedOnce
    <3> QED
      BY <3>1, <3>2
  <2>7. NoLostWakeup'
    BY <1>11, <1>t, <1>i
       DEF NoLostWakeup, Suspended, ResumeQueued, ResumeDue, Listening,
           process_entry_end
  <2> QED
    BY <1>n, <2>1, <2>2, <2>3, <2>4, <2>5, <2>6, <2>7 DEF IInv
<1>12. ASSUME NEW m \in RunModes, NEW u \in Untils(m), StartRun(m, u)
      PROVE  IInv'
  BY <1>12, <1>i, <1>n
     DEF IInv, RunningOK, CallbacksOK, AwaitedOK, PooledAreDead, PoolUnused,
         QueuedOnce, NoLostWakeup, Suspended, ResumeQueued, ResumeDue, Listening,
         StartRun, evVars, procVars, ghosts
<1>13. ASSUME sim_step
      PROVE  IInv'
  <2> DEFINE e == Head(heap).ev
  <2>c. /\ e \in Ev /\ state[e] = "triggered"
        /\ heap' = Tail(heap)
        /\ Distinct(heap') /\ Queued(heap') = Queued(heap) \ {e}
    <3>1. heap \in Seq(Entry(Ev)) /\ heap # <<>> /\ heap' = Tail(heap)
      BY <1>13 DEF IInv, TypeOK, sim_step, MayStep
    <3>2. Head(heap) \in Entry(Ev) /\ e \in Queued(heap)
      BY <3>1, TailQueued
    <3>3. e \in Ev
      BY <3>2 DEF Entry
    <3>4. Distinct(heap') /\ Queued(heap') = Queued(heap) \ {e}
      BY <3>1, TailQueued, <1>i DEF QueuedOnce
    <3> QED
      BY <3>1, <3>2, <3>3, <3>4, <1>i DEF QueuedOnce
  <2>d. /\ ctx = "loop" /\ ctx' = "dispatch" /\ current' = e /\ rest' = cbs[e]
        /\ state' = [state EXCEPT ![e] = "processed"]
        /\ cbs' = [cbs EXCEPT ![e] = <<>>]
        /\ waitOn' = [p \in Proc |-> IF waitOn[p] = e THEN NULL ELSE waitOn[p]]
        /\ UNCHANGED <<recyclable, event_pool, pstate, yielded, done, process_pool>>
    BY <1>13 DEF sim_step, procVars
  <2>f. current = NULL /\ rest = <<>>
    BY <2>d, <1>n DEF IInv, ControlOK
  <2> HIDE DEF e
  <2>1. RunningOK'
    BY <1>13, <1>t, <1>i
       DEF RunningOK, sim_step, procVars
  <2>2. CallbacksOK'
    <3>1. \A p \in Proc : state'[p] # "pending"
            /\ cbs'[p] = IF state'[p] = "triggered" THEN <<Resume(p)>> ELSE <<>>
      BY <2>c, <2>d, <1>t, <1>i DEF CallbacksOK
    <3>2. \A a \in Addr : NoResume(cbs'[a])
            /\ (state'[a] \in {"fresh", "processed"} => cbs'[a] = <<>>)
      BY <2>c, <2>d, <1>t, <1>i DEF CallbacksOK, NoResume
    <3>3. current' \in Proc => rest' \in {<<>>, <<Resume(current')>>}
      BY <2>c, <2>d, <1>t, <1>i DEF CallbacksOK
    <3>4. current' \in Addr => state'[current'] = "processed" /\ NoResume(rest')
      BY <2>c, <2>d, <1>t, <1>i DEF CallbacksOK
    <3> QED
      BY <3>1, <3>2, <3>3, <3>4 DEF CallbacksOK
  <2>3. AwaitedOK'
    BY <1>13, <1>t, <1>i
       DEF AwaitedOK, sim_step, procVars
  <2>4. PooledAreDead'
    BY <1>13, <1>t, <1>i
       DEF PooledAreDead, ToSet, sim_step, procVars
  <2>5. PoolUnused'
    BY <2>c, <2>d, <1>t, <1>i DEF PoolUnused
  <2>6. QueuedOnce'
    BY <2>c, <2>d, <1>t, <1>i DEF QueuedOnce
  <2>7. NoLostWakeup'
    <3>1. ASSUME NEW p \in Proc, ResumeQueued(p)
          PROVE  ResumeQueued(p)' \/ ResumeDue(p)'
      BY <2>c, <2>d, <3>1, <1>t DEF ResumeQueued, ResumeDue
    <3>2. ASSUME NEW p \in Proc PROVE ~ResumeDue(p)
      BY <2>f DEF ResumeDue
    <3>3. ASSUME NEW p \in Proc, Listening(p) PROVE Listening(p)'
      BY <2>c, <2>d, <2>f, <3>3, <1>t DEF Listening
    <3> QED
      BY <2>d, <3>1, <3>2, <3>3, <1>i DEF NoLostWakeup, Suspended
  <2> QED
    BY <1>n, <2>1, <2>2, <2>3, <2>4, <2>5, <2>6, <2>7 DEF IInv
<1>14. ASSUME Return, ctx = "loop"
      PROVE  IInv'
  BY <1>14, <1>i, <1>n
     DEF IInv, RunningOK, CallbacksOK, AwaitedOK, PooledAreDead, PoolUnused,
         QueuedOnce, NoLostWakeup, Suspended, ResumeQueued, ResumeDue, Listening,
         Return, IsLate, evVars, procVars, ghosts
<1>15. ASSUME waiter_cb
      PROVE  IInv'
  <2>e. /\ rest # <<>> /\ rest' = Tail(rest) /\ ctx = "dispatch"
        /\ Head(rest) \in Callback /\ Head(rest).fn = "waiter"
        /\ Head(rest).user \in Proc /\ Head(rest) = Waiter(Head(rest).user)
    BY <1>15, NextCallbackType DEF waiter_cb, IsStale, NextCallback, IInv
  <2> DEFINE p == Head(rest).user
  <2>c. UNCHANGED <<recyclable, event_pool, pstate, yielded, done, process_pool, ctx,
                    current, waitOn>>
    BY <1>15 DEF waiter_cb, IsStale, ghosts
  <2>d. \/ UNCHANGED <<state, cbs, heap>> /\ (pstate[p] = "dead" \/ yielded[p] # current)
        \/ /\ state' = [state EXCEPT ![p] = "triggered"]
           /\ cbs' = [cbs EXCEPT ![p] = <<Resume(p)>>]
           /\ QueuedOnce'
    BY <1>15, <2>e, ScheduleResumeEffect DEF waiter_cb, IsStale
  <2>f. /\ \A x \in ToSet(rest') : x \in ToSet(rest)
        /\ \A x \in ToSet(rest) : x = Waiter(p) \/ x \in ToSet(rest')
        /\ \A q \in Proc : Resume(q) # Waiter(p)
    BY <2>e, <1>t, TailToSet DEF Resume, Waiter
  <2>g. current \notin Proc
    <3>1. SUFFICES ASSUME current \in Proc PROVE FALSE
      OBVIOUS
    <3>2. Head(rest) = Resume(current)
      BY <3>1, <2>e, <1>i DEF CallbacksOK
    <3> QED
      BY <3>1, <3>2, <2>e, <2>f
  <2> HIDE DEF p
  <2>1. RunningOK'
    BY <1>15, <1>t, <1>i, <2>e
       DEF RunningOK, waiter_cb, IsStale
  <2>2. CallbacksOK'
    <3>1. NoResume(rest) => NoResume(rest')
      BY <2>f, NoResumeSet
    <3>2. \A q \in Proc : state'[q] # "pending"
            /\ cbs'[q] = IF state'[q] = "triggered" THEN <<Resume(q)>> ELSE <<>>
      BY <2>d, <2>e, <1>t, <1>i DEF CallbacksOK, p
    <3>3. \A a \in Addr : state'[a] = state[a] /\ cbs'[a] = cbs[a]
      BY <2>d, <2>e, <1>t DEF p
    <3> QED
      BY <2>c, <2>g, <3>1, <3>2, <3>3, <1>i DEF CallbacksOK
  <2>3. AwaitedOK'
    BY <2>c, <2>d, <2>e, <1>t, <1>i DEF AwaitedOK, p
  <2>4. PooledAreDead'
    BY <1>15, <1>t, <1>i, <2>e
       DEF PooledAreDead, ToSet, waiter_cb, IsStale
  <2>5. PoolUnused'
    BY <2>c, <2>d, <2>e, <1>t, <1>i DEF PoolUnused, p
  <2>6. QueuedOnce'
    BY <2>d, <1>i DEF QueuedOnce
  <2>7. NoLostWakeup'
    <3>1. ASSUME NEW q \in Proc, ResumeQueued(q) PROVE ResumeQueued(q)'
      BY <2>d, <2>e, <3>1, <1>t DEF ResumeQueued, p
    <3>2. ASSUME NEW q \in Proc PROVE ~ResumeDue(q)
      BY <2>g DEF ResumeDue
    <3>3. ASSUME NEW q \in Proc, pstate[q] = "running", Listening(q)
          PROVE  Listening(q)' \/ ResumeQueued(q)'
      <4>1. CASE q # p
        <5>1. Waiter(q) # Waiter(p)
          BY <4>1 DEF Waiter
        <5> QED
          BY <2>c, <2>d, <2>e, <2>f, <3>3, <5>1, <1>t DEF Listening, p
      <4>2. CASE q = p
        BY <2>c, <2>d, <2>e, <3>3, <4>2, <1>t
           DEF Listening, ResumeQueued, p
      <4> QED
        BY <4>1, <4>2
    <3> QED
      BY <2>c, <3>1, <3>2, <3>3, <1>i DEF NoLostWakeup, Suspended
  <2> QED
    BY <1>n, <2>1, <2>2, <2>3, <2>4, <2>5, <2>6, <2>7 DEF IInv
<1>16. ASSUME resume_cb_dead
      PROVE  IInv'
  <2>e. /\ rest # <<>> /\ rest' = Tail(rest) /\ ctx = "dispatch"
        /\ Head(rest) \in Callback /\ Head(rest).fn = "resume"
        /\ Head(rest).user \in Proc /\ Head(rest) = Resume(Head(rest).user)
    BY <1>16, NextCallbackType DEF resume_cb_dead, NextCallback, IInv
  <2> DEFINE p == Head(rest).user
  <2>f. /\ p \in Proc /\ current = p /\ rest = <<Resume(p)>> /\ rest' = <<>>
    BY <1>16, <2>e, ResumeIsCurrent DEF resume_cb_dead
  <2>1. RunningOK'
    BY <1>16, <1>t, <1>i, <2>e
       DEF RunningOK, resume_cb_dead, procVars
  <2>2. CallbacksOK'
    BY <1>16, <1>t, <1>i, <2>f
       DEF CallbacksOK, NoResume, resume_cb_dead, evVars
  <2>3. AwaitedOK'
    BY <1>16, <1>t, <1>i, <2>e
       DEF AwaitedOK, resume_cb_dead, evVars, procVars, ghosts
  <2>4. PooledAreDead'
    BY <1>16, <1>t, <1>i, <2>e
       DEF PooledAreDead, ToSet, resume_cb_dead, procVars
  <2>5. PoolUnused'
    BY <1>16, <1>t, <1>i, <2>e
       DEF PoolUnused, resume_cb_dead, evVars, procVars, ghosts
  <2>6. QueuedOnce'
    BY <1>16, <1>t, <1>i, <2>e
       DEF QueuedOnce, resume_cb_dead, evVars
  <2>7. NoLostWakeup'
    <3>1. UNCHANGED <<state, cbs, current>>
      BY <1>16 DEF resume_cb_dead, evVars
    <3>2. ASSUME NEW q \in Proc, q # p
          PROVE  ~ResumeDue(q) /\ (ResumeQueued(q) => ResumeQueued(q)')
                 /\ (Listening(q) => Listening(q)')
      BY <1>16, <2>f, <3>1, <3>2, <1>t DEF ResumeDue, ResumeQueued, Listening, resume_cb_dead, procVars
    <3>3. ASSUME NEW q \in Proc, q # p
          PROVE  pstate'[q] = pstate[q] /\ (Suspended(q)' => Suspended(q))
      BY <1>16, <2>e, <2>f, <3>3, <1>t DEF Suspended, resume_cb_dead, procVars
    <3>4. ASSUME NEW q \in Proc, q = p
          PROVE  pstate'[q] # "new" /\ ~Suspended(q)'
      BY <1>16, <2>f, <3>4, <1>t DEF Suspended, resume_cb_dead, procVars
    <3> QED
      BY <3>2, <3>3, <3>4, <1>i DEF NoLostWakeup
  <2> QED
    BY <1>n, <2>1, <2>2, <2>3, <2>4, <2>5, <2>6, <2>7 DEF IInv
<1>17. ASSUME resume_cb_start
      PROVE  IInv'
  <2>e. /\ rest # <<>> /\ rest' = Tail(rest) /\ ctx = "dispatch"
        /\ Head(rest) \in Callback /\ Head(rest).fn = "resume"
        /\ Head(rest).user \in Proc /\ Head(rest) = Resume(Head(rest).user)
    BY <1>17, NextCallbackType DEF resume_cb_start, NextCallback, IInv
  <2> DEFINE p == Head(rest).user
  <2>f. /\ p \in Proc /\ current = p /\ rest = <<Resume(p)>> /\ rest' = <<>>
    BY <1>17, <2>e, ResumeIsCurrent DEF resume_cb_start
  <2>1. RunningOK'
    BY <1>17, <2>f, <1>t DEF RunningOK, resume_cb_start
  <2>2. CallbacksOK'
    BY <1>17, <2>f, <1>t, <1>i DEF CallbacksOK, resume_cb_start, evVars
  <2>3. AwaitedOK'
    BY <1>17, <1>t, <1>i, <2>e
       DEF AwaitedOK, resume_cb_start, evVars, ghosts
  <2>4. PooledAreDead'
    BY <1>17, <1>t, <1>i, <2>e
       DEF PooledAreDead, ToSet, resume_cb_start
  <2>5. PoolUnused'
    BY <1>17, <1>t, <1>i, <2>e
       DEF PoolUnused, resume_cb_start, evVars, ghosts
  <2>6. QueuedOnce'
    BY <1>17, <1>t, <1>i, <2>e
       DEF QueuedOnce, resume_cb_start, evVars
  <2>7. NoLostWakeup'
    <3>1. UNCHANGED <<state, cbs, current>>
      BY <1>17 DEF resume_cb_start, evVars
    <3>2. ASSUME NEW q \in Proc, q # p
          PROVE  ~ResumeDue(q) /\ (ResumeQueued(q) => ResumeQueued(q)')
                 /\ (Listening(q) => Listening(q)')
      BY <1>17, <2>f, <3>1, <3>2, <1>t DEF ResumeDue, ResumeQueued, Listening, resume_cb_start, procVars
    <3>3. ASSUME NEW q \in Proc, q # p
          PROVE  pstate'[q] = pstate[q] /\ (Suspended(q)' => Suspended(q))
      BY <1>17, <2>e, <2>f, <3>3, <1>t DEF Suspended, resume_cb_start, procVars
    <3>4. ASSUME NEW q \in Proc, q = p
          PROVE  pstate'[q] # "new" /\ ~Suspended(q)'
      BY <1>17, <2>f, <3>4, <1>t DEF Suspended, resume_cb_start, procVars
    <3> QED
      BY <3>2, <3>3, <3>4, <1>i DEF NoLostWakeup
  <2> QED
    BY <1>n, <2>1, <2>2, <2>3, <2>4, <2>5, <2>6, <2>7 DEF IInv
<1>18. ASSUME resume_cb_return
      PROVE  IInv'
  <2>e. /\ rest # <<>> /\ rest' = Tail(rest) /\ ctx = "dispatch"
        /\ Head(rest) \in Callback /\ Head(rest).fn = "resume"
        /\ Head(rest).user \in Proc /\ Head(rest) = Resume(Head(rest).user)
    BY <1>18, NextCallbackType DEF resume_cb_return, Delivered, NextCallback, IInv
  <2> DEFINE p == Head(rest).user
  <2>f. /\ p \in Proc /\ current = p /\ rest = <<Resume(p)>> /\ rest' = <<>>
    BY <1>18, <2>e, ResumeIsCurrent DEF resume_cb_return, Delivered
  <2>1. RunningOK'
    BY <1>18, <2>f, <1>t DEF RunningOK, resume_cb_return, Delivered
  <2>2. CallbacksOK'
    BY <1>18, <2>f, <1>t, <1>i DEF CallbacksOK, resume_cb_return, Delivered, evVars
  <2>3. AwaitedOK'
    BY <1>18, <1>t, <1>i, <2>e
       DEF AwaitedOK, resume_cb_return, Delivered, evVars
  <2>4. PooledAreDead'
    BY <1>18, <1>t, <1>i, <2>e
       DEF PooledAreDead, ToSet, resume_cb_return, Delivered
  <2>5. PoolUnused'
    BY <1>18, <1>t, <1>i, <2>e
       DEF PoolUnused, resume_cb_return, Delivered, evVars
  <2>6. QueuedOnce'
    BY <1>18, <1>t, <1>i, <2>e
       DEF QueuedOnce, resume_cb_return, Delivered, evVars
  <2>7. NoLostWakeup'
    <3>1. UNCHANGED <<state, cbs, current>>
      BY <1>18 DEF resume_cb_return, Delivered, evVars
    <3>2. ASSUME NEW q \in Proc, q # p
          PROVE  ~ResumeDue(q) /\ (ResumeQueued(q) => ResumeQueued(q)')
                 /\ (Listening(q) => Listening(q)')
      BY <1>18, <2>f, <3>1, <3>2, <1>t DEF ResumeDue, ResumeQueued, Listening, resume_cb_return, Delivered, procVars
    <3>3. ASSUME NEW q \in Proc, q # p
          PROVE  pstate'[q] = pstate[q] /\ (Suspended(q)' => Suspended(q))
      BY <1>18, <2>e, <2>f, <3>3, <1>t DEF Suspended, resume_cb_return, Delivered, procVars
    <3>4. ASSUME NEW q \in Proc, q = p
          PROVE  pstate'[q] # "new" /\ ~Suspended(q)'
      BY <1>18, <2>f, <3>4, <1>t DEF Suspended, resume_cb_return, Delivered, procVars
    <3> QED
      BY <3>2, <3>3, <3>4, <1>i DEF NoLostWakeup
  <2> QED
    BY <1>n, <2>1, <2>2, <2>3, <2>4, <2>5, <2>6, <2>7 DEF IInv
<1>19. ASSUME user_cb
      PROVE  IInv'
  <2>e. /\ rest # <<>> /\ rest' = Tail(rest) /\ ctx = "dispatch"
        /\ Head(rest) \in Callback /\ Head(rest).fn = "user"
    BY <1>19, NextCallbackType DEF user_cb, NextCallback, IInv
  <2>f. /\ \A x \in ToSet(rest') : x \in ToSet(rest)
        /\ \A x \in ToSet(rest) : x.fn = "user" \/ x \in ToSet(rest')
    BY <2>e, <1>t, TailToSet
  <2>g. current \notin Proc
    <3>1. SUFFICES ASSUME current \in Proc PROVE FALSE
      OBVIOUS
    <3>2. Head(rest) = Resume(current)
      BY <3>1, <2>e, <1>i DEF CallbacksOK
    <3> QED
      BY <3>2, <2>e DEF Resume
  <2>1. RunningOK'
    BY <1>19, <1>t, <1>i, <2>e
       DEF RunningOK, user_cb, procVars
  <2>2. CallbacksOK'
    <3>1. NoResume(rest) => NoResume(rest')
      BY <2>f, NoResumeSet
    <3> QED
      BY <1>19, <2>g, <3>1, <1>i DEF CallbacksOK, user_cb, evVars
  <2>3. AwaitedOK'
    BY <1>19, <1>t, <1>i, <2>e
       DEF AwaitedOK, user_cb, evVars, procVars, ghosts
  <2>4. PooledAreDead'
    BY <1>19, <1>t, <1>i, <2>e
       DEF PooledAreDead, ToSet, user_cb, procVars
  <2>5. PoolUnused'
    BY <1>19, <1>t, <1>i, <2>e
       DEF PoolUnused, user_cb, evVars, procVars, ghosts
  <2>6. QueuedOnce'
    BY <1>19, <1>t, <1>i, <2>e
       DEF QueuedOnce, user_cb, evVars
  <2>7. NoLostWakeup'
    <3>1. UNCHANGED <<state, cbs, current, yielded, pstate>>
      BY <1>19 DEF user_cb, evVars, procVars
    <3>2. ASSUME NEW q \in Proc PROVE ~ResumeDue(q)
      BY <2>g DEF ResumeDue
    <3>3. ASSUME NEW q \in Proc, Listening(q) PROVE Listening(q)'
      <4>1. Waiter(q).fn # "user"
        BY DEF Waiter
      <4> QED
        BY <2>f, <3>1, <3>3, <4>1 DEF Listening
    <3>4. ASSUME NEW q \in Proc, Suspended(q)' PROVE Suspended(q)
      BY <2>e, <3>1, <3>4 DEF Suspended
    <3> QED
      BY <3>1, <3>2, <3>3, <3>4, <1>i DEF NoLostWakeup, ResumeQueued
  <2> QED
    BY <1>n, <2>1, <2>2, <2>3, <2>4, <2>5, <2>6, <2>7 DEF IInv
<1>20. ASSUME user_cb_return
      PROVE  IInv'
  BY <1>20, <1>i, <1>n
     DEF IInv, RunningOK, CallbacksOK, AwaitedOK, PooledAreDead, PoolUnused,
         QueuedOnce, NoLostWakeup, Suspended, ResumeQueued, ResumeDue, Listening,
         user_cb_return, evVars, procVars, ghosts
<1>21. ASSUME EndDispatch
      PROVE  IInv'
  <2>1. RunningOK'
    BY <1>21, <1>t, <1>i
       DEF RunningOK, EndDispatch, MayRecycle, procVars
  <2>2. CallbacksOK'
    BY <1>21, <1>t, <1>i
       DEF CallbacksOK, NoResume, EndDispatch, MayRecycle
  <2>3. AwaitedOK'
    BY <1>21, <1>t, <1>i
       DEF AwaitedOK, EndDispatch, MayRecycle, procVars, ghosts
  <2>4. PooledAreDead'
    BY <1>21, <1>t, <1>i
       DEF PooledAreDead, ToSet, EndDispatch, MayRecycle, procVars
  <2>5. PoolUnused'
    <3>0. current \in Ev /\ ctx = "dispatch"
      BY <1>21, <1>i DEF ControlOK, EndDispatch, MayRecycle
    <3>1. CASE ~recyclable[current]
      BY <1>21, <3>1, <1>i, <1>t DEF PoolUnused, EndDispatch, MayRecycle, procVars, ghosts
    <3>2. CASE recyclable[current]
      <4>1. /\ current \in Addr /\ state[current] = "processed"
            /\ cbs[current] = <<>>
        BY <3>0, <3>2, <1>i DEF ControlOK, CallbacksOK, Ev
      <4>2. \A p \in Proc : waitOn[p] # current /\ done[p] # current
        BY <4>1, <3>2, <1>i, <1>t DEF AwaitedOK
      <4>3. /\ event_pool' = <<current>> \o event_pool
            /\ UNCHANGED <<state, cbs, recyclable, waitOn, done>>
            /\ current' = NULL
        BY <1>21, <3>2 DEF EndDispatch, MayRecycle, procVars, ghosts
      <4>4. /\ DOMAIN event_pool = 1..Len(event_pool) /\ Len(event_pool) \in Nat
            /\ DOMAIN event_pool' = 1..(Len(event_pool) + 1)
            /\ event_pool'[1] = current
            /\ \A i \in 1..Len(event_pool) : event_pool'[i + 1] = event_pool[i]
        BY <4>1, <4>3, <1>t
      <4>5. ASSUME NEW i \in DOMAIN event_pool', i # 1
            PROVE  i - 1 \in DOMAIN event_pool /\ event_pool'[i] = event_pool[i - 1]
        <5>1. i - 1 \in 1..Len(event_pool) /\ (i - 1) + 1 = i
          BY <4>4, <4>5
        <5> QED
          BY <5>1, <4>4
      <4>6. \A i \in DOMAIN event_pool : event_pool[i] # current /\ event_pool[i] # NULL
        BY <1>i, <1>t DEF PoolUnused
      <4>7. \A i, j \in DOMAIN event_pool' : event_pool'[i] = event_pool'[j] => i = j
        BY <4>4, <4>5, <4>6, <1>i DEF PoolUnused
      <4>8. \A i \in DOMAIN event_pool' :
              event_pool'[i] = current \/ \E j \in DOMAIN event_pool : event_pool'[i] = event_pool[j]
        BY <4>4, <4>5
      <4> QED
        BY <4>1, <4>2, <4>3, <4>6, <4>7, <4>8, <3>2, <1>i DEF PoolUnused
    <3> QED
      BY <3>1, <3>2
  <2>6. QueuedOnce'
    BY <1>21, <1>t, <1>i
       DEF QueuedOnce, EndDispatch, MayRecycle
  <2>7. NoLostWakeup'
    <3>1. /\ UNCHANGED <<state, cbs, yielded, pstate>> /\ rest = <<>>
          /\ ctx' = "loop" /\ ctx = "dispatch"
      BY <1>21 DEF EndDispatch, MayRecycle, procVars
    <3>2. ASSUME NEW q \in Proc PROVE ~ResumeDue(q)
      BY <3>1 DEF ResumeDue
    <3>3. ASSUME NEW q \in Proc, Listening(q) PROVE Listening(q)'
      BY <3>1, <3>3 DEF Listening, ToSet
    <3>4. ASSUME NEW q \in Proc, Suspended(q)' PROVE Suspended(q)
      BY <3>1, <3>4 DEF Suspended
    <3> QED
      BY <3>1, <3>2, <3>3, <3>4, <1>i DEF NoLostWakeup, ResumeQueued
  <2> QED
    BY <1>n, <2>1, <2>2, <2>3, <2>4, <2>5, <2>6, <2>7 DEF IInv
<1>22. CASE Next
  <2>1. CASE Program
    BY <2>1, <1>2, <1>3, <1>4, <1>5, <1>6, <1>7, <1>8, <1>9 DEF Program
  <2>2. CASE Body
    BY <2>2, <1>10, <1>11 DEF Body
  <2>3. CASE StartSomeRun
    BY <2>3, <1>12 DEF StartSomeRun
  <2>4. CASE Library
    BY <2>4, <1>13, <1>14, <1>15, <1>16, <1>17, <1>18, <1>19, <1>21
       DEF Library, FinishRun
  <2>5. CASE LagAbort
    BY <2>5, <1>14 DEF LagAbort
  <2> QED
    BY <1>22, <1>20, <2>1, <2>2, <2>3, <2>4, <2>5 DEF Next
<1> QED
  BY <1>1, <1>22

(* IInv holds in every reachable state.                                    *)
THEOREM Inductive == Spec => []IInv
<1>1. Init => IInv
  BY InitIInv
<1>2. IInv /\ [Next]_vars => IInv'
  BY NextIInv
<1> QED
  BY <1>1, <1>2, PTL DEF Spec

(* No process waits in vain: a new process will be started, a suspended    *)
(* one is being resumed or its waiter_cb is still registered with the      *)
(* event it yielded.                                                       *)
THEOREM Wakeups == Spec => []NoLostWakeup
<1>1. IInv => NoLostWakeup
  BY DEF IInv
<1> QED
  BY <1>1, Inductive, PTL

(* An event is queued exactly once while triggered, and otherwise not.     *)
THEOREM Queueing == Spec => []QueuedOnce
<1>1. IInv => QueuedOnce
  BY DEF IInv
<1> QED
  BY <1>1, Inductive, PTL

(* What an allocation leaves in the pool is recyclable; what it takes was. *)
LEMMA AllocRecyclable ==
  ASSUME IInv, PoolRecyclable, NEW e \in Addr, NEW r \in BOOLEAN,
         _sim_event_alloc(e), recyclable' = [recyclable EXCEPT ![e] = r]
  PROVE  PoolRecyclable' /\ (state[e] = "fresh" \/ recyclable[e])
<1>1. event_pool \in Seq(Addr) /\ recyclable \in [Ev -> BOOLEAN] /\ Addr \subseteq Ev
  BY DEF IInv, TypeOK, Ev
<1>2. PoolRecyclable'
  <2>1. ASSUME NEW i \in DOMAIN event_pool' PROVE recyclable'[event_pool'[i]]
    <3>1. PICK j \in DOMAIN event_pool : event_pool'[i] = event_pool[j]
      BY AllocEffect
    <3>2. event_pool'[i] # e /\ event_pool[j] \in Ev
      BY <1>1, AllocEffect
    <3> QED
      BY <1>1, <3>1, <3>2 DEF PoolRecyclable
  <2> QED
    BY <2>1 DEF PoolRecyclable
<1>3. CASE event_pool = <<>>
  BY <1>2, <1>3 DEF _sim_event_alloc
<1>4. CASE event_pool # <<>>
  <2>1. 1 \in DOMAIN event_pool /\ event_pool[1] = e
    BY <1>1, <1>4 DEF _sim_event_alloc
  <2> QED
    BY <1>2, <2>1 DEF PoolRecyclable
<1> QED
  BY <1>3, <1>4

(* Only EndDispatch fills the pool.                                        *)
LEMMA NextRecyclable ==
  ASSUME IInv, PoolRecyclable, [Next]_vars
  PROVE  PoolRecyclable'
<1>1. ASSUME NEW e \in Addr, NEW s, NEW r \in BOOLEAN, Allocated(e, s, r)
      PROVE  PoolRecyclable'
  BY <1>1, AllocRecyclable DEF Allocated
<1>2. ASSUME UNCHANGED <<event_pool, recyclable>>
      PROVE  PoolRecyclable'
  BY <1>2 DEF PoolRecyclable
<1>3. CASE UNCHANGED vars
  BY <1>2, <1>3 DEF vars, evVars
<1>4. CASE Program
  <2>1. ASSUME NEW e \in Addr, sim_event(e) \/ \E d \in Delays : sim_timeout(e, d)
        PROVE  PoolRecyclable'
    BY <2>1, <1>1 DEF sim_event, sim_timeout
  <2>2. ASSUME NEW p \in Proc, NEW g \in 1..MaxGen, sim_process_event(p, g)
        PROVE  PoolRecyclable'
    <3>1. CASE done[p] # NULL
      BY <2>2, <3>1, <1>2 DEF sim_process_event, evVars
    <3>2. CASE done[p] = NULL
      BY <2>2, <3>2, <1>1 DEF sim_process_event
    <3> QED
      BY <3>1, <3>2
  <2> QED
    BY <1>4, <1>2, <2>1, <2>2
       DEF Program, sim_event_succeed, sim_event_on, sim_process,
           sim_process_interrupt, sim_env_set_realtime, evVars
<1>5. CASE EndDispatch
  <2>1. CASE recyclable[current]
    <3>1. /\ event_pool' = <<current>> \o event_pool /\ recyclable' = recyclable
          /\ current \in Ev /\ event_pool \in Seq(Addr)
      BY <1>5, <2>1 DEF EndDispatch, MayRecycle, IInv, TypeOK, ControlOK
    <3>2. \A i \in DOMAIN event_pool' :
            event_pool'[i] = current \/ \E j \in DOMAIN event_pool : event_pool'[i] = event_pool[j]
      <4>1. <<current>> \in Seq(Ev) /\ event_pool \in Seq(Ev)
        BY <3>1 DEF Ev
      <4>2. /\ DOMAIN event_pool = 1..Len(event_pool) /\ Len(event_pool) \in Nat
            /\ DOMAIN event_pool' = 1..(Len(event_pool) + 1)
            /\ event_pool'[1] = current
            /\ \A i \in 2..(Len(event_pool) + 1) : event_pool'[i] = event_pool[i - 1]
        BY <3>1, <4>1
      <4> QED
        BY <4>2
    <3> QED
      BY <2>1, <3>1, <3>2 DEF PoolRecyclable
  <2>2. CASE ~recyclable[current]
    BY <1>2, <1>5, <2>2 DEF EndDispatch, MayRecycle
  <2> QED
    BY <2>1, <2>2
<1> QED
  BY <1>2, <1>3, <1>4, <1>5
     DEF Next, Body, sim_yield, process_entry_end, StartSomeRun, StartRun, Library,
         LagAbort, FinishRun, Return, sim_step, waiter_cb, resume_cb_dead,
         resume_cb_start, resume_cb_return, user_cb, user_cb_return, evVars

(* _sim_event_alloc never hands out an event somebody still relies on.     *)
THEOREM Recycling == Spec => []PoolIsFree
<1>1. Init => PoolRecyclable
  BY DEF Init, PoolRecyclable
<1>2. IInv /\ PoolRecyclable /\ [Next]_vars => PoolRecyclable'
  BY NextRecyclable
<1>3. IInv /\ PoolRecyclable => PoolIsFree
  BY DEF IInv, PoolIsFree
<1> QED
  BY <1>1, <1>2, <1>3, Inductive, PTL DEF Spec

(* sim_process never reuses the structure of a process that is not dead.   *)
THEOREM ProcessReuse == Spec => []PooledAreDead
<1>1. IInv => PooledAreDead
  BY DEF IInv
<1> QED
  BY <1>1, Inductive, PTL
=============================================================================
