--------------------------- MODULE ProgramProofs ---------------------------
(***************************************************************************)
(* The theorems of the programs Bank and Machine: what the library         *)
(* promises carries over to programs whose resources allocate, trigger and *)
(* recycle events past the kernel; and what a customer or a worker         *)
(* concludes from it is so.                                                *)
(***************************************************************************)
EXTENDS Bank, Machine, ConditionProofs

(* What the library promises: the invariants of kernel and conditions, the *)
(* clock, and the reasons of every wake-up.                                *)
LibraryInv == CondInv /\ Clocked /\ Reasons

-----------------------------------------------------------------------------
(* The library's own steps.                                                *)

(* A step of the kernel that leaves the conditions alone.                  *)
LEMMA KernelLibrary ==
  ASSUME LibraryInv, Next, UNCHANGED condVars, \A c \in Addr : Steady(c)
  PROVE  LibraryInv'
<1>i. IInv /\ CondTypeOK /\ CondOK /\ TypeOK
  BY DEF LibraryInv, CondInv, IInv
<1>1. IInv' /\ TypeOK'
  BY <1>i, NextIInv DEF IInv
<1>2. CondTypeOK'
  BY <1>i DEF CondTypeOK, condVars
<1>3. \A c \in Addr : Sound(c)'
  BY <1>i, <1>1, SteadyIsSound DEF CondOK
<1>4. Clocked'
  BY HostRuns, KernelClocked DEF LibraryInv, condVars
<1>5. Reasons'
  BY <1>i, NextReasons DEF LibraryInv
<1> QED
  BY <1>1, <1>2, <1>3, <1>4, <1>5 DEF LibraryInv, CondInv, CondOK

(* The allocation of an event concerns no process.                         *)
LEMMA AllocatedUntouched ==
  ASSUME IInv, NEW e \in Addr, \A x \in Ev \ {e} : state'[x] = state[x] /\ cbs'[x] = cbs[x],
         UNCHANGED <<pstate, yielded, waitOn, interrupt_pending, resume_value, ctx>>
  PROVE  \A q \in Proc : Untouched(q)
BY AddressesDiffer DEF Untouched, Ev

(* Any step that the model of conditions knows.                            *)
LEMMA CondLibrary ==
  ASSUME LibraryInv, CondNext
  PROVE  LibraryInv'
BY HostRuns, NextCond, NextClocked, NextCondReasons DEF LibraryInv

(* make_cond.                                                              *)
LEMMA MakeLibrary ==
  ASSUME LibraryInv, NEW out \in Addr, NEW evs \in Inputs, NEW any \in BOOLEAN,
         make_cond(out, evs, any)
  PROVE  LibraryInv'
BY CondLibrary DEF CondNext

(* The library at work.                                                    *)
LEMMA RunLibrary == LibraryInv /\ Run => LibraryInv'
BY CondLibrary DEF CondNext

-----------------------------------------------------------------------------
(* The steps of a resource.                                                *)

(* A request is granted at once.                                           *)
Granting(e) ==
  /\ InClient
  /\ Allocated(e, "triggered", FALSE) /\ _sim_event_schedule(e, 0)
  /\ UNCHANGED <<now, envVars, intVars, procVars, ctlVars, ghosts, condVars>>

(* A waiting request is granted, and a request is given back to the pool;  *)
(* either or both of them.                                                 *)
HandingOn(e) ==
  /\ e \in Addr /\ state[e] = "pending" /\ made[e] = NULL
  /\ state' = [state EXCEPT ![e] = "triggered"]
  /\ _sim_event_schedule(e, 0)
GivingBack(r) ==
  /\ r \in Addr /\ state[r] = "processed" /\ made[r] = NULL /\ Unpooled(r)
  /\ r # current /\ \A p \in Proc : done[p] # r
  /\ event_pool' = <<r>> \o event_pool
Releasing ==
  /\ InClient
  /\ UNCHANGED <<state, heap>> \/ \E e \in Addr : HandingOn(e)
  /\ UNCHANGED event_pool \/ \E r \in Addr : GivingBack(r)
  /\ UNCHANGED <<now, cbs, recyclable, envVars, intVars, procVars, ctlVars, ghosts, condVars>>

(* What is left to show of such a step.                                    *)
LEMMA StepLibrary ==
  ASSUME LibraryInv, IInv', UNCHANGED condVars, \A c \in Addr : Steady(c),
         Clocked', Reasons'
  PROVE  LibraryInv'
<1>i. CondTypeOK /\ CondOK /\ TypeOK /\ TypeOK'
  BY DEF LibraryInv, CondInv, IInv
<1>1. CondTypeOK'
  BY <1>i DEF CondTypeOK, condVars
<1>2. \A c \in Addr : Sound(c)'
  BY <1>i, SteadyIsSound DEF CondOK
<1> QED
  BY <1>1, <1>2 DEF LibraryInv, CondInv, CondOK

LEMMA GrantingLibrary ==
  ASSUME LibraryInv, NEW e \in Addr, Granting(e)
  PROVE  LibraryInv'
<1>i. IInv /\ Clocked /\ Reasons /\ CondOK
      /\ state \in [Ev -> {"fresh", "pending", "triggered", "processed"}]
      /\ Addr \subseteq Ev
  BY DEF LibraryInv, CondInv, IInv, TypeOK, Ev
<1>1. IInv'
  BY <1>i, TriggeredIInv DEF Granting
<1>2. \A c \in Addr : Steady(c)
  BY <1>i, AllocatedSteady DEF Granting, procVars, ctlVars
<1>3. Clocked'
  <2>1. state[e] # "triggered"
    BY <1>i, AllocatedEffect DEF Granting
  <2> QED
    BY <1>i, <2>1, TriggerClocked DEF Granting, condVars
<1>4. Reasons'
  <2>1. \A x \in Ev \ {e} : state'[x] = state[x] /\ cbs'[x] = cbs[x]
    <3>1. cbs' = cbs /\ state' = [state EXCEPT ![e] = "triggered"]
      BY <1>i, AllocatedEffect DEF Granting
    <3> QED
      BY <1>i, <3>1
  <2>2. \A q \in Proc : Untouched(q)
    BY <1>i, <2>1, AllocatedUntouched DEF Granting, intVars, procVars, ctlVars, ghosts
  <2> QED
    BY <1>i, <2>2, ClientReasons DEF Granting, ctlVars
<1> QED
  BY <1>1, <1>2, <1>3, <1>4, StepLibrary DEF Granting

LEMMA ReleasingIInv == IInv /\ Releasing => IInv'
<1> SUFFICES ASSUME IInv, Releasing PROVE IInv'
  OBVIOUS
<1> USE AddressesDiffer
<1>t. /\ state \in [Ev -> {"fresh", "pending", "triggered", "processed"}]
      /\ cbs \in [Ev -> Seq(Callback)] /\ event_pool \in Seq(Addr)
      /\ Addr \subseteq Ev /\ Proc \subseteq Ev /\ TypeOK
  BY DEF IInv, TypeOK, Ev
<1>i. /\ ControlOK /\ RunningOK /\ CallbacksOK /\ AwaitedOK /\ PooledAreDead
      /\ PoolUnused /\ QueuedOnce /\ NoLostWakeup
  BY DEF IInv
<1>u. UNCHANGED <<now, cbs, recyclable, envVars, intVars, procVars, ctlVars, ghosts>>
  BY DEF Releasing
<1>1. /\ \A x \in Ev : state'[x] = state[x] \/ (x \in Addr /\ state[x] = "pending"
                                                 /\ state'[x] = "triggered")
      /\ state' \in [Ev -> {"fresh", "pending", "triggered", "processed"}]
      /\ \A p \in Proc : state'[p] = state[p]
  BY <1>t DEF Releasing, HandingOn
<1>2. heap' \in Seq(Entry(Ev)) /\ QueuedOnce'
  <2>1. ASSUME NEW e \in Addr, HandingOn(e)
        PROVE  heap' \in Seq(Entry(Ev)) /\ QueuedOnce'
    BY <2>1, <1>t, ScheduleType, ScheduleEffect DEF HandingOn
  <2>2. CASE UNCHANGED <<state, heap>>
    BY <2>2, <1>t, <1>i DEF TypeOK, QueuedOnce
  <2> QED
    BY <2>1, <2>2 DEF Releasing
<1>3. event_pool' \in Seq(Addr) /\ PoolUnused'
  <2>0. \A i \in DOMAIN event_pool : event_pool[i] \in Ev
    BY <1>t
  <2>1. CASE UNCHANGED event_pool
    BY <1>u, <1>t, <1>i, <1>1, <2>0, <2>1 DEF PoolUnused, procVars, ctlVars, ghosts
  <2>2. ASSUME NEW r \in Addr, GivingBack(r)
        PROVE  event_pool' \in Seq(Addr) /\ PoolUnused'
    <3>1. /\ event_pool' \in Seq(Addr)
          /\ \A i \in DOMAIN event_pool' :
               event_pool'[i] = r \/ \E j \in DOMAIN event_pool : event_pool'[i] = event_pool[j]
          /\ \A i, j \in DOMAIN event_pool' : event_pool'[i] = event_pool'[j] => i = j
      <4>1. LET t == <<r>> \o event_pool
            IN  /\ t \in Seq(Addr)
                /\ \A i \in DOMAIN t : t[i] = r \/ \E j \in DOMAIN event_pool : t[i] = event_pool[j]
                /\ (\A i \in DOMAIN event_pool : event_pool[i] # r)
                     /\ (\A i, j \in DOMAIN event_pool : event_pool[i] = event_pool[j] => i = j)
                     => \A i, j \in DOMAIN t : t[i] = t[j] => i = j
        BY <1>t, PushElements
      <4>2. event_pool' = <<r>> \o event_pool /\ \A i \in DOMAIN event_pool : event_pool[i] # r
        BY <2>2 DEF GivingBack, Unpooled
      <4> QED
        BY <4>1, <4>2, <1>i DEF PoolUnused
    <3>2. /\ state[r] = "processed" /\ r # current /\ cbs[r] = <<>> /\ r \in Ev
          /\ \A p \in Proc : waitOn[p] # r /\ done[p] # r
      BY <2>2, <1>t, <1>i DEF GivingBack, CallbacksOK, AwaitedOK
    <3>3. ASSUME NEW x \in Ev, state[x] = "processed" PROVE state'[x] = "processed"
      BY <1>1, <3>3
    <3>4. ASSUME NEW i \in DOMAIN event_pool'
          PROVE  LET x == event_pool'[i] IN
                   /\ state[x] = "processed" /\ cbs[x] = <<>> /\ x \in Ev
                   /\ x # current /\ \A p \in Proc : waitOn[p] # x /\ done[p] # x
      BY <1>i, <2>0, <3>1, <3>2 DEF PoolUnused
    <3> QED
      BY <1>u, <3>1, <3>3, <3>4 DEF PoolUnused, procVars, ctlVars, ghosts
  <2> QED
    BY <2>1, <2>2 DEF Releasing
<1>4. TypeOK'
  BY <1>t, <1>u, <1>1, <1>2, <1>3
     DEF TypeOK, envVars, intVars, procVars, ctlVars, ghosts
<1>5. ControlOK' /\ RunningOK'
  BY <1>u, <1>i DEF ControlOK, RunningOK, procVars, ctlVars
<1>6. CallbacksOK'
  BY <1>u, <1>1, <1>i, <1>t DEF CallbacksOK, ctlVars
<1>7. AwaitedOK'
  BY <1>u, <1>1, <1>i, <1>t DEF AwaitedOK, procVars, ghosts, TypeOK
<1>8. PooledAreDead'
  BY <1>u, <1>i DEF PooledAreDead, procVars
<1>9. NoLostWakeup'
  <2>1. \A p \in Proc : /\ ResumeQueued(p)' <=> ResumeQueued(p)
                        /\ ResumeDue(p)' <=> ResumeDue(p)
    BY <1>u, <1>1 DEF ResumeQueued, ResumeDue, ctlVars
  <2>2. \A p \in Proc : Listening(p) => Listening(p)'
    BY <1>u, <1>1, <1>t DEF Listening, procVars, ctlVars
  <2> QED
    BY <1>u, <1>i, <2>1, <2>2 DEF NoLostWakeup, Suspended, procVars, ctlVars
<1> QED
  BY <1>2, <1>3, <1>4, <1>5, <1>6, <1>7, <1>8, <1>9 DEF IInv

LEMMA ReleasingLibrary == LibraryInv /\ Releasing => LibraryInv'
<1> SUFFICES ASSUME LibraryInv, Releasing PROVE LibraryInv'
  OBVIOUS
<1>i. IInv /\ Clocked /\ Reasons /\ CondOK
      /\ state \in [Ev -> {"fresh", "pending", "triggered", "processed"}]
      /\ event_pool \in Seq(Addr) /\ Addr \subseteq Ev /\ Proc \subseteq Ev
  BY DEF LibraryInv, CondInv, IInv, TypeOK, Ev
<1>1. IInv'
  BY <1>i, ReleasingIInv
<1>2. ASSUME NEW c \in Addr PROVE Steady(c)
  <2>1. made[c] # NULL => state'[c] = state[c]
    BY <1>i DEF Releasing, HandingOn
  <2>2. made[c] # NULL => Unpooled(c)'
    <3>1. CASE UNCHANGED event_pool
      BY <1>i, <3>1 DEF CondOK, Sound, Unpooled
    <3>2. ASSUME NEW r \in Addr, GivingBack(r), made[c] # NULL PROVE Unpooled(c)'
      <4>1. LET t == <<r>> \o event_pool
            IN  \A i \in DOMAIN t : t[i] = r \/ \E j \in DOMAIN event_pool : t[i] = event_pool[j]
        BY <1>i, PushElements
      <4>2. event_pool' = <<r>> \o event_pool /\ c # r
        BY <3>2 DEF GivingBack
      <4>3. \A j \in DOMAIN event_pool : event_pool[j] # c
        BY <1>i, <3>2 DEF CondOK, Sound, Unpooled
      <4> QED
        BY <4>1, <4>2, <4>3 DEF Unpooled
    <3> QED
      BY <3>1, <3>2 DEF Releasing
  <2>3. UNCHANGED <<cbs, rest, recyclable, done, condVars>>
    BY DEF Releasing, procVars, ctlVars
  <2> QED
    BY <1>i, <2>1, <2>2, <2>3 DEF Steady, CondOK, Sound, condVars
<1>3. Clocked'
  <2>1. now' = now /\ UNCHANGED made
    BY DEF Releasing, condVars
  <2>2. CASE UNCHANGED heap
    BY <1>i, <2>1, <2>2 DEF Clocked, ResumeAtOnce, Timely
  <2>3. ASSUME NEW e \in Addr, HandingOn(e) PROVE Clocked'
    BY <1>i, <2>1, <2>3, TriggerClocked DEF HandingOn
  <2> QED
    BY <2>2, <2>3 DEF Releasing
<1>4. Reasons'
  <2>1. \A q \in Proc : state'[q] = state[q]
    BY <1>i, AddressesDiffer DEF Releasing, HandingOn
  <2>2. \A q \in Proc : Untouched(q)
    BY <2>1 DEF Releasing, Untouched, intVars, procVars, ctlVars, ghosts
  <2> QED
    BY <1>i, <2>2, ClientReasons DEF Releasing, ctlVars
<1> QED
  BY <1>1, <1>2, <1>3, <1>4, StepLibrary DEF Releasing

-----------------------------------------------------------------------------
(* The steps of a program.                                                 *)

(* An event that nobody gives away or is given: a request in use.          *)
Owned(e) ==
  /\ e \in Addr /\ state[e] # "fresh" /\ ~recyclable[e] /\ Unpooled(e)
  /\ made[e] = NULL

(* It stays so, and is processed at most.                                  *)
Sparing ==
  \A e \in Addr : Owned(e) =>
    /\ Owned(e)'
    /\ state'[e] = state[e] \/ (state[e] = "triggered" /\ state'[e] = "processed")

(* A step that gives away no event spares the requests.                    *)
LEMMA QuietSpares ==
  ASSUME UNCHANGED <<recyclable, event_pool, made>>,
         \A e \in Addr : Owned(e) => state'[e] = state[e]
  PROVE  Sparing
BY DEF Sparing, Owned, Unpooled

(* So does an allocation.                                                  *)
LEMMA AllocSpares ==
  ASSUME IInv, NEW e \in Addr, _sim_event_alloc(e),
         \A x \in Addr \ {e} : /\ state'[x] = state[x] /\ recyclable'[x] = recyclable[x]
                               /\ made'[x] = made[x]
  PROVE  ~Owned(e) /\ Sparing
<1>1. state[e] = "fresh" \/ ~Unpooled(e)
  BY AllocTakes
<1>2. \A c : Unpooled(c) => Unpooled(c)'
  BY AllocTakes
<1> QED
  BY <1>1, <1>2 DEF Owned, Sparing

LEMMA AllocatedSpares ==
  ASSUME IInv, NEW e \in Addr, NEW s \in {"pending", "triggered"}, NEW r \in BOOLEAN,
         Allocated(e, s, r), UNCHANGED made
  PROVE  /\ ~Owned(e) /\ Sparing
         /\ state'[e] = s /\ recyclable'[e] = r /\ Unpooled(e)'
<1>1. /\ state \in [Ev -> {"fresh", "pending", "triggered", "processed"}]
      /\ recyclable \in [Ev -> BOOLEAN] /\ Addr \subseteq Ev
  BY DEF IInv, TypeOK, Ev
<1>2. /\ _sim_event_alloc(e) /\ state' = [state EXCEPT ![e] = s]
      /\ recyclable' = [recyclable EXCEPT ![e] = r]
  BY DEF Allocated
<1> QED
  BY <1>1, <1>2, AllocSpares, AllocTakes

LEMMA NewIsEvent == IInv /\ _sim_event_alloc(New) => New \in Addr
BY DEF IInv, TypeOK, _sim_event_alloc, New

(* sim_event, when a request has to wait.                                  *)
LEMMA EventLibrary ==
  ASSUME LibraryInv, NEW e \in Addr, sim_event(e), UNCHANGED condVars
  PROVE  LibraryInv'
<1>1. Next /\ Allocated(e, "pending", FALSE) /\ UNCHANGED <<rest, done>>
  BY DEF Next, Program, sim_event, ctlVars, procVars
<1>2. IInv /\ CondOK
  BY DEF LibraryInv, CondInv
<1>3. \A c \in Addr : Steady(c)
  BY <1>1, <1>2, AllocatedSteady
<1> QED
  BY <1>1, <1>3, KernelLibrary

LEMMA TimeoutLibrary ==
  ASSUME LibraryInv, NEW e \in Addr, NEW d \in Delays, sim_timeout(e, d),
         UNCHANGED condVars
  PROVE  LibraryInv'
<1>1. Next /\ Allocated(e, "triggered", TRUE) /\ UNCHANGED <<rest, done>>
  BY DEF Next, Program, sim_timeout, ctlVars, procVars
<1>2. IInv /\ CondOK
  BY DEF LibraryInv, CondInv
<1>3. \A c \in Addr : Steady(c)
  BY <1>1, <1>2, AllocatedSteady
<1> QED
  BY <1>1, <1>3, KernelLibrary

LEMMA BodyLibrary ==
  ASSUME LibraryInv, Body, UNCHANGED condVars
  PROVE  LibraryInv'
<1>1. Next /\ IInv /\ CondOK
  BY DEF Next, LibraryInv, CondInv
<1> QED
  BY <1>1, BodySteady, KernelLibrary

LEMMA StartLibrary ==
  ASSUME LibraryInv, NEW p \in Proc, sim_process(p), UNCHANGED condVars
  PROVE  LibraryInv' /\ Sparing
<1>1. Next /\ IInv /\ CondOK
  BY DEF Next, Program, LibraryInv, CondInv
<1>2. /\ schedule_resume(p, NULL)
      /\ UNCHANGED <<recyclable, event_pool, rest, made>>
      /\ done' = [done EXCEPT ![p] = NULL]
  BY DEF sim_process, ctlVars, condVars
<1>3. /\ done \in [Proc -> Addr \cup {NULL}]
      /\ state \in [Ev -> {"fresh", "pending", "triggered", "processed"}]
      /\ \A a \in Addr : a \in Ev /\ a # p
  BY <1>1, AddressesDiffer DEF IInv, TypeOK, Ev
<1>4. \A q \in Proc : done'[q] = done[q] \/ done'[q] = NULL
  BY <1>2, <1>3
<1>5. \A c \in Addr : Steady(c)
  BY <1>1, <1>2, <1>4, ResumeSteady
<1>6. \A a \in Addr : state'[a] = state[a]
  <2>1. state' = [state EXCEPT ![p] = "triggered"]
    BY <1>1, <1>2, ScheduleResumeEffect
  <2> QED
    BY <2>1, <1>3
<1> QED
  BY <1>1, <1>2, <1>5, <1>6, KernelLibrary, QuietSpares

LEMMA HostLibrary ==
  ASSUME LibraryInv, StartRun("run", 0), UNCHANGED condVars
  PROVE  LibraryInv' /\ Sparing
<1>1. "run" \in RunModes /\ 0 \in Untils("run")
  BY HostRuns DEF Untils
<1>2. StartSomeRun /\ Next /\ IInv /\ CondOK
  BY <1>1 DEF StartSomeRun, Next, LibraryInv, CondInv
<1>3. UNCHANGED <<recyclable, event_pool, state, made>>
  BY DEF StartRun, evVars, condVars
<1> QED
  BY <1>2, <1>3, LibrarySteady, KernelLibrary, QuietSpares

(* A body that yields or ends.                                             *)
LEMMA BodySpares ==
  ASSUME IInv, NEW p \in Proc, UNCHANGED condVars,
         \/ \E e \in Addr : sim_yield(p, e)
         \/ process_entry_end(p) /\ done[p] = NULL
  PROVE  Sparing
<1>1. /\ state \in [Ev -> {"fresh", "pending", "triggered", "processed"}]
      /\ \A a \in Addr : a \in Ev /\ a # p
  BY AddressesDiffer DEF IInv, TypeOK, Ev
<1>2. CASE process_entry_end(p) /\ done[p] = NULL
  BY <1>2, QuietSpares DEF process_entry_end, condVars
<1>3. ASSUME NEW e \in Addr, sim_yield(p, e) PROVE Sparing
  <2>1. UNCHANGED <<recyclable, event_pool, made>>
    BY <1>3 DEF sim_yield, condVars
  <2>2. CASE state[e] = "processed"
    <3>1. state' = [state EXCEPT ![p] = "triggered"]
      BY <1>3, <2>2, ScheduleResumeEffect DEF sim_yield
    <3> QED
      BY <1>1, <2>1, <3>1, QuietSpares
  <2>3. CASE state[e] # "processed"
    BY <1>3, <2>1, <2>3, QuietSpares DEF sim_yield
  <2> QED
    BY <2>2, <2>3
<1> QED
  BY <1>2, <1>3

(* make_cond.                                                              *)
LEMMA MakeSpares ==
  ASSUME LibraryInv, NEW out \in Addr, NEW evs \in Inputs, NEW any \in BOOLEAN,
         make_cond(out, evs, any)
  PROVE  Sparing
<1>1. /\ IInv /\ state \in [Ev -> {"fresh", "pending", "triggered", "processed"}]
      /\ recyclable \in [Ev -> BOOLEAN] /\ Addr \subseteq Ev
      /\ made \in [Addr -> Condition \cup {NULL}]
  BY DEF LibraryInv, CondInv, CondTypeOK, IInv, TypeOK, Ev
<1>2. /\ _sim_event_alloc(out) /\ recyclable' = [recyclable EXCEPT ![out] = FALSE]
      /\ \/ state' = [state EXCEPT ![out] = "triggered"]
         \/ state' = [state EXCEPT ![out] = "pending"]
      /\ \E m : made' = [made EXCEPT ![out] = m]
  BY <1>1, MakeEffect
<1> QED
  BY <1>1, <1>2, AllocSpares

(* The library at work: a request is processed at most.                    *)
LEMMA RunSpares == LibraryInv /\ Run => Sparing
<1> SUFFICES ASSUME LibraryInv, Run PROVE Sparing
  OBVIOUS
<1>t. /\ IInv /\ CondTypeOK /\ CondOK
      /\ state \in [Ev -> {"fresh", "pending", "triggered", "processed"}]
      /\ event_pool \in Seq(Addr) /\ rest \in Seq(Callback)
      /\ Addr \subseteq Ev /\ \A a \in Addr : a \notin Proc
  BY AddressesDiffer DEF LibraryInv, CondInv, IInv, TypeOK, Ev
<1>1. CASE sim_step /\ made' = Noted(current') /\ UNCHANGED cond
  <2>1. PICK e \in Ev : state[e] = "triggered" /\ state' = [state EXCEPT ![e] = "processed"]
    BY <1>1, <1>t, StepTakes
  <2>2. UNCHANGED <<recyclable, event_pool>>
    BY <1>1 DEF sim_step
  <2>3. \A a \in Addr : made[a] = NULL => made'[a] = NULL
    BY <1>1 DEF Noted
  <2> QED
    BY <1>t, <2>1, <2>2, <2>3 DEF Sparing, Owned, Unpooled
<1>2. CASE cond_cb
  <2>1. PICK out \in Addr :
          /\ rest # <<>> /\ Head(rest) = Cond(out)
          /\ UNCHANGED state \/ state' = [state EXCEPT ![out] = "triggered"]
    BY <1>2, <1>t, CondCbEffect
  <2>2. UNCHANGED <<recyclable, event_pool, made>>
    BY <1>2 DEF cond_cb
  <2>3. made[out] # NULL
    <3>1. Cardinality(Calls(rest, out)) >= 1
      BY <2>1, <1>t, CallsTail
    <3>2. Calls(rest, out) # {}
      BY <3>1, <1>t, CallsFinite
    <3> QED
      BY <3>2, <1>t DEF CondOK, Sound, Idle
  <2> QED
    BY <1>t, <2>1, <2>2, <2>3, QuietSpares DEF Owned
<1>3. CASE waiter_cb /\ UNCHANGED condVars
  <2>1. UNCHANGED <<recyclable, event_pool, made>>
    BY <1>3 DEF waiter_cb, condVars
  <2>2. PICK p \in Proc : p = Head(rest).user
    BY <1>3, <1>t, NextCallbackType DEF waiter_cb, IInv
  <2>3. UNCHANGED state \/ state' = [state EXCEPT ![p] = "triggered"]
    BY <1>3, <1>t, <2>2, ScheduleResumeEffect DEF waiter_cb
  <2> QED
    BY <1>t, <2>1, <2>3, QuietSpares
<1>4. CASE EndDispatch /\ UNCHANGED condVars
  <2>1. UNCHANGED <<recyclable, state, made>>
    BY <1>4 DEF EndDispatch, condVars
  <2>2. ASSUME NEW a \in Addr, Owned(a) PROVE Unpooled(a)'
    <3>1. CASE recyclable[current]
      <4>1. current \in Addr
        BY <1>4, <1>t, <3>1 DEF IInv, ControlOK, EndDispatch, Ev
      <4>2. \A i \in DOMAIN event_pool' :
              event_pool'[i] = current \/ \E j \in DOMAIN event_pool : event_pool'[i] = event_pool[j]
        BY <1>4, <1>t, <3>1, <4>1, PushElements DEF EndDispatch, MayRecycle
      <4> QED
        BY <2>2, <3>1, <4>2 DEF Owned, Unpooled
    <3>2. CASE ~recyclable[current]
      BY <1>4, <2>2, <3>2 DEF EndDispatch, MayRecycle, Owned, Unpooled
    <3> QED
      BY <3>1, <3>2
  <2> QED
    BY <2>1, <2>2 DEF Sparing, Owned
<1>5. CASE /\ \/ FinishRun \/ LagAbort \/ user_cb \/ resume_cb_dead
              \/ resume_cb_start \/ resume_cb_return
           /\ UNCHANGED condVars
  <2>1. UNCHANGED <<recyclable, event_pool, made, state>>
    BY <1>5 DEF FinishRun, LagAbort, Return, user_cb, resume_cb_dead, resume_cb_start,
                resume_cb_return, evVars, condVars
  <2> QED
    BY <2>1, QuietSpares
<1> QED
  BY <1>1, <1>2, <1>3, <1>4, <1>5 DEF Run

(* It switches to a process, which it starts or resumes, or to none.       *)
LEMMA RunControl ==
  ASSUME IInv, Run
  PROVE  /\ ctx \notin Proc /\ UNCHANGED <<done, watches>>
         /\ \A q \in Proc :
              /\ interrupt_pending'[q] => interrupt_pending[q]
              /\ \/ pstate'[q] = pstate[q]
                 \/ pstate[q] = "new" /\ pstate'[q] = "running" /\ ctx' = q
<1>t. /\ pstate \in [Proc -> {"unborn", "new", "running", "dead"}]
      /\ interrupt_pending \in [Proc -> BOOLEAN]
  BY DEF IInv, TypeOK
<1>1. CASE \/ sim_step \/ cond_cb \/ FinishRun \/ LagAbort \/ waiter_cb \/ user_cb
           \/ EndDispatch \/ resume_cb_dead
  <2>1. UNCHANGED <<done, watches, interrupt_pending, pstate>> /\ ctx \notin Proc
    BY <1>1, AddressesDiffer
       DEF sim_step, cond_cb, FinishRun, LagAbort, Return, waiter_cb, user_cb,
           EndDispatch, resume_cb_dead, NextCallback, procVars, intVars, ghosts
  <2> QED
    BY <2>1
<1>2. CASE resume_cb_start \/ resume_cb_return
  <2>1. UNCHANGED <<done, watches>> /\ ctx \notin Proc /\ Head(rest).user \in Proc
    BY <1>2, AddressesDiffer, ResumeIsCurrent
       DEF resume_cb_start, resume_cb_return, NextCallback, ghosts
  <2> QED
    BY <1>2, <1>t, <2>1 DEF resume_cb_start, resume_cb_return, Delivered, intVars, procVars
<1> QED
  BY <1>1, <1>2 DEF Run

-----------------------------------------------------------------------------
(* The bank: who is where.                                                 *)

(* The lines of a customer who has a request.                              *)
Asked == {"patience", "either", "wait", "choose", "service", "release"}

BankTypes ==
  /\ pc \in [Proc -> BankStages \cup {NULL}] /\ limit \in [Proc -> Nat]
  /\ req \in [Proc -> Addr \cup {NULL}] /\ ev \in [Proc -> Addr \cup {NULL}]
  /\ queue \in Seq(Addr)

(* Nobody asks for the end of a process.                                   *)
Quiet == watches = {} /\ \A p \in Proc : done[p] = NULL

(* A process is at a line of the program as long as it lives, and while it *)
(* does not run it is at its first line or behind a sim_yield.             *)
Life(p) ==
  /\ pc[p] # NULL <=> pstate[p] \in {"new", "running"}
  /\ pstate[p] = "new" => pc[p] \in {"source", "customer"}
  /\ pstate[p] = "running" /\ ctx # p => pc[p] \in {"source", "choose", "release"}
  /\ ~interrupt_pending[p]

(* A customer's request is his own, and waits in the line or was granted;  *)
(* before and after he has none.                                           *)
Mine(p) ==
  /\ pc[p] \in Asked =>
       Owned(req[p]) /\ (state[req[p]] = "pending" <=> req[p] \in ToSet(queue))
  /\ pc[p] \in {"service", "release"} => state[req[p]] = "processed"
  /\ pc[p] = "either" => ev[p] \in Addr /\ state[ev[p]] = "triggered"
  /\ pc[p] = "leave" => ~Unpooled(req[p])
  /\ pc[p] \notin Asked \cup {"leave"} => req[p] = NULL

Apart ==
  \A p, q \in Proc : pc[p] \in Asked /\ pc[q] \in Asked /\ req[p] = req[q] => p = q

(* Nothing but requests that wait is in the line.                          *)
Line == IsInjective(queue) /\ \A e \in ToSet(queue) : Owned(e) /\ state[e] = "pending"

(* Every customer whose request was granted holds one of the slots taken.  *)
Granted == {p \in Proc : pc[p] \in Asked /\ state[req[p]] # "pending"}

Slots ==
  /\ IsFiniteSet(Granted) /\ in_use \in Nat
  /\ Cardinality(Granted) <= in_use /\ in_use <= capacity

BankInv ==
  /\ LibraryInv /\ BankTypes /\ Quiet
  /\ \A p \in Proc : Life(p) /\ Mine(p)
  /\ Apart /\ Line /\ Slots

(* A step that spares the requests and concerns neither line nor slots.    *)
LEMMA StepBank ==
  ASSUME BankInv, LibraryInv', BankTypes', Quiet', Sparing, UNCHANGED <<queue, in_use>>,
         \A q \in Proc : Life(q)' /\ Mine(q)',
         \A q \in Proc : pc'[q] \in Asked => pc[q] \in Asked /\ req'[q] = req[q]
  PROVE  BankInv'
<1>1. Apart'
  BY DEF BankInv, Apart
<1>2. Line'
  BY DEF BankInv, Line, Sparing, Owned
<1>3. Slots'
  <2>1. Granted' \subseteq Granted
    BY DEF BankInv, Granted, Mine, Sparing
  <2> QED
    BY <2>1, FS_Subset, FS_CardinalityType, CapacityIsNatural DEF BankInv, Slots
<1> QED
  BY <1>1, <1>2, <1>3 DEF BankInv

(* A customer who does not run.                                            *)
LEMMA IdleMine ==
  ASSUME BankInv, NEW q \in Proc, ctx # q, pc'[q] = pc[q], req'[q] = req[q],
         pc[q] \in Asked =>
           /\ Owned(req[q])' /\ (state'[req[q]] = "pending" <=> req[q] \in ToSet(queue'))
           /\ state[req[q]] = "processed" => state'[req[q]] = "processed"
  PROVE  Mine(q)'
<1>1. pc[q] \notin {"either", "leave"}
  <2>1. Life(q) /\ pstate[q] \in {"unborn", "new", "running", "dead"}
    BY DEF BankInv, LibraryInv, CondInv, IInv, TypeOK
  <2> QED
    BY <2>1, NullIsNoBankStage DEF Life, BankStages
<1>2. Mine(q)
  BY DEF BankInv
<1> QED
  BY <1>1, <1>2 DEF Mine, Owned, Asked

LEMMA OtherMine ==
  ASSUME BankInv, NEW q \in Proc, ctx # q, Sparing, UNCHANGED queue,
         pc'[q] = pc[q], req'[q] = req[q]
  PROVE  Mine(q)'
<1>1. Mine(q)
  BY DEF BankInv
<1>2. pc[q] \in Asked => /\ Owned(req[q])'
                         /\ state'[req[q]] = "pending" <=> state[req[q]] = "pending"
                         /\ state[req[q]] = "processed" => state'[req[q]] = "processed"
  BY <1>1 DEF Mine, Sparing, Owned
<1> QED
  BY <1>1, <1>2, IdleMine DEF Mine

(* A step of process p.                                                    *)
LEMMA OwnStep ==
  ASSUME BankInv, NEW p \in Proc, ctx = p, LibraryInv', BankTypes', Quiet', Sparing,
         UNCHANGED <<queue, in_use>>, Life(p)', Mine(p)',
         \A q \in Proc \ {p} : /\ pc'[q] = pc[q] /\ req'[q] = req[q] /\ ctx' # q
                               /\ pstate'[q] = pstate[q]
                               /\ interrupt_pending'[q] = interrupt_pending[q],
         pc'[p] \in Asked => pc[p] \in Asked /\ req'[p] = req[p]
  PROVE  BankInv'
<1>1. ASSUME NEW q \in Proc \ {p} PROVE Life(q)' /\ Mine(q)'
  <2>1. Mine(q)'
    BY OtherMine
  <2> QED
    BY <2>1 DEF BankInv, Life
<1> QED
  BY <1>1, StepBank

-----------------------------------------------------------------------------
(* The bank, step by step.                                                 *)

LEMMA TimeoutBank ==
  ASSUME BankInv, NEW p \in Proc, NEW here, NEW there \in BankStages, NEW times,
         times \subseteq Delays, Timeout(p, here, times, there), UNCHANGED <<in_use, queue>>,
         here \in Asked <=> there \in Asked, here # "leave", there # "leave",
         there \in {"service", "release"} => state[req[p]] = "processed"
  PROVE  BankInv'
<1>i. /\ LibraryInv /\ IInv /\ BankTypes /\ Quiet /\ Life(p) /\ Mine(p)
      /\ now \in Nat /\ ctx = p /\ pc[p] = here /\ pstate[p] = "running"
  BY DEF BankInv, LibraryInv, CondInv, IInv, TypeOK, RunningOK, Timeout, At
<1>1. PICK d \in times : sim_timeout(New, d) /\ limit' = [limit EXCEPT ![p] = now + d]
  BY DEF Timeout
<1>2. /\ Allocated(New, "triggered", TRUE)
      /\ UNCHANGED <<condVars, made, done, watches, ctx, pstate, interrupt_pending, req>>
      /\ ev' = [ev EXCEPT ![p] = New] /\ pc' = [pc EXCEPT ![p] = there]
      /\ d \in Delays /\ d \in Nat
  BY <1>1, BoundsAreNaturals
     DEF Timeout, sim_timeout, condVars, intVars, procVars, ctlVars, ghosts
<1>3. New \in Addr
  BY <1>i, <1>2, NewIsEvent DEF Allocated
<1>4. LibraryInv'
  BY <1>i, <1>1, <1>2, <1>3, TimeoutLibrary
<1>5. Sparing /\ ~Owned(New) /\ state'[New] = "triggered"
  BY <1>i, <1>2, <1>3, AllocatedSpares
<1>6. BankTypes'
  BY <1>i, <1>1, <1>2, <1>3 DEF BankTypes
<1>7. /\ pc'[p] = there /\ ev'[p] = New
      /\ \A q \in Proc \ {p} : pc'[q] = pc[q]
  BY <1>i, <1>2 DEF BankTypes
<1>8. Life(p)' /\ Quiet'
  BY <1>i, <1>2, <1>7, NullIsNoBankStage DEF Life, Quiet
<1>9. Mine(p)'
  <2>1. there \in Asked =>
          /\ Owned(req[p])'
          /\ state'[req[p]] = "pending" <=> req[p] \in ToSet(queue)
          /\ state[req[p]] = "processed" => state'[req[p]] = "processed"
    BY <1>i, <1>2, <1>5 DEF Mine, Sparing, Owned
  <2> QED
    BY <1>i, <1>2, <1>3, <1>5, <1>7, <2>1 DEF Mine, Owned, Asked
<1> QED
  BY <1>i, <1>2, <1>4, <1>5, <1>6, <1>7, <1>8, <1>9, OwnStep

LEMMA YieldBank ==
  ASSUME BankInv, NEW p \in Proc, NEW here, NEW there \in {"source", "choose", "release"},
         NEW e, Yield(p, here, e, there), UNCHANGED <<in_use, queue>>,
         here \in Asked <=> there \in Asked, here # "leave",
         there = "release" => here = "service"
  PROVE  BankInv'
<1>i. /\ LibraryInv /\ IInv /\ BankTypes /\ Quiet /\ Life(p) /\ Mine(p)
      /\ ctx = p /\ pc[p] = here /\ pstate[p] = "running"
  BY DEF BankInv, LibraryInv, CondInv, IInv, RunningOK, Yield, At
<1>1. /\ sim_yield(p, e) /\ e \in Addr
      /\ UNCHANGED <<condVars, done, watches, pstate, interrupt_pending, req, ev, limit>>
      /\ pc' = [pc EXCEPT ![p] = there] /\ ctx' = "dispatch"
  BY DEF Yield, sim_yield, intVars
<1>2. Sparing
  BY <1>i, <1>1, BodySpares
<1>3. LibraryInv'
  BY <1>i, <1>1, BodyLibrary DEF Body
<1>4. there \in BankStages /\ there # NULL /\ there \notin {"either", "leave", "service"}
      /\ \A q \in Proc : q # "dispatch"
  BY NullIsNoBankStage, AddressesDiffer DEF BankStages
<1>5. BankTypes' /\ pc'[p] = there /\ \A q \in Proc \ {p} : pc'[q] = pc[q]
  BY <1>i, <1>1, <1>4 DEF BankTypes
<1>6. Life(p)' /\ Quiet'
  BY <1>i, <1>1, <1>4, <1>5 DEF Life, Quiet
<1>7. Mine(p)'
  <2>1. there \in Asked =>
          /\ Owned(req[p])'
          /\ state'[req[p]] = "pending" <=> req[p] \in ToSet(queue)
          /\ state[req[p]] = "processed" => state'[req[p]] = "processed"
    BY <1>i, <1>1, <1>2 DEF Mine, Sparing, Owned
  <2> QED
    BY <1>i, <1>1, <1>4, <1>5, <2>1 DEF Mine, Owned, Asked
<1> QED
  BY <1>i, <1>1, <1>2, <1>3, <1>4, <1>5, <1>6, <1>7, OwnStep

LEMMA EndBank ==
  ASSUME BankInv, NEW p \in Proc, NEW here, End(p, here), UNCHANGED <<in_use, queue>>
  PROVE  BankInv'
<1>i. /\ LibraryInv /\ IInv /\ BankTypes /\ Quiet /\ Life(p) /\ Mine(p)
      /\ ctx = p /\ pc[p] = here /\ pstate[p] = "running"
      /\ pstate \in [Proc -> {"unborn", "new", "running", "dead"}]
  BY DEF BankInv, LibraryInv, CondInv, IInv, RunningOK, End, At, TypeOK
<1>1. /\ process_entry_end(p) /\ done[p] = NULL
      /\ UNCHANGED <<condVars, done, watches, interrupt_pending, limit>>
      /\ pc' = [pc EXCEPT ![p] = NULL] /\ req' = [req EXCEPT ![p] = NULL]
      /\ ev' = [ev EXCEPT ![p] = NULL]
      /\ ctx' = "dispatch" /\ pstate' = [pstate EXCEPT ![p] = "dead"]
  BY <1>i DEF End, process_entry_end, intVars, ghosts, Quiet
<1>2. Sparing
  BY <1>i, <1>1, BodySpares
<1>3. LibraryInv'
  BY <1>i, <1>1, BodyLibrary DEF Body
<1>4. NULL \notin Asked \cup {"leave"} /\ \A q \in Proc : q # "dispatch"
  BY NullIsNoBankStage, AddressesDiffer DEF BankStages, Asked
<1>5. /\ BankTypes' /\ pc'[p] = NULL /\ req'[p] = NULL
      /\ \A q \in Proc \ {p} : pc'[q] = pc[q] /\ req'[q] = req[q] /\ pstate'[q] = pstate[q]
  BY <1>i, <1>1 DEF BankTypes
<1>6. Life(p)' /\ Quiet'
  BY <1>i, <1>1, <1>4, <1>5 DEF Life, Quiet
<1>7. Mine(p)'
  BY <1>4, <1>5 DEF Mine, Asked
<1> QED
  BY <1>i, <1>1, <1>2, <1>3, <1>4, <1>5, <1>6, <1>7, OwnStep

(* main or the source starts a process.                                    *)
LEMMA StartBank ==
  ASSUME BankInv, NEW there \in {"source", "customer"}, NEW then,
         Start(there, then), UNCHANGED <<in_use, queue>>,
         ctx \in Proc => pc[ctx] = "source" /\ then = "gap"
  PROVE  BankInv'
<1> DEFINE n == NewProc
<1>i. /\ LibraryInv /\ IInv /\ BankTypes /\ Quiet
      /\ \A q \in Proc : Life(q) /\ Mine(q)
      /\ pstate \in [Proc -> {"unborn", "new", "running", "dead"}]
      /\ interrupt_pending \in [Proc -> BOOLEAN] /\ done \in [Proc -> Addr \cup {NULL}]
  BY DEF BankInv, LibraryInv, CondInv, IInv, TypeOK
<1>1. /\ n \in Proc /\ sim_process(n) /\ UNCHANGED <<condVars, req, ev, limit>>
      /\ pc' = [q \in Proc |-> IF q = n THEN there ELSE IF ctx = q THEN then ELSE pc[q]]
  BY DEF Start
<1> HIDE DEF n
<1>2. /\ pstate' = [pstate EXCEPT ![n] = "new"] /\ done' = [done EXCEPT ![n] = NULL]
      /\ interrupt_pending' = [interrupt_pending EXCEPT ![n] = FALSE]
      /\ UNCHANGED <<ctx, watches>>
  BY <1>1 DEF sim_process, Wiped, ctlVars
<1>3. pstate[n] \in {"unborn", "dead"}
  <2>1. CASE process_pool # <<>>
    <3>1. n = Head(process_pool) /\ process_pool \in Seq(Proc)
      BY <1>1, <1>i, <2>1 DEF sim_process, IInv, TypeOK
    <3>2. n \in ToSet(process_pool)
      BY <2>1, <3>1, TailToSet
    <3> QED
      BY <1>1, <1>i, <3>2 DEF IInv, PooledAreDead
  <2>2. CASE process_pool = <<>>
    BY <1>1, <2>2 DEF sim_process
  <2> QED
    BY <2>1, <2>2
<1>4. ctx # n /\ pc[n] = NULL /\ req[n] = NULL
  <2>1. ctx # n
    BY <1>1, <1>i, <1>3 DEF IInv, RunningOK
  <2>2. pc[n] = NULL /\ NULL \notin Asked \cup {"leave"}
    BY <1>1, <1>i, <1>3, NullIsNoBankStage DEF Life, BankStages, Asked
  <2> QED
    BY <1>1, <1>i, <2>1, <2>2 DEF Mine
<1>5. LibraryInv' /\ Sparing
  BY <1>1, <1>i, StartLibrary
<1>6. BankTypes' /\ Quiet'
  <2>1. there \in BankStages /\ (ctx \in Proc => then \in BankStages)
    BY DEF BankStages
  <2> QED
    BY <1>1, <1>2, <1>i, <2>1 DEF BankTypes, Quiet
<1>7. ASSUME NEW q \in Proc PROVE Life(q)' /\ Mine(q)'
  <2>1. CASE q = n
    <3>1. pc'[n] = there /\ pstate'[n] = "new" /\ interrupt_pending'[n] = FALSE /\ req'[n] = NULL
      BY <1>1, <1>2, <1>4, <1>i
    <3> QED
      BY <2>1, <3>1, NullIsNoBankStage DEF Life, Mine, BankStages, Asked
  <2>2. CASE q # n /\ ctx = q
    <3>1. /\ pc'[q] = "gap" /\ pstate'[q] = pstate[q] /\ pstate[q] = "running"
          /\ ~interrupt_pending'[q] /\ ctx' = q
      BY <1>1, <1>2, <1>i, <2>2 DEF IInv, RunningOK, Life
    <3>2. req'[q] = NULL
      BY <1>1, <1>i, <2>2 DEF Mine, Asked
    <3> QED
      BY <3>1, <3>2, NullIsNoBankStage DEF Life, Mine, BankStages, Asked
  <2>3. CASE q # n /\ ctx # q
    <3>1. /\ pc'[q] = pc[q] /\ req'[q] = req[q] /\ pstate'[q] = pstate[q] /\ ctx' # q
          /\ interrupt_pending'[q] = interrupt_pending[q]
      BY <1>1, <1>2, <1>i, <2>3
    <3>2. Mine(q)'
      BY <1>5, <2>3, <3>1, OtherMine
    <3> QED
      BY <1>i, <2>3, <3>1, <3>2 DEF Life
  <2> QED
    BY <2>1, <2>2, <2>3
<1>8. ASSUME NEW q \in Proc, pc'[q] \in Asked PROVE pc[q] \in Asked /\ req'[q] = req[q]
  BY <1>1, <1>8 DEF Asked
<1> QED
  BY <1>5, <1>6, <1>7, <1>8, StepBank

(* A customer asks, and is granted the counter or waits.                   *)
LEMMA RequestBank ==
  ASSUME BankInv, NEW p \in Proc, customer_request(p)
  PROVE  BankInv'
<1> DEFINE granted == in_use < capacity
           s == IF granted THEN "triggered" ELSE "pending"
<1>i. /\ LibraryInv /\ IInv /\ CondOK /\ BankTypes /\ Quiet /\ Apart /\ Line /\ Slots
      /\ \A q \in Proc : Life(q) /\ Mine(q)
      /\ ctx = p /\ pc[p] = "customer" /\ pstate[p] = "running" /\ InClient
  BY DEF BankInv, LibraryInv, CondInv, IInv, RunningOK, customer_request, At, InClient
<1>e. PICK e \in Addr : e = New
  <2>1. _sim_event_alloc(New)
    BY DEF customer_request, Allocated
  <2> QED
    BY <1>i, <2>1, NewIsEvent
<1>1. /\ Allocated(e, s, FALSE)
      /\ req' = [req EXCEPT ![p] = e] /\ pc' = [pc EXCEPT ![p] = "patience"]
      /\ UNCHANGED <<now, envVars, intVars, procVars, ctlVars, ghosts, condVars, ev, limit>>
  BY <1>e DEF customer_request
<1>2. UNCHANGED <<made, done, watches, ctx, pstate, interrupt_pending>>
  BY <1>1 DEF intVars, procVars, ctlVars, ghosts, condVars
<1>4. IF granted THEN _sim_event_schedule(e, 0) /\ in_use' = in_use + 1 /\ UNCHANGED queue
                 ELSE queue' = Append(queue, e) /\ UNCHANGED <<heap, in_use>>
  BY <1>e DEF customer_request
<1>3. s \in {"pending", "triggered"} /\ (granted <=> s = "triggered")
  OBVIOUS
<1> HIDE DEF s
<1>5. LibraryInv'
  <2>1. CASE granted
    <3>1. Granting(e)
      BY <1>i, <1>1, <1>3, <1>4, <2>1 DEF Granting
    <3> QED
      BY <1>i, <1>3, <3>1, GrantingLibrary
  <2>2. CASE ~granted
    <3>1. sim_event(e)
      BY <1>i, <1>1, <1>3, <1>4, <2>2 DEF sim_event
    <3> QED
      BY <1>1, <1>i, <1>3, <3>1, EventLibrary
  <2> QED
    BY <2>1, <2>2
<1>6. /\ Sparing /\ ~Owned(e) /\ ~recyclable'[e] /\ Unpooled(e)'
      /\ state'[e] = s
  BY <1>1, <1>2, <1>3, <1>i, AllocatedSpares
<1>7. made'[e] = NULL
  BY <1>1, <1>2, <1>3, <1>i, AllocatedIsNoCondition DEF Allocated
<1>8. Owned(e)'
  BY <1>3, <1>6, <1>7 DEF Owned
<1>9. /\ queue' \in Seq(Addr) /\ e \notin ToSet(queue)
      /\ ToSet(queue') = IF granted THEN ToSet(queue) ELSE ToSet(queue) \cup {e}
      /\ IsInjective(queue')
  <2>1. queue \in Seq(Addr) /\ IsInjective(queue) /\ e \notin ToSet(queue)
    BY <1>i, <1>6 DEF BankTypes, Line
  <2>2. CASE granted
    BY <1>4, <2>1, <2>2
  <2>3. CASE ~granted
    <3>1. queue' = Append(queue, e)
      BY <1>4, <2>3
    <3> QED
      BY <1>3, <2>1, <2>3, <3>1, AppendElements
  <2> QED
    BY <2>2, <2>3
<1>10. /\ pc'[p] = "patience" /\ req'[p] = e
       /\ \A q \in Proc \ {p} : pc'[q] = pc[q] /\ req'[q] = req[q]
  BY <1>1, <1>i DEF BankTypes
<1>11. BankTypes' /\ Quiet'
  BY <1>1, <1>2, <1>3, <1>9, <1>i DEF BankTypes, Quiet, BankStages
<1>12. ASSUME NEW q \in Proc PROVE Life(q)' /\ Mine(q)'
  <2>1. CASE q = p
    BY <1>i, <1>2, <1>3, <1>6, <1>8, <1>9, <1>10, <2>1, NullIsNoBankStage
       DEF Life, Mine, Owned, Asked, BankStages
  <2>2. CASE q # p
    <3>1. pc[q] \in Asked => /\ Owned(req[q])
                             /\ state[req[q]] = "pending" <=> req[q] \in ToSet(queue)
      BY <1>i DEF Mine
    <3>2. pc[q] \in Asked => /\ Owned(req[q])'
                             /\ state'[req[q]] = "pending" <=> state[req[q]] = "pending"
                             /\ state[req[q]] = "processed" => state'[req[q]] = "processed"
      BY <1>6, <1>10, <2>2, <3>1 DEF Sparing, Owned
    <3>3. pc[q] \in Asked => req[q] # e
      BY <1>6, <3>1
    <3>4. Mine(q)'
      BY <1>i, <1>9, <1>10, <2>2, <3>1, <3>2, <3>3, IdleMine
    <3> QED
      BY <1>i, <1>2, <1>10, <2>2, <3>4 DEF Life
  <2> QED
    BY <2>1, <2>2
<1>13. Apart'
  <2>1. \A q \in Proc : pc[q] \in Asked => req[q] # e
    BY <1>i, <1>6 DEF Mine
  <2> QED
    BY <1>i, <1>10, <2>1 DEF Apart
<1>14. Line'
  BY <1>i, <1>3, <1>6, <1>8, <1>9 DEF Line, Sparing, Owned
<1>15. Slots'
  <2>1. ASSUME NEW q \in Proc, q # p PROVE q \in Granted' => q \in Granted
    BY <1>i, <1>6, <1>10, <2>1 DEF Granted, Mine, Sparing, Owned
  <2>2. CASE granted
    <3>1. Granted' \subseteq Granted \cup {p}
      BY <2>1 DEF Granted
    <3>2. /\ IsFiniteSet(Granted \cup {p})
          /\ Cardinality(Granted \cup {p}) <= Cardinality(Granted) + 1
          /\ Cardinality(Granted) \in Nat
      <4>1. IsFiniteSet(Granted)
        BY <1>i DEF Slots
      <4>2. Cardinality(Granted) \in Nat
        BY <4>1, FS_CardinalityType
      <4>3. /\ IsFiniteSet(Granted \cup {p})
            /\ \/ Cardinality(Granted \cup {p}) = Cardinality(Granted)
               \/ Cardinality(Granted \cup {p}) = Cardinality(Granted) + 1
        BY <4>1, FS_AddElement
      <4> QED
        BY <4>2, <4>3
    <3>3. /\ IsFiniteSet(Granted') /\ Cardinality(Granted') <= Cardinality(Granted) + 1
          /\ Cardinality(Granted') \in Nat
      <4>1. /\ IsFiniteSet(Granted') /\ Cardinality(Granted') <= Cardinality(Granted \cup {p})
        BY <3>1, <3>2, FS_Subset
      <4>2. Cardinality(Granted') \in Nat /\ Cardinality(Granted \cup {p}) \in Nat
        BY <3>2, <4>1, FS_CardinalityType
      <4> QED
        BY <3>2, <4>1, <4>2
    <3> QED
      BY <1>i, <1>4, <2>2, <3>2, <3>3, CapacityIsNatural DEF Slots
  <2>3. CASE ~granted
    <3>1. p \notin Granted'
      BY <1>3, <1>6, <1>10, <2>3 DEF Granted
    <3>2. Granted' \subseteq Granted
      BY <2>1, <3>1 DEF Granted
    <3> QED
      BY <1>i, <1>4, <2>3, <3>2, FS_Subset, FS_CardinalityType, CapacityIsNatural DEF Slots
  <2> QED
    BY <2>2, <2>3
<1> QED
  BY <1>5, <1>11, <1>12, <1>13, <1>14, <1>15 DEF BankInv

(* A customer combines his request and his patience.                       *)
LEMMA EitherMakes ==
  ASSUME BankInv, NEW p \in Proc, customer_either(p)
  PROVE  \E e \in Addr, evs \in Inputs :
           /\ make_cond(e, evs, TRUE) /\ ev' = [ev EXCEPT ![p] = e]
           /\ Len(evs) = 2 /\ evs[1] = req[p] /\ evs[2] = ev[p]
<1> DEFINE e == New
           evs == <<req[p], ev[p]>>
<1>i. IInv /\ Mine(p) /\ pc[p] = "either"
  BY DEF BankInv, LibraryInv, CondInv, customer_either, At
<1>1. make_cond(e, evs, TRUE) /\ ev' = [ev EXCEPT ![p] = e]
  BY DEF customer_either
<1>2. _sim_event_alloc(e)
  BY <1>1 DEF make_cond, Allocated
<1>3. e \in Addr
  BY <1>2, <1>i, NewIsEvent
<1>4. evs \in Inputs
  <2>1. req[p] \in Handles
    <3>1. Owned(req[p]) /\ event_pool \in Seq(Addr)
      BY <1>i DEF Mine, Asked, IInv, TypeOK
    <3> QED
      BY <3>1, Elements DEF Owned, Unpooled, Handles
  <2>2. ev[p] \in Handles
    <3>1. ev[p] \in Addr /\ state[ev[p]] = "triggered"
      BY <1>i DEF Mine
    <3>2. ev[p] \notin ToSet(event_pool)
      BY <1>i, <3>1 DEF IInv, PoolUnused, ToSet
    <3> QED
      BY <3>1, <3>2 DEF Handles
  <2>3. evs \in [1..2 -> Handles] /\ 2 \in 0..MaxInputs
    BY <2>1, <2>2, EitherIsOfTwo, InputsAreBounded
  <2> HIDE DEF evs
  <2> QED
    BY <2>3 DEF Inputs
<1>5. Len(evs) = 2 /\ evs[1] = req[p] /\ evs[2] = ev[p]
  OBVIOUS
<1> HIDE DEF e, evs
<1> QED
  BY <1>1, <1>3, <1>4, <1>5

LEMMA EitherBank ==
  ASSUME BankInv, NEW p \in Proc, customer_either(p), UNCHANGED <<in_use, queue>>
  PROVE  BankInv'
<1>i. /\ LibraryInv /\ IInv /\ CondOK /\ BankTypes /\ Quiet /\ Life(p) /\ Mine(p)
      /\ ctx = p /\ pc[p] = "either" /\ pstate[p] = "running"
  BY DEF BankInv, LibraryInv, CondInv, IInv, RunningOK, customer_either, At
<1>4. PICK e \in Addr, evs \in Inputs :
        /\ make_cond(e, evs, TRUE) /\ ev' = [ev EXCEPT ![p] = e]
        /\ Len(evs) = 2 /\ evs[1] = req[p] /\ evs[2] = ev[p]
  BY EitherMakes
<1>1. /\ make_cond(e, evs, TRUE)
      /\ ev' = [ev EXCEPT ![p] = e] /\ pc' = [pc EXCEPT ![p] = "wait"]
      /\ UNCHANGED <<req, limit, done, watches, ctx, pstate, interrupt_pending>>
  BY <1>4 DEF customer_either, make_cond, intVars, procVars, ctlVars, ghosts
<1>3. e \in Addr
  OBVIOUS
<1>5. LibraryInv' /\ Sparing
  BY <1>i, <1>1, <1>3, <1>4, MakeLibrary, MakeSpares
<1>6. /\ pc'[p] = "wait" /\ \A q \in Proc \ {p} : pc'[q] = pc[q]
  BY <1>1, <1>i DEF BankTypes
<1>7. BankTypes' /\ Quiet' /\ Life(p)'
  BY <1>1, <1>3, <1>6, <1>i, NullIsNoBankStage DEF BankTypes, Quiet, Life, BankStages
<1>8. Mine(p)'
  <2>1. /\ Owned(req[p])'
        /\ state'[req[p]] = "pending" <=> req[p] \in ToSet(queue)
    BY <1>1, <1>i, <1>5 DEF Mine, Sparing, Owned, Asked
  <2> QED
    BY <1>1, <1>6, <2>1 DEF Mine, Asked, Owned
<1> QED
  BY <1>i, <1>1, <1>5, <1>6, <1>7, <1>8, OwnStep DEF Asked

(* One set more, one less: the slot of p is handed on to o.                *)
LEMMA HandedOn ==
  ASSUME NEW S, IsFiniteSet(S), NEW p \in S, NEW o, NEW T, T \subseteq (S \ {p}) \cup {o}
  PROVE  IsFiniteSet(T) /\ Cardinality(T) <= Cardinality(S)
<1>1. IsFiniteSet(S \ {p}) /\ Cardinality(S \ {p}) = Cardinality(S) - 1
  BY FS_RemoveElement
<1>2. /\ IsFiniteSet((S \ {p}) \cup {o})
      /\ \/ Cardinality((S \ {p}) \cup {o}) = Cardinality(S \ {p})
         \/ Cardinality((S \ {p}) \cup {o}) = Cardinality(S \ {p}) + 1
  BY <1>1, FS_AddElement
<1>3. IsFiniteSet(T) /\ Cardinality(T) <= Cardinality((S \ {p}) \cup {o})
  BY <1>2, FS_Subset
<1>4. Cardinality(T) \in Nat /\ Cardinality(S) \in Nat
  BY <1>3, FS_CardinalityType
<1> QED
  BY <1>1, <1>2, <1>3, <1>4

(* A customer leaves the counter to the first in line.                     *)
LEMMA ReleaseBank ==
  ASSUME BankInv, NEW p \in Proc, customer_release(p)
  PROVE  BankInv'
<1>i. /\ LibraryInv /\ IInv /\ CondOK /\ BankTypes /\ Quiet /\ Apart /\ Line /\ Slots
      /\ \A q \in Proc : Life(q) /\ Mine(q)
      /\ ctx = p /\ pc[p] = "release" /\ pstate[p] = "running" /\ InClient
      /\ current = p /\ event_pool \in Seq(Addr)
      /\ state \in [Ev -> {"fresh", "pending", "triggered", "processed"}] /\ Addr \subseteq Ev
  BY DEF BankInv, LibraryInv, CondInv, IInv, TypeOK, RunningOK, customer_release, At,
         InClient, Ev
<1>1. PICK r \in Addr : r = req[p] /\ Owned(r) /\ state[r] = "processed"
  BY <1>i DEF Mine, Asked, Owned
<1>2. /\ p \in Granted /\ IsFiniteSet(Granted) /\ in_use # 0 /\ in_use \in Nat
      /\ Cardinality(Granted) \in Nat /\ Cardinality(Granted) <= in_use
      /\ in_use <= capacity
  <2>1. p \in Granted
    BY <1>i, <1>1 DEF Granted, Asked
  <2>2. IsFiniteSet(Granted) /\ Cardinality(Granted) \in Nat /\ Cardinality(Granted) # 0
    BY <1>i, <2>1, FS_CardinalityType, FS_EmptySet DEF Slots
  <2> QED
    BY <1>i, <2>1, <2>2 DEF Slots
<1>3. /\ hand_on /\ event_pool' = <<r>> \o event_pool
      /\ pc' = [pc EXCEPT ![p] = "leave"]
      /\ UNCHANGED <<now, cbs, recyclable, envVars, intVars, procVars, ctlVars, ghosts,
                     condVars, req, ev, limit>>
  BY <1>1, <1>2 DEF customer_release
<1>4. UNCHANGED <<recyclable, made, done, watches, ctx, pstate, interrupt_pending, req>>
  BY <1>3 DEF intVars, procVars, ctlVars, ghosts, condVars
<1>5. GivingBack(r)
  BY <1>1, <1>3, <1>i, AddressesDiffer DEF GivingBack, Owned, Quiet
<1>6. /\ ~Unpooled(r)' /\ \A x \in Addr \ {r} : Unpooled(x) => Unpooled(x)'
  <2>1. LET t == <<r>> \o event_pool
        IN  /\ t[1] = r /\ 1 \in DOMAIN t
            /\ \A i \in DOMAIN t : t[i] = r \/ \E j \in DOMAIN event_pool : t[i] = event_pool[j]
    BY <1>i, PushElements
  <2> QED
    BY <1>3, <2>1 DEF Unpooled
<1>7. /\ pc'[p] = "leave" /\ \A q \in Proc \ {p} : pc'[q] = pc[q]
  BY <1>3, <1>i DEF BankTypes
<1>8. queue \in Seq(Addr) /\ \A x \in ToSet(queue) : x \in Addr /\ x # r
  BY <1>1, <1>i, Elements DEF BankTypes, Line
<1>9. CASE queue = <<>>
  <2>1. in_use' = in_use - 1 /\ UNCHANGED <<queue, state, heap>>
    BY <1>3, <1>9 DEF hand_on
  <2>2. LibraryInv'
    <3>1. Releasing
      BY <1>i, <1>3, <1>5, <2>1 DEF Releasing
    <3> QED
      BY <1>i, <3>1, ReleasingLibrary
  <2>3. BankTypes' /\ Quiet' /\ Line'
    BY <1>3, <1>4, <1>6, <1>8, <1>i, <2>1 DEF BankTypes, Quiet, BankStages, Line, Owned
  <2>4. \A x \in Addr : Owned(x) /\ x # r => Owned(x)'
    BY <1>4, <1>6, <2>1 DEF Owned
  <2>5. ASSUME NEW q \in Proc PROVE Life(q)' /\ Mine(q)'
    <3>1. CASE q = p
      BY <1>1, <1>4, <1>6, <1>7, <1>i, <3>1, NullIsNoBankStage
         DEF Life, Mine, Asked, BankStages
    <3>2. CASE q # p
      <4>1. pc[q] \in Asked =>
              Owned(req[q]) /\ req[q] # r /\ (state[req[q]] = "pending" <=> req[q] \in ToSet(queue))
        BY <1>1, <1>i, <3>2 DEF Mine, Apart, Asked
      <4>2. pc[q] \in Asked => Owned(req[q])'
        BY <1>4, <2>4, <4>1 DEF Owned
      <4>3. Mine(q)'
        BY <1>4, <1>7, <1>i, <2>1, <3>2, <4>1, <4>2, IdleMine
      <4> QED
        BY <1>4, <1>7, <1>i, <3>2, <4>3 DEF Life
    <3> QED
      BY <3>1, <3>2
  <2>6. Apart'
    BY <1>4, <1>7, <1>i DEF Apart, Asked
  <2>7. Slots'
    <3>1. Granted' \subseteq (Granted \ {p}) \cup {}
      BY <1>4, <1>7, <2>1 DEF Granted, Asked
    <3>2. IsFiniteSet(Granted \ {p}) /\ Cardinality(Granted \ {p}) = Cardinality(Granted) - 1
      BY <1>2, FS_RemoveElement
    <3>3. IsFiniteSet(Granted') /\ Cardinality(Granted') <= Cardinality(Granted \ {p})
      BY <3>1, <3>2, FS_Subset
    <3>4. Cardinality(Granted') \in Nat
      BY <3>3, FS_CardinalityType
    <3> QED
      BY <1>2, <2>1, <3>2, <3>3, <3>4, CapacityIsNatural DEF Slots
  <2> QED
    BY <2>2, <2>3, <2>5, <2>6, <2>7 DEF BankInv
<1>10. CASE queue # <<>>
  <2>1. PICK h \in Addr : /\ h = Head(queue) /\ h \in ToSet(queue)
                          /\ queue' = Tail(queue) /\ queue' \in Seq(Addr)
                          /\ ToSet(queue) = {h} \cup ToSet(queue')
                          /\ IsInjective(queue') /\ h \notin ToSet(queue')
    <3>1. IsInjective(queue) /\ queue' = Tail(queue)
      BY <1>3, <1>10, <1>i DEF hand_on, Line
    <3> QED
      BY <1>8, <1>10, <3>1, TailElements
  <2>2. /\ state' = [state EXCEPT ![h] = "triggered"] /\ _sim_event_schedule(h, 0)
        /\ UNCHANGED in_use
    BY <1>3, <1>10, <2>1 DEF hand_on
  <2>3. /\ state[h] = "pending" /\ state'[h] = "triggered" /\ h # r /\ made[h] = NULL
        /\ \A x \in Addr \ {h} : state'[x] = state[x]
    BY <1>1, <1>i, <2>1, <2>2 DEF Line, Owned
  <2>4. LibraryInv'
    <3>1. HandingOn(h)
      BY <2>2, <2>3 DEF HandingOn
    <3>2. Releasing
      BY <1>i, <1>3, <1>5, <3>1 DEF Releasing
    <3> QED
      BY <1>i, <3>2, ReleasingLibrary
  <2>5. \A x \in Addr : Owned(x) /\ x # r => Owned(x)'
    BY <1>4, <1>6, <2>3 DEF Owned
  <2>6. BankTypes' /\ Quiet' /\ Line'
    <3>1. \A x \in ToSet(queue') : Owned(x)' /\ state'[x] = "pending"
      BY <1>8, <1>i, <2>1, <2>3, <2>5 DEF Line
    <3> QED
      BY <1>3, <1>4, <1>i, <2>1, <3>1 DEF BankTypes, Quiet, BankStages, Line
  <2>7. ASSUME NEW q \in Proc PROVE Life(q)' /\ Mine(q)'
    <3>1. CASE q = p
      BY <1>1, <1>4, <1>6, <1>7, <1>i, <3>1, NullIsNoBankStage
         DEF Life, Mine, Asked, BankStages
    <3>2. CASE q # p
      <4>1. pc[q] \in Asked =>
              Owned(req[q]) /\ req[q] # r /\ (state[req[q]] = "pending" <=> req[q] \in ToSet(queue))
        BY <1>1, <1>i, <3>2 DEF Mine, Apart, Asked
      <4>2. pc[q] \in Asked => Owned(req[q])'
        BY <1>4, <2>5, <4>1 DEF Owned
      <4>3. pc[q] \in Asked => /\ state'[req[q]] = "pending" <=> req[q] \in ToSet(queue')
                               /\ state[req[q]] = "processed" => state'[req[q]] = "processed"
        BY <2>1, <2>3, <4>1 DEF Owned
      <4>4. Mine(q)'
        BY <1>4, <1>7, <1>i, <3>2, <4>2, <4>3, IdleMine
      <4> QED
        BY <1>4, <1>7, <1>i, <3>2, <4>4 DEF Life
    <3> QED
      BY <3>1, <3>2
  <2>8. Apart'
    BY <1>4, <1>7, <1>i DEF Apart, Asked
  <2>9. Slots'
    <3>1. \E o : Granted' \subseteq (Granted \ {p}) \cup {o}
      <4>1. ASSUME NEW q \in Granted'
            PROVE  q \in Granted \ {p} \/ (q \in Proc /\ pc[q] \in Asked /\ req[q] = h)
        BY <1>4, <1>7, <1>i, <2>3 DEF Granted, Asked, Mine, Owned
      <4>2. \A q, o \in Proc : pc[q] \in Asked /\ pc[o] \in Asked /\ req[q] = h /\ req[o] = h => q = o
        BY <1>i DEF Apart
      <4> HIDE DEF Granted
      <4> QED
        BY <4>1, <4>2
    <3>2. IsFiniteSet(Granted') /\ Cardinality(Granted') <= Cardinality(Granted)
      BY <1>2, <3>1, HandedOn
    <3>3. Cardinality(Granted') \in Nat
      BY <3>2, FS_CardinalityType
    <3> QED
      BY <1>2, <2>2, <3>2, <3>3 DEF Slots
  <2> QED
    BY <2>4, <2>6, <2>7, <2>8, <2>9 DEF BankInv
<1> QED
  BY <1>9, <1>10

LEMMA MainBank ==
  ASSUME BankInv, ctx = "main", main_run, UNCHANGED <<in_use, queue>>
  PROVE  BankInv'
<1>i. LibraryInv /\ BankTypes /\ Quiet /\ \A q \in Proc : Life(q) /\ Mine(q)
  BY DEF BankInv
<1>1. /\ StartRun("run", 0) /\ ctx' = "loop"
      /\ UNCHANGED <<condVars, pc, req, ev, limit, done, watches, pstate, interrupt_pending>>
  BY DEF main_run, StartRun, appVars, intVars, procVars, ghosts
<1>2. LibraryInv' /\ Sparing
  BY <1>i, <1>1, HostLibrary
<1>3. BankTypes' /\ Quiet' /\ \A q \in Proc : ctx # q /\ ctx' # q
  BY <1>i, <1>1, AddressesDiffer DEF BankTypes, Quiet
<1>4. ASSUME NEW q \in Proc PROVE Life(q)' /\ Mine(q)'
  <2>1. Mine(q)'
    BY <1>1, <1>2, <1>3, OtherMine
  <2> QED
    BY <1>i, <1>1, <1>3, <2>1 DEF Life
<1> QED
  BY <1>1, <1>2, <1>3, <1>4, StepBank

LEMMA RunBank ==
  ASSUME BankInv, Run, UNCHANGED <<appVars, in_use, queue>>
  PROVE  BankInv'
<1>i. /\ LibraryInv /\ IInv /\ BankTypes /\ Quiet /\ \A q \in Proc : Life(q) /\ Mine(q)
      /\ interrupt_pending \in [Proc -> BOOLEAN]
  BY DEF BankInv, LibraryInv, CondInv, IInv, TypeOK
<1>1. UNCHANGED <<pc, req, ev, limit>>
  BY DEF appVars
<1>2. LibraryInv' /\ Sparing
  BY <1>i, RunLibrary, RunSpares
<1>3. /\ ctx \notin Proc /\ UNCHANGED <<done, watches>>
      /\ \A q \in Proc :
           /\ interrupt_pending'[q] => interrupt_pending[q]
           /\ \/ pstate'[q] = pstate[q]
              \/ pstate[q] = "new" /\ pstate'[q] = "running" /\ ctx' = q
  BY <1>i, RunControl
<1>4. BankTypes' /\ Quiet'
  BY <1>i, <1>1, <1>3 DEF BankTypes, Quiet
<1>5. ASSUME NEW q \in Proc PROVE Life(q)' /\ Mine(q)'
  <2>1. Mine(q)'
    BY <1>1, <1>2, <1>3, OtherMine
  <2> QED
    BY <1>i, <1>1, <1>3, <2>1 DEF Life
<1> QED
  BY <1>1, <1>2, <1>4, <1>5, StepBank

LEMMA InitBank == BankInit => BankInv
<1> SUFFICES ASSUME BankInit PROVE BankInv
  OBVIOUS
<1>1. LibraryInv
  <2>1. Init /\ CondInit
    BY DEF BankInit, AppInit
  <2>2. Clocked
    BY <2>1 DEF Init, CondInit, Clocked, ResumeAtOnce, InTimeOrder, Timely
  <2>3. Reasons
    BY <2>1, AddressesDiffer DEF Init, Reasons, DispatchOK, ReasonOK
  <2> QED
    BY <2>1, <2>2, <2>3, InitCond DEF LibraryInv
<1>2. /\ pc = [p \in Proc |-> NULL] /\ limit = [p \in Proc |-> 0] /\ in_use = 0
      /\ req = [p \in Proc |-> NULL] /\ ev = [p \in Proc |-> NULL] /\ queue = <<>>
      /\ watches = {} /\ done = [p \in Proc |-> NULL] /\ pstate = [p \in Proc |-> "unborn"]
      /\ interrupt_pending = [p \in Proc |-> FALSE]
  BY DEF BankInit, AppInit, Init
<1>3. NULL \notin Asked \cup {"leave"} /\ NULL \notin BankStages
  BY NullIsNoBankStage DEF Asked, BankStages
<1>4. BankTypes /\ Quiet /\ Apart
  BY <1>2, <1>3 DEF BankTypes, Quiet, Apart
<1>5. \A p \in Proc : Life(p) /\ Mine(p)
  BY <1>2, <1>3 DEF Life, Mine, BankStages, Asked
<1>6. Line
  BY <1>2, EmptyElements DEF Line
<1>7. Slots
  <2>1. Granted = {}
    BY <1>2, <1>3 DEF Granted
  <2> QED
    BY <1>2, <2>1, FS_EmptySet, CapacityIsNatural DEF Slots
<1> QED
  BY <1>1, <1>4, <1>5, <1>6, <1>7 DEF BankInv

LEMMA NextBank ==
  BankInv /\ [BankNext]_<<allVars, in_use, queue, left>> => BankInv'
<1> SUFFICES ASSUME BankInv, [BankNext]_<<allVars, in_use, queue, left>> PROVE BankInv'
  OBVIOUS
<1>t. Gaps \subseteq Delays /\ Services \subseteq Delays /\ Patience \subseteq Delays
  BY TimesAreDelays, CustomersArePatient
<1>1. ASSUME bank_main, UNCHANGED <<in_use, queue>> PROVE BankInv'
  <2>1. CASE Start("source", NULL)
    <3>1. ctx \notin Proc
      BY <1>1, AddressesDiffer DEF bank_main
    <3> QED
      BY <1>1, <2>1, <3>1, StartBank
  <2>2. CASE main_run
    BY <1>1, <2>2, MainBank DEF bank_main
  <2> QED
    BY <1>1, <2>1, <2>2 DEF bank_main
<1>2. ASSUME NEW p \in Proc, source(p), UNCHANGED <<in_use, queue>> PROVE BankInv'
  <2>1. CASE At(p, "source") /\ Start("customer", "gap")
    BY <1>2, <2>1, StartBank DEF At
  <2>2. CASE Timeout(p, "gap", Gaps, "pause")
    BY <1>2, <2>2, <1>t, TimeoutBank DEF BankStages, Asked
  <2>3. CASE Yield(p, "pause", ev[p], "source")
    BY <1>2, <2>3, YieldBank DEF Asked
  <2>4. CASE End(p, "source")
    BY <1>2, <2>4, EndBank
  <2> QED
    BY <1>2, <2>1, <2>2, <2>3, <2>4 DEF source
<1>3. ASSUME NEW p \in Proc, customer(p) PROVE BankInv'
  <2>1. CASE customer_request(p)
    BY <2>1, RequestBank
  <2>2. CASE customer_release(p)
    BY <2>2, ReleaseBank
  <2>3. CASE UNCHANGED <<in_use, queue>>
    <3>1. CASE Timeout(p, "patience", Patience, "either")
      BY <2>3, <3>1, <1>t, TimeoutBank DEF BankStages, Asked
    <3>2. CASE customer_either(p)
      BY <2>3, <3>2, EitherBank
    <3>3. CASE Yield(p, "wait", ev[p], "choose")
      BY <2>3, <3>3, YieldBank DEF Asked
    <3>4. CASE Timeout(p, "choose", Services, "service") /\ IsServed(p)
      BY <2>3, <3>4, <1>t, TimeoutBank DEF BankStages, Asked, IsServed
    <3>5. CASE \E here : End(p, here)
      BY <2>3, <3>5, EndBank
    <3>6. CASE Yield(p, "service", ev[p], "release")
      BY <2>3, <3>6, YieldBank DEF Asked
    <3> QED
      BY <1>3, <2>1, <2>2, <3>1, <3>2, <3>3, <3>4, <3>5, <3>6 DEF customer
  <2> QED
    BY <1>3, <2>1, <2>2, <2>3 DEF customer
<1>4. ASSUME Run, UNCHANGED <<appVars, in_use, queue>> PROVE BankInv'
  BY <1>4, RunBank
<1>5. ASSUME UNCHANGED <<allVars, in_use, queue, left>> PROVE BankInv'
  <2>1. UNCHANGED <<vars, condVars, pc, req, ev, limit, in_use, queue>>
    BY <1>5 DEF allVars, appVars
  <2>2. UNCHANGED <<pstate, done, watches, interrupt_pending, ctx, state, recyclable, event_pool>>
    BY <2>1 DEF vars, evVars, intVars, procVars, ctlVars, ghosts
  <2>3. LibraryInv' /\ Sparing
    <3>1. IInv' /\ Reasons'
      BY <2>1, NextIInv, NextReasons DEF BankInv, LibraryInv, CondInv
    <3>2. CondInv'
      BY <2>1, NextCond DEF BankInv, LibraryInv
    <3>3. Clocked'
      BY <2>1 DEF BankInv, LibraryInv, Clocked, ResumeAtOnce, Timely, vars, condVars
    <3> QED
      BY <2>1, <2>2, <3>1, <3>2, <3>3, QuietSpares DEF LibraryInv, condVars
  <2>4. /\ BankTypes' /\ Quiet'
        /\ \A q \in Proc : Life(q)' /\ Mine(q)'
    BY <2>1, <2>2 DEF BankInv, BankTypes, Quiet, Life, Mine, Owned, Unpooled, condVars
  <2> QED
    BY <2>1, <2>3, <2>4, StepBank
<1> QED
  BY <1>1, <1>2, <1>3, <1>4, <1>5 DEF BankNext

THEOREM BankInductive == BankSpec => []BankInv
BY InitBank, NextBank, PTL DEF BankSpec

(* No more customers are served at one time than there are counters, each  *)
(* with a request of his own, granted and not in the pool: for any number  *)
(* of customers, counters and events, and any times.                       *)
THEOREM Served == BankSpec => []ServedAtCounter
<1>1. BankInv => ServedAtCounter
  <2> SUFFICES ASSUME BankInv PROVE ServedAtCounter
    OBVIOUS
  <2>i. /\ BankTypes /\ Apart /\ Line /\ Slots /\ \A q \in Proc : Mine(q)
        /\ event_pool \in Seq(Addr)
    BY DEF BankInv, LibraryInv, CondInv, IInv, TypeOK
  <2>1. Cardinality(AtCounter) <= in_use /\ in_use <= capacity
    <3>1. AtCounter \subseteq Granted
      BY <2>i DEF AtCounter, Granted, Mine, Asked
    <3>2. Cardinality(AtCounter) <= Cardinality(Granted) /\ IsFiniteSet(AtCounter)
      BY <2>i, <3>1, FS_Subset DEF Slots
    <3>3. Cardinality(AtCounter) \in Nat /\ Cardinality(Granted) \in Nat
      BY <2>i, <3>2, FS_CardinalityType DEF Slots
    <3> QED
      BY <2>i, <3>2, <3>3 DEF Slots
  <2>2. ASSUME NEW p \in AtCounter
        PROVE  /\ IsServed(p) /\ req[p] \notin ToSet(event_pool) \cup ToSet(queue)
               /\ \A q \in Proc \ {p} : pc[q] # NULL => req[q] # req[p]
    <3>1. /\ p \in Proc /\ pc[p] \in Asked /\ Owned(req[p]) /\ state[req[p]] = "processed"
          /\ req[p] \notin ToSet(queue)
      BY <2>i DEF AtCounter, Mine, Asked
    <3>2. req[p] \notin ToSet(event_pool)
      BY <3>1 DEF Owned, Unpooled, ToSet
    <3>3. ASSUME NEW q \in Proc \ {p} PROVE req[q] # req[p]
      <4>1. pc[q] \in Asked \/ ~Unpooled(req[q]) \/ req[q] = NULL
        BY <2>i DEF Mine
      <4> QED
        BY <2>i, <3>1, <4>1, AddressesDiffer DEF Apart, Owned
    <3> QED
      BY <3>1, <3>2, <3>3 DEF IsServed
  <2> QED
    BY <2>1, <2>2 DEF ServedAtCounter
<1> QED
  BY <1>1, BankInductive, PTL

-----------------------------------------------------------------------------
(* The bank: how long a customer waits.                                    *)

(* Event e is in the queue for time t.                                     *)
Entered(t, e) == \E i \in DOMAIN heap : heap[i] = [time |-> t, ev |-> e]

(* The condition c of customer p: the counter or the end of his patience,  *)
(* whatever comes first.                                                   *)
Choice(p, c) ==
  /\ made[c] # NULL /\ made[c].any /\ made[c].n = 2
  /\ 1 \in DOMAIN made[c].left <=> state[req[p]] # "processed"
  /\ 1 \in DOMAIN made[c].left => made[c].left[1] = req[p]
  /\ IF 2 \in DOMAIN made[c].left
     THEN made[c].left[2] \in Addr /\ Entered(limit[p], made[c].left[2])
     ELSE now = limit[p]

(* What a customer waits for, and has waited for when he chooses.          *)
Waits(p) ==
  /\ pc[p] = "either" => Entered(limit[p], ev[p])
  /\ pc[p] \in {"wait", "choose"} => ev[p] \in Addr /\ Choice(p, ev[p])
  /\ pc[p] = "choose" =>
       IF ctx = p THEN state[ev[p]] = "processed"
       ELSE yielded[p] = ev[p] /\ (waitOn[p] = ev[p] \/ state[ev[p]] = "processed")

AllWait == \A p \in Proc : Waits(p)

(* A step that processes nothing, and lets no time pass.                   *)
KeepsEntries == \A t, e : Entered(t, e) => Entered(t, e)'
Instant ==
  /\ now' = now /\ KeepsEntries
  /\ \A c \in Addr : made[c] # NULL =>
       made'[c] = made[c] /\ (state[c] = "processed" => state'[c] = "processed")
  /\ \A e \in Addr : Owned(e) => (state'[e] = "processed" <=> state[e] = "processed")

LEMMA ScheduleKeeps ==
  ASSUME TypeOK, NEW e \in Ev, NEW d \in Nat, _sim_event_schedule(e, d)
  PROVE  KeepsEntries /\ \E i \in DOMAIN heap' : heap'[i] = [time |-> now + d, ev |-> e]
<1>1. heap \in Seq(Entry(Ev)) /\ now + d \in Nat /\ heap' = Insert(heap, now + d, e)
  BY DEF TypeOK, _sim_event_schedule
<1>2. \E i \in DOMAIN heap' : heap'[i] = [time |-> now + d, ev |-> e]
  BY <1>1, EntriesKept
<1>3. \A j \in DOMAIN heap : \E i \in DOMAIN heap' : heap'[i] = heap[j]
  BY <1>1, EntriesKept
<1>4. KeepsEntries
  BY <1>3 DEF KeepsEntries, Entered
<1> QED
  BY <1>2, <1>4

LEMMA ResumeKeeps ==
  ASSUME TypeOK, NEW p \in Proc, NEW v, schedule_resume(p, v)
  PROVE  KeepsEntries
<1>1. CASE UNCHANGED heap
  BY <1>1 DEF KeepsEntries, Entered
<1>2. CASE _sim_event_schedule(p, 0)
  BY <1>2, ScheduleKeeps DEF Ev
<1> QED
  BY <1>1, <1>2 DEF schedule_resume

(* An event with an entry is in the queue, and not processed.              *)
LEMMA EnteredIsQueued ==
  ASSUME IInv, NEW t, NEW e, Entered(t, e)
  PROVE  t \in Nat /\ e \in Ev /\ e \in Queued(heap) /\ state[e] = "triggered"
<1>1. PICK i \in DOMAIN heap : heap[i] = [time |-> t, ev |-> e]
  BY DEF Entered
<1>2. heap \in Seq(Entry(Ev))
  BY DEF IInv, TypeOK
<1>3. heap[i].time \in Nat /\ heap[i].ev \in Ev
  BY <1>2, EntryTimes
<1>4. heap[i].time = t /\ heap[i].ev = e
  BY <1>1
<1> QED
  BY <1>3, <1>4 DEF Queued, IInv, QueuedOnce

(* Nor is it of the past.                                                  *)
LEMMA EnteredIsAhead ==
  ASSUME IInv, ResumeAtOnce, NEW t, NEW e, Entered(t, e)
  PROVE  t \in Nat /\ now <= t
<1>1. PICK i \in DOMAIN heap : heap[i] = [time |-> t, ev |-> e]
  BY DEF Entered
<1>2. heap[i].time = t /\ t \in Nat /\ now \in Nat
  BY <1>1, EnteredIsQueued DEF IInv, TypeOK
<1> QED
  BY <1>2 DEF ResumeAtOnce

(* Such a step is no business of a customer who does not run.              *)
LEMMA KeepsWaits ==
  ASSUME BankInv, NEW q \in Proc, Waits(q), Instant,
         pc'[q] = pc[q], req'[q] = req[q], ev'[q] = ev[q], limit'[q] = limit[q],
         yielded'[q] = yielded[q], waitOn'[q] = waitOn[q], ctx # q, ctx' # q
  PROVE  Waits(q)'
<1>1. pc[q] # "either"
  <2>1. Life(q) /\ pstate[q] \in {"unborn", "new", "running", "dead"}
    BY DEF BankInv, LibraryInv, CondInv, IInv, TypeOK
  <2> QED
    BY <2>1, NullIsNoBankStage DEF Life, BankStages
<1>2. CASE pc[q] \in {"wait", "choose"}
  <2> DEFINE c == ev[q]
  <2>1. Mine(q) /\ c \in Addr /\ Choice(q, c)
    BY <1>2 DEF BankInv, Waits
  <2>2. Owned(req[q]) /\ req[q] \in Addr
    BY <1>2, <2>1 DEF Mine, Asked, Owned
  <2>3. state'[req'[q]] = "processed" <=> state[req[q]] = "processed"
    BY <2>2 DEF Instant
  <2>4. made'[c] = made[c] /\ (state[c] = "processed" => state'[c] = "processed")
    BY <2>1 DEF Choice, Instant
  <2>5. Choice(q, ev[q])'
    BY <2>1, <2>3, <2>4 DEF Choice, Instant, KeepsEntries
  <2> QED
    BY <1>1, <1>2, <2>1, <2>4, <2>5 DEF Waits
<1> QED
  BY <1>1, <1>2 DEF Waits

(* Almost all steps of a program are such steps.                           *)
LEMMA UsuallyInstant ==
  ASSUME UNCHANGED <<now, made>>, KeepsEntries,
         \A x \in Addr : \/ state'[x] = state[x]
                         \/ state[x] = "pending" /\ state'[x] = "triggered"
                         \/ ~Owned(x) /\ made[x] = NULL
  PROVE  Instant
BY DEF Instant

LEMMA AllocatedInstant ==
  ASSUME IInv, CondOK, NEW e \in Addr, NEW s \in {"pending", "triggered"}, NEW r \in BOOLEAN,
         Allocated(e, s, r), UNCHANGED <<now, made>>,
         UNCHANGED heap \/ \E d \in Nat : _sim_event_schedule(e, d)
  PROVE  Instant
<1>1. ~Owned(e) /\ made[e] = NULL
  BY AllocatedSpares, AllocatedIsNoCondition DEF Allocated
<1>2. \A x \in Addr \ {e} : state'[x] = state[x]
  BY AllocatedEffect DEF IInv, TypeOK, Ev
<1>3. KeepsEntries
  <2>1. CASE UNCHANGED heap
    BY <2>1 DEF KeepsEntries, Entered
  <2>2. CASE \E d \in Nat : _sim_event_schedule(e, d)
    BY <2>2, ScheduleKeeps DEF IInv, Ev
  <2> QED
    BY <2>1, <2>2
<1> QED
  BY <1>1, <1>2, <1>3, UsuallyInstant

(* The choice of a customer who waits is not changed by one.               *)
LEMMA KeepsChoice ==
  ASSUME BankInv, Instant, NEW q \in Proc, pc[q] \in Asked, NEW c \in Addr, Choice(q, c),
         req'[q] = req[q], limit'[q] = limit[q]
  PROVE  Choice(q, c)' /\ (state[c] = "processed" => state'[c] = "processed")
<1>1. Owned(req[q]) /\ req[q] \in Addr
  BY DEF BankInv, Mine, Owned
<1>2. state'[req'[q]] = "processed" <=> state[req[q]] = "processed"
  BY <1>1 DEF Instant
<1>3. made'[c] = made[c] /\ (state[c] = "processed" => state'[c] = "processed")
  BY DEF Choice, Instant
<1> QED
  BY <1>2, <1>3 DEF Choice, Instant, KeepsEntries

-----------------------------------------------------------------------------
(* The steps of the program.                                               *)

(* A step of process p.                                                    *)
LEMMA OwnWait ==
  ASSUME BankInv, AllWait, Instant, NEW p \in Proc, ctx = p, ctx' \in {p, "dispatch"},
         Waits(p)',
         \A q \in Proc \ {p} :
           /\ pc'[q] = pc[q] /\ req'[q] = req[q] /\ ev'[q] = ev[q] /\ limit'[q] = limit[q]
           /\ yielded'[q] = yielded[q] /\ waitOn'[q] = waitOn[q]
  PROVE  AllWait'
<1>1. \A q \in Proc : q # "dispatch"
  BY AddressesDiffer
<1>2. ASSUME NEW q \in Proc \ {p} PROVE Waits(q)'
  BY <1>1, KeepsWaits DEF AllWait
<1> QED
  BY <1>2 DEF AllWait

LEMMA TimeoutWait ==
  ASSUME BankInv, AllWait, NEW p \in Proc, NEW here, NEW there, NEW times,
         there \notin {"wait", "choose"}, times \subseteq Delays,
         Timeout(p, here, times, there)
  PROVE  AllWait'
<1>i. IInv /\ CondOK /\ TypeOK /\ BankTypes /\ now \in Nat /\ ctx = p
  BY DEF BankInv, LibraryInv, CondInv, IInv, TypeOK, Timeout, At
<1>1. PICK d \in times : sim_timeout(New, d) /\ limit' = [limit EXCEPT ![p] = now + d]
  BY DEF Timeout
<1>e. PICK e \in Addr : e = New
  BY <1>i, <1>1, NewIsEvent DEF sim_timeout, Allocated
<1>2. /\ Allocated(e, "triggered", TRUE) /\ _sim_event_schedule(e, d) /\ d \in Nat
      /\ UNCHANGED <<now, made, ctx, yielded, waitOn, req>>
      /\ ev' = [ev EXCEPT ![p] = e] /\ pc' = [pc EXCEPT ![p] = there]
  BY <1>1, <1>e, BoundsAreNaturals
     DEF Timeout, sim_timeout, condVars, procVars, ctlVars, ghosts
<1>3. Instant
  BY <1>i, <1>2, AllocatedInstant
<1>4. /\ pc'[p] = there /\ ev'[p] = e /\ limit'[p] = now + d
      /\ \A q \in Proc \ {p} : pc'[q] = pc[q] /\ ev'[q] = ev[q] /\ limit'[q] = limit[q]
  BY <1>i, <1>1, <1>2 DEF BankTypes
<1>5. Waits(p)'
  <2>1. \E i \in DOMAIN heap' : heap'[i] = [time |-> now + d, ev |-> e]
    BY <1>i, <1>2, ScheduleKeeps DEF Ev
  <2>2. Entered(limit[p], ev[p])'
    BY <1>4, <2>1 DEF Entered
  <2> QED
    BY <1>4, <2>2 DEF Waits
<1> QED
  BY <1>i, <1>2, <1>3, <1>4, <1>5, OwnWait

LEMMA YieldWait ==
  ASSUME BankInv, AllWait, NEW p \in Proc, NEW here, NEW there, Yield(p, here, ev[p], there),
         there \in {"source", "release"} \/ (here = "wait" /\ there = "choose")
  PROVE  AllWait'
<1>i. /\ IInv /\ TypeOK /\ BankTypes /\ ctx = p /\ pc[p] = here /\ Waits(p)
      /\ state \in [Ev -> {"fresh", "pending", "triggered", "processed"}]
      /\ yielded \in [Proc -> Addr \cup {NULL}] /\ waitOn \in [Proc -> Addr \cup {NULL}]
      /\ \A a \in Addr : a \in Ev /\ a # p
  BY AddressesDiffer DEF BankInv, LibraryInv, CondInv, IInv, TypeOK, Yield, At, AllWait, Ev
<1>e. PICK e \in Addr : e = ev[p]
  BY DEF Yield, sim_yield
<1>1. /\ sim_yield(p, e) /\ ctx' = "dispatch"
      /\ UNCHANGED <<now, made, req, ev, limit>> /\ pc' = [pc EXCEPT ![p] = there]
      /\ yielded' = [yielded EXCEPT ![p] = e]
      /\ waitOn' = [waitOn EXCEPT ![p] = IF state[e] = "processed" THEN NULL ELSE e]
  BY <1>e DEF Yield, sim_yield, condVars
<1>2. KeepsEntries /\ \A x \in Addr : state'[x] = state[x]
  <2>1. CASE state[e] = "processed"
    <3>1. schedule_resume(p, e)
      BY <1>1, <2>1 DEF sim_yield
    <3>2. state' = [state EXCEPT ![p] = "triggered"]
      BY <1>i, <3>1, ScheduleResumeEffect
    <3> QED
      BY <1>i, <3>1, <3>2, ResumeKeeps
  <2>2. CASE state[e] # "processed"
    BY <1>1, <2>2 DEF sim_yield, KeepsEntries, Entered
  <2> QED
    BY <2>1, <2>2
<1>3. Instant
  BY <1>1, <1>2, UsuallyInstant
<1>4. /\ pc'[p] = there /\ yielded'[p] = e /\ ctx' # p
      /\ waitOn'[p] = IF state[e] = "processed" THEN NULL ELSE e
      /\ \A q \in Proc \ {p} : /\ pc'[q] = pc[q] /\ yielded'[q] = yielded[q]
                               /\ waitOn'[q] = waitOn[q]
  BY <1>i, <1>1, AddressesDiffer DEF BankTypes
<1>5. Waits(p)'
  <2>1. CASE here = "wait" /\ there = "choose"
    <3>1. Choice(p, e) /\ pc[p] \in Asked
      BY <1>i, <1>e, <2>1 DEF Waits, Asked
    <3>2. Choice(p, e)' /\ ev'[p] = e
      BY <1>1, <1>3, <1>e, <3>1, KeepsChoice
    <3>3. Choice(p, ev[p])'
      BY <3>2
    <3>4. state[e] = "processed" => state'[e] = "processed"
      BY <1>2
    <3> QED
      BY <1>4, <2>1, <3>2, <3>3, <3>4 DEF Waits
  <2>2. CASE there \in {"source", "release"}
    BY <1>4, <2>2 DEF Waits
  <2> QED
    BY <2>1, <2>2
<1> QED
  BY <1>i, <1>1, <1>3, <1>4, <1>5, OwnWait

LEMMA EndWait ==
  ASSUME BankInv, AllWait, NEW p \in Proc, NEW here, End(p, here)
  PROVE  AllWait'
<1>i. BankTypes /\ ctx = p /\ Quiet
  BY DEF BankInv, End, At
<1>1. /\ process_entry_end(p) /\ done[p] = NULL
      /\ pc' = [pc EXCEPT ![p] = NULL] /\ req' = [req EXCEPT ![p] = NULL]
      /\ ev' = [ev EXCEPT ![p] = NULL] /\ UNCHANGED <<made, limit>>
  BY <1>i DEF End, condVars, Quiet
<1>2. /\ ctx' = "dispatch" /\ UNCHANGED <<now, state, heap, yielded, waitOn>>
  BY <1>1 DEF process_entry_end, ghosts
<1>3. Instant
  BY <1>1, <1>2, UsuallyInstant DEF KeepsEntries, Entered
<1>4. /\ pc'[p] = NULL
      /\ \A q \in Proc \ {p} : pc'[q] = pc[q] /\ req'[q] = req[q] /\ ev'[q] = ev[q]
  BY <1>i, <1>1 DEF BankTypes
<1>5. Waits(p)'
  BY <1>4, NullIsNoBankStage DEF Waits, BankStages
<1> QED
  BY <1>i, <1>1, <1>2, <1>3, <1>4, <1>5, OwnWait

LEMMA StartWait ==
  ASSUME BankInv, AllWait, NEW there \in {"source", "customer"}, NEW then,
         Start(there, then), ctx \in Proc => then = "gap"
  PROVE  AllWait'
<1>n. PICK n \in Proc : n = NewProc
  BY DEF Start
<1>i. /\ IInv /\ TypeOK /\ BankTypes
      /\ state \in [Ev -> {"fresh", "pending", "triggered", "processed"}]
      /\ yielded \in [Proc -> Addr \cup {NULL}] /\ waitOn \in [Proc -> Addr \cup {NULL}]
      /\ \A a \in Addr : a \in Ev /\ a # n
  BY AddressesDiffer DEF BankInv, LibraryInv, CondInv, IInv, TypeOK, Ev
<1>1. /\ schedule_resume(n, NULL) /\ UNCHANGED <<now, made, ctx, req, ev, limit>>
      /\ pc' = [q \in Proc |-> IF q = n THEN there ELSE IF ctx = q THEN then ELSE pc[q]]
      /\ yielded' = [yielded EXCEPT ![n] = NULL] /\ waitOn' = [waitOn EXCEPT ![n] = NULL]
  BY <1>n DEF Start, sim_process, condVars, ctlVars
<1>2. Instant
  <2>1. state' = [state EXCEPT ![n] = "triggered"]
    BY <1>i, <1>1, ScheduleResumeEffect
  <2> QED
    BY <1>i, <1>1, <2>1, ResumeKeeps, UsuallyInstant
<1>3. ASSUME NEW q \in Proc PROVE Waits(q)'
  <2>1. CASE pc'[q] \in {"source", "customer", "gap"}
    BY <2>1 DEF Waits
  <2>2. CASE q # n /\ ctx # q
    BY <1>i, <1>1, <1>2, <2>2, KeepsWaits DEF AllWait
  <2> QED
    BY <1>1, <2>1, <2>2
<1> QED
  BY <1>3 DEF AllWait

LEMMA RequestWait ==
  ASSUME BankInv, AllWait, NEW p \in Proc, customer_request(p)
  PROVE  AllWait'
<1>i. IInv /\ CondOK /\ TypeOK /\ BankTypes /\ ctx = p
  BY DEF BankInv, LibraryInv, CondInv, IInv, customer_request, At
<1>e. PICK e \in Addr : e = New
  BY <1>i, NewIsEvent DEF customer_request, Allocated
<1>1. /\ \/ Allocated(e, "triggered", FALSE) /\ _sim_event_schedule(e, 0)
         \/ Allocated(e, "pending", FALSE) /\ UNCHANGED heap
      /\ req' = [req EXCEPT ![p] = e] /\ pc' = [pc EXCEPT ![p] = "patience"]
      /\ UNCHANGED <<now, made, ctx, ev, limit, yielded, waitOn>>
  BY <1>e DEF customer_request, condVars, ctlVars, procVars, ghosts
<1>2. Instant
  BY <1>i, <1>1, AllocatedInstant
<1>3. /\ pc'[p] = "patience"
      /\ \A q \in Proc \ {p} : pc'[q] = pc[q] /\ req'[q] = req[q]
  BY <1>i, <1>1 DEF BankTypes
<1>4. Waits(p)'
  BY <1>3 DEF Waits
<1> QED
  BY <1>i, <1>1, <1>2, <1>3, <1>4, OwnWait

LEMMA ReleaseWait ==
  ASSUME BankInv, AllWait, NEW p \in Proc, customer_release(p)
  PROVE  AllWait'
<1>i. /\ IInv /\ TypeOK /\ BankTypes /\ Line /\ ctx = p
      /\ state \in [Ev -> {"fresh", "pending", "triggered", "processed"}] /\ Addr \subseteq Ev
  BY DEF BankInv, LibraryInv, CondInv, IInv, TypeOK, customer_release, At, Ev
<1>1. /\ hand_on \/ UNCHANGED <<state, heap>>
      /\ pc' = [pc EXCEPT ![p] = "leave"]
      /\ UNCHANGED <<now, made, ctx, req, ev, limit, yielded, waitOn>>
  BY DEF customer_release, condVars, ctlVars, procVars, ghosts
<1>2. Instant
  <2>1. CASE UNCHANGED <<state, heap>>
    BY <1>1, <2>1, UsuallyInstant DEF KeepsEntries, Entered
  <2>2. CASE hand_on /\ queue # <<>>
    <3>1. queue \in Seq(Addr)
      BY <1>i DEF BankTypes
    <3>2. PICK h \in Addr : h = Head(queue) /\ h \in ToSet(queue)
      BY <2>2, <3>1, TailElements
    <3>3. /\ state' = [state EXCEPT ![h] = "triggered"] /\ _sim_event_schedule(h, 0)
          /\ state[h] = "pending"
      BY <1>i, <2>2, <3>2 DEF hand_on, Line
    <3>4. KeepsEntries
      BY <1>i, <3>3, ScheduleKeeps
    <3> QED
      BY <1>i, <1>1, <3>3, <3>4, UsuallyInstant
  <2> QED
    BY <1>1, <2>1, <2>2 DEF hand_on
<1>3. pc'[p] = "leave" /\ \A q \in Proc \ {p} : pc'[q] = pc[q]
  BY <1>i, <1>1 DEF BankTypes
<1>4. Waits(p)'
  BY <1>3 DEF Waits
<1> QED
  BY <1>i, <1>1, <1>2, <1>3, <1>4, OwnWait

LEMMA EitherWait ==
  ASSUME BankInv, AllWait, NEW p \in Proc, customer_either(p)
  PROVE  AllWait'
<1>i. /\ IInv /\ CondOK /\ TypeOK /\ BankTypes /\ Mine(p) /\ Waits(p) /\ ctx = p /\ pc[p] = "either"
      /\ state \in [Ev -> {"fresh", "pending", "triggered", "processed"}] /\ Addr \subseteq Ev
      /\ made \in [Addr -> Condition \cup {NULL}]
  BY DEF BankInv, LibraryInv, CondInv, CondTypeOK, IInv, TypeOK, customer_either, At, AllWait, Ev
<1>1. PICK c \in Addr, evs \in Inputs :
        /\ make_cond(c, evs, TRUE) /\ ev' = [ev EXCEPT ![p] = c]
        /\ Len(evs) = 2 /\ evs[1] = req[p] /\ evs[2] = ev[p]
  BY EitherMakes
<1>2. /\ UNCHANGED <<now, ctx, req, limit, yielded, waitOn>> /\ pc' = [pc EXCEPT ![p] = "wait"]
  BY <1>1 DEF customer_either, make_cond, procVars, ctlVars, ghosts
<1> DEFINE m == [any |-> TRUE, n |-> Len(evs), left |-> Restrict(evs, Waiting(evs))]
<1>3. /\ _sim_event_alloc(c) /\ made' = [made EXCEPT ![c] = m]
      /\ \/ state' = [state EXCEPT ![c] = "triggered"] /\ _sim_event_schedule(c, 0)
         \/ state' = [state EXCEPT ![c] = "pending"] /\ UNCHANGED heap
  BY <1>i, <1>1, MakeEffect
<1>4. DOMAIN evs = 1..2 /\ Waiting(evs) \subseteq DOMAIN evs
  BY <1>i, <1>1, InputsInUse DEF Waiting
<1>5. /\ m.any = TRUE /\ m.n = 2
      /\ DOMAIN m.left = Waiting(evs) /\ \A i \in Waiting(evs) : m.left[i] = evs[i]
  BY <1>1, <1>4 DEF Restrict
<1>m. m # NULL
  <2>1. made'[c] = m /\ CondInv'
    <3>1. LibraryInv'
      BY <1>1, MakeLibrary DEF BankInv
    <3> QED
      BY <1>i, <1>3, <3>1 DEF LibraryInv
  <2>2. \A i \in 1..2 : evs[i] \in Addr
    BY <1>i, <1>1, <1>4, InputsInUse
  <2>3. m \in Condition
    <3>1. Waiting(evs) \in SUBSET (1..MaxInputs) /\ 2 \in 0..MaxInputs
      BY <1>4, EitherIsOfTwo, InputsAreBounded
    <3>2. Restrict(evs, Waiting(evs)) \in [Waiting(evs) -> Addr]
      BY <1>4, <2>2 DEF Restrict
    <3>3. Restrict(evs, Waiting(evs)) \in Unprocessed
      BY <3>1, <3>2 DEF Unprocessed
    <3> QED
      BY <1>1, <3>1, <3>3 DEF Condition
  <2> QED
    BY <2>3, NullIsNoRecord
<1>6. /\ made'[c] = m /\ \A x \in Addr \ {c} : made'[x] = made[x] /\ state'[x] = state[x]
  BY <1>i, <1>3
<1> HIDE DEF m
<1>7. KeepsEntries
  BY <1>i, <1>3, ScheduleKeeps DEF KeepsEntries, Entered
<1>8. made[c] = NULL /\ ~Owned(c)
  BY <1>i, <1>3, <1>6, AllocTakes, AllocatedIsNoCondition DEF Owned
<1>9. Instant
  BY <1>2, <1>6, <1>7, <1>8 DEF Instant
<1>10. /\ pc'[p] = "wait" /\ ev'[p] = c /\ req'[p] = req[p] /\ limit'[p] = limit[p]
       /\ \A q \in Proc \ {p} : pc'[q] = pc[q] /\ ev'[q] = ev[q]
  BY <1>i, <1>1, <1>2 DEF BankTypes
<1>11. Choice(p, c)'
  <2>1. Owned(req[p]) /\ req[p] \in Addr /\ ev[p] \in Addr /\ state[ev[p]] = "triggered"
    BY <1>i DEF Mine, Asked, Owned
  <2>2. state'[req'[p]] = "processed" <=> state[req[p]] = "processed"
    BY <1>9, <1>10, <2>1 DEF Instant
  <2>3. 1 \in Waiting(evs) <=> state[req[p]] # "processed"
    BY <1>1, <1>4 DEF Waiting
  <2>4. 2 \in Waiting(evs)
    BY <1>1, <1>4, <2>1 DEF Waiting
  <2>5. PICK x \in Addr, t \in Nat : x = ev[p] /\ t = limit[p] /\ Entered(t, x)
    BY <1>i, <2>1 DEF Waits, BankTypes
  <2>6. Entered(t, x)'
    BY <1>7, <2>5 DEF KeepsEntries
  <2>7. Entered(limit[p], made[c].left[2])' /\ made'[c].left[2] \in Addr
    <3>1. limit'[p] = t /\ made'[c].left[2] = x
      BY <1>1, <1>5, <1>6, <1>10, <2>4, <2>5
    <3> QED
      BY <2>6, <3>1 DEF Entered
  <2> QED
    BY <1>m, <1>1, <1>5, <1>6, <1>10, <2>2, <2>3, <2>4, <2>7 DEF Choice
<1>12. Waits(p)'
  <2>1. Choice(p, ev[p])'
    BY <1>10, <1>11
  <2> QED
    BY <1>10, <2>1 DEF Waits
<1> QED
  BY <1>i, <1>2, <1>9, <1>10, <1>12, OwnWait

LEMMA MainWait ==
  ASSUME BankInv, AllWait, main_run
  PROVE  AllWait'
<1>1. /\ ctx = "main" /\ ctx' = "loop"
      /\ UNCHANGED <<now, heap, state, made, pc, req, ev, limit, yielded, waitOn>>
  BY DEF main_run, StartRun, appVars, condVars, evVars, procVars, ghosts
<1>2. Instant
  BY <1>1, UsuallyInstant DEF KeepsEntries, Entered
<1>3. \A q \in Proc : ctx # q /\ ctx' # q
  BY <1>1, AddressesDiffer
<1>4. \A q \in Proc : Waits(q)'
  BY <1>1, <1>2, <1>3, KeepsWaits DEF AllWait
<1> QED
  BY <1>4 DEF AllWait

-----------------------------------------------------------------------------
(* The library's steps.                                                    *)

(* Whoever is behind a sim_yield has chosen.                               *)
LEMMA BehindYield ==
  ASSUME BankInv, NEW q \in Proc, ctx # q, pc[q] \in {"either", "wait", "choose"}
  PROVE  pc[q] = "choose" /\ Suspended(q) /\ ~interrupt_pending[q]
<1>1. Life(q) /\ pstate[q] \in {"unborn", "new", "running", "dead"}
  BY DEF BankInv, LibraryInv, CondInv, IInv, TypeOK
<1> QED
  BY <1>1, NullIsNoBankStage DEF Life, BankStages, Suspended

(* No time passes while an event of this instant is in the queue.          *)
LEMMA TimeStands ==
  ASSUME IInv, ResumeAtOnce, NEW i \in DOMAIN heap, heap[i].time = now
  PROVE  Head(heap).time = now
<1>1. heap \in Seq(Entry(Ev)) /\ now \in Nat
  BY DEF IInv, TypeOK
<1>2. /\ 1 \in DOMAIN heap /\ Head(heap) = heap[1] /\ heap[1].time \in Nat /\ i \in Nat
      /\ 1 = i \/ 1 < i
  BY <1>1, EntryTimes
<1>3. now <= heap[1].time /\ heap[1].time <= heap[i].time
  BY <1>1, <1>2 DEF ResumeAtOnce, InTimeOrder
<1> QED
  BY <1>1, <1>2, <1>3

(* So the end of a patience is not missed: a customer whose patience ended *)
(* is told at once.                                                        *)
LEMMA ToldAtOnce ==
  ASSUME BankInv, ctx = "loop", heap # <<>>, NEW p \in Proc, pc[p] = "choose",
         NEW c \in Addr, Choice(p, c), 2 \notin DOMAIN made[c].left,
         yielded[p] = c
  PROVE  Head(heap).time = now
<1>i. /\ CondInv /\ IInv /\ CondOK /\ ResumeAtOnce /\ Timely /\ ControlOK
      /\ AwaitedOK /\ NoLostWakeup /\ QueuedOnce /\ p \in Ev /\ c \in Ev
      /\ state \in [Ev -> {"fresh", "pending", "triggered", "processed"}]
  BY DEF BankInv, LibraryInv, CondInv, IInv, TypeOK, Clocked, Ev
<1>1. rest = <<>> /\ current = NULL
  BY <1>i DEF ControlOK
<1>2. made[c] # NULL /\ made[c].any /\ made[c].n = 2
  BY DEF Choice
<1>3. state[c] \in {"triggered", "processed"}
  <2>1. Met(made[c])
    BY <1>2 DEF Met
  <2>2. state[c] # "pending"
    BY <1>i, <1>1, <1>2, <2>1, SoundIsMet
  <2>3. state[c] # "fresh"
    BY <1>i, <1>2 DEF CondOK, Sound
  <2> QED
    BY <1>i, <2>2, <2>3
<1>4. CASE state[c] = "triggered"
  <2>1. PICK i \in DOMAIN heap : heap[i].ev = c
    BY <1>i, <1>4 DEF QueuedOnce, Queued
  <2>2. heap[i].time = now
    BY <1>i, <1>2, <2>1 DEF Timely
  <2> QED
    BY <1>i, <2>2, TimeStands
<1>5. CASE state[c] = "processed"
  <2>1. Suspended(p)
    BY BehindYield, AddressesDiffer
  <2>2. ~ResumeDue(p) /\ ~Listening(p)
    BY <1>1, <1>5, AddressesDiffer DEF ResumeDue, Listening
  <2>3. state[p] = "triggered"
    BY <1>i, <2>1, <2>2 DEF NoLostWakeup, ResumeQueued
  <2>4. PICK i \in DOMAIN heap : heap[i].ev = p
    BY <1>i, <2>3 DEF QueuedOnce, Queued
  <2>5. heap[i].time = now
    BY <1>i, <2>4 DEF ResumeAtOnce
  <2> QED
    BY <1>i, <2>5, TimeStands
<1> QED
  BY <1>3, <1>4, <1>5

(* What sim_step takes from the queue is of the time that it sets.         *)
LEMMA EntryTaken ==
  ASSUME IInv, sim_step, NEW e \in Ev, e = Head(heap).ev, NEW t, NEW x, Entered(t, x)
  PROVE  IF x = e THEN now' = t ELSE Entered(t, x)'
<1>i. /\ QueuedOnce /\ heap \in Seq(Entry(Ev)) /\ heap # <<>> /\ heap' = Tail(heap)
      /\ now' = Head(heap).time
  BY DEF IInv, TypeOK, sim_step, MayStep
<1>1. PICK i \in DOMAIN heap : heap[i] = [time |-> t, ev |-> x]
  BY DEF Entered
<1>2. /\ heap[i].time = t /\ heap[i].ev = x /\ 1 \in DOMAIN heap /\ Head(heap) = heap[1]
  BY <1>i, <1>1, EntryTimes
<1>3. CASE x = e
  <2>1. i = 1
    BY <1>i, <1>2, <1>3 DEF QueuedOnce, Distinct
  <2> QED
    BY <1>i, <1>2, <1>3, <2>1
<1>4. CASE x # e
  <2>1. heap[i] # Head(heap)
    BY <1>2, <1>4
  <2>2. \E j \in DOMAIN Tail(heap) : Tail(heap)[j] = heap[i]
    BY <1>i, <2>1, EntriesKept
  <2> QED
    BY <1>i, <1>1, <1>4, <2>2 DEF Entered
<1> QED
  BY <1>3, <1>4

(* sim_step processes an input of a choice, or nothing of it.              *)
LEMMA StepWait ==
  ASSUME BankInv, AllWait, sim_step, made' = Noted(current'), UNCHANGED appVars
  PROVE  AllWait'
<1>i. /\ IInv /\ CondTypeOK /\ QueuedOnce /\ heap \in Seq(Entry(Ev))
      /\ ctx = "loop" /\ ctx' = "dispatch" /\ heap # <<>> /\ heap' = Tail(heap)
      /\ now' = Head(heap).time /\ UNCHANGED <<pc, req, ev, limit>>
      /\ state \in [Ev -> {"fresh", "pending", "triggered", "processed"}] /\ Addr \subseteq Ev
  BY DEF BankInv, LibraryInv, CondInv, IInv, TypeOK, sim_step, MayStep, appVars, Ev
<1>1. PICK e \in Ev : e = Head(heap).ev
  BY <1>i, EntryTimes
<1>2. /\ state' = [state EXCEPT ![e] = "processed"] /\ made' = Noted(e)
      /\ waitOn' = [p \in Proc |-> IF waitOn[p] = e THEN NULL ELSE waitOn[p]]
      /\ yielded' = yielded
  BY <1>1 DEF sim_step, procVars
<1>3. \A q \in Proc : ctx # q /\ ctx' # q
  BY <1>i, AddressesDiffer
<1>4. ASSUME NEW t, NEW x, Entered(t, x)
      PROVE  IF x = e THEN now' = t ELSE Entered(t, x)'
  BY <1>i, <1>1, <1>4, EntryTaken
<1>5. ASSUME NEW p \in Proc PROVE Waits(p)'
  <2>1. CASE pc[p] \notin {"either", "wait", "choose"}
    BY <1>i, <2>1 DEF Waits
  <2>2. CASE pc[p] \in {"either", "wait", "choose"}
    <3>1. pc[p] = "choose"
      BY <1>3, <2>2, BehindYield
    <3>2. PICK c \in Addr, r \in Addr, t \in Nat :
            /\ c = ev[p] /\ r = req[p] /\ t = limit[p] /\ Choice(p, c) /\ yielded[p] = c
            /\ waitOn[p] = c \/ state[c] = "processed"
      BY <1>3, <3>1 DEF AllWait, Waits, BankInv, BankTypes, Mine, Asked, Owned
    <3>3. yielded'[p] = c /\ (waitOn'[p] = c \/ state'[c] = "processed")
      BY <1>i, <1>2, <3>2
    <3> DEFINE m == made[c]
    <3>4. /\ m # NULL /\ m.any /\ m.n = 2
          /\ 1 \in DOMAIN m.left <=> state[r] # "processed"
          /\ 1 \in DOMAIN m.left => m.left[1] = r
          /\ IF 2 \in DOMAIN m.left THEN m.left[2] \in Addr /\ Entered(t, m.left[2]) ELSE now = t
      BY <3>2 DEF Choice
    <3>5. /\ made'[c] # NULL /\ made'[c].any /\ made'[c].n = 2
          /\ DOMAIN made'[c].left = {i \in DOMAIN m.left : m.left[i] # e}
          /\ \A i \in DOMAIN made'[c].left : made'[c].left[i] = m.left[i]
      BY <1>i, <1>2, <3>4, NotedEffect
    <3>6. state'[r] = "processed" <=> state[r] = "processed" \/ r = e
      BY <1>i, <1>2
    <3>7. /\ 1 \in DOMAIN made'[c].left <=> state'[r] # "processed"
          /\ 1 \in DOMAIN made'[c].left => made'[c].left[1] = r
      BY <3>4, <3>5, <3>6
    <3>8. IF 2 \in DOMAIN made'[c].left
          THEN \E x \in Addr : made'[c].left[2] = x /\ Entered(t, x)'
          ELSE now' = t
      <4>1. CASE 2 \notin DOMAIN m.left
        <5>1. now' = now
          BY <1>i, <3>1, <3>2, <4>1, ToldAtOnce
        <5> QED
          BY <3>4, <3>5, <4>1, <5>1
      <4>2. CASE 2 \in DOMAIN m.left
        <5>1. PICK x \in Addr : x = m.left[2] /\ Entered(t, x)
          BY <3>4, <4>2
        <5>2. IF x = e THEN now' = t ELSE Entered(t, x)'
          BY <1>4, <5>1
        <5> QED
          BY <3>5, <4>2, <5>1, <5>2
      <4> QED
        BY <4>1, <4>2
    <3>9. Choice(p, ev[p])'
      <4>1. ev'[p] = c /\ limit'[p] = t /\ req'[p] = r
        BY <1>i, <3>2
      <4> HIDE DEF m
      <4> QED
        BY <3>5, <3>7, <3>8, <4>1 DEF Choice, Entered
    <3> QED
      BY <1>i, <1>3, <3>1, <3>2, <3>3, <3>9 DEF Waits
  <2> QED
    BY <2>1, <2>2
<1> QED
  BY <1>5 DEF AllWait

(* The other steps, of which one resumes a process.                        *)
LEMMA RunWait ==
  ASSUME BankInv, AllWait, Run, UNCHANGED appVars
  PROVE  AllWait'
<1>i. /\ IInv /\ TypeOK /\ UNCHANGED <<pc, req, ev, limit>>
      /\ state \in [Ev -> {"fresh", "pending", "triggered", "processed"}]
      /\ pstate \in [Proc -> {"unborn", "new", "running", "dead"}]
      /\ yielded \in [Proc -> Addr \cup {NULL}] /\ waitOn \in [Proc -> Addr \cup {NULL}]
      /\ Addr \subseteq Ev /\ \A a \in Addr : a \notin Proc
  BY AddressesDiffer DEF BankInv, LibraryInv, CondInv, IInv, TypeOK, appVars, Ev
<1>c. ctx \notin Proc
  BY <1>i, RunControl
<1>o. ASSUME Instant, UNCHANGED <<yielded, waitOn>>, NEW q \in Proc, ctx' # q PROVE Waits(q)'
  BY <1>i, <1>c, <1>o, KeepsWaits DEF AllWait
<1>1. CASE sim_step /\ made' = Noted(current')
  BY <1>1, StepWait
<1>2. CASE cond_cb
  <2>1. PICK out \in Addr :
          \/ UNCHANGED <<state, heap>>
          \/ /\ state[out] = "pending" /\ state' = [state EXCEPT ![out] = "triggered"]
             /\ _sim_event_schedule(out, 0)
    BY <1>i, <1>2, CondCbEffect
  <2>2. UNCHANGED <<now, made, ctx, yielded, waitOn>>
    BY <1>2 DEF cond_cb, procVars, ghosts
  <2>3. KeepsEntries
    BY <1>i, <2>1, ScheduleKeeps DEF KeepsEntries, Entered
  <2>4. Instant
    BY <1>i, <2>1, <2>2, <2>3, UsuallyInstant
  <2> QED
    BY <1>c, <1>o, <2>2, <2>4 DEF AllWait
<1>3. CASE waiter_cb /\ UNCHANGED condVars
  <2>1. PICK p \in Proc : p = Head(rest).user
    BY <1>i, <1>3, NextCallbackType DEF waiter_cb
  <2>2. UNCHANGED <<state, heap>> \/ \E v : schedule_resume(p, v)
    BY <1>3, <2>1 DEF waiter_cb
  <2>3. UNCHANGED <<now, made, ctx, yielded, waitOn>>
    BY <1>3 DEF waiter_cb, condVars, ghosts
  <2>4. KeepsEntries /\ \A x \in Addr : state'[x] = state[x]
    <3>1. ASSUME NEW v, schedule_resume(p, v)
          PROVE  KeepsEntries /\ \A x \in Addr : state'[x] = state[x]
      <4>1. state' = [state EXCEPT ![p] = "triggered"]
        BY <1>i, <3>1, ScheduleResumeEffect
      <4> QED
        BY <1>i, <3>1, <4>1, ResumeKeeps
    <3> QED
      BY <2>2, <3>1 DEF KeepsEntries, Entered
  <2>5. Instant
    BY <2>3, <2>4, UsuallyInstant
  <2> QED
    BY <1>c, <1>o, <2>3, <2>5 DEF AllWait
<1>4. CASE /\ \/ FinishRun \/ LagAbort \/ user_cb \/ EndDispatch \/ resume_cb_dead
           /\ UNCHANGED condVars
  <2>1. running # "until"
    BY <1>i, HostRuns DEF TypeOK
  <2>2. /\ UNCHANGED <<now, heap, state, made, yielded, waitOn>>
        /\ ctx' \in {"main", "loop", "dispatch", "callback"}
    BY <1>4, <2>1
       DEF FinishRun, LagAbort, Return, IsLate, user_cb, EndDispatch, resume_cb_dead,
           NextCallback, evVars, procVars, ghosts, condVars
  <2>3. Instant
    BY <2>2, UsuallyInstant DEF KeepsEntries, Entered
  <2>4. \A q \in Proc : ctx' # q
    BY <2>2, AddressesDiffer
  <2> QED
    BY <1>o, <2>2, <2>3, <2>4 DEF AllWait
<1>5. CASE resume_cb_start /\ UNCHANGED condVars
  <2>1. PICK p \in Proc : p = Head(rest).user
    BY <1>i, <1>5, NextCallbackType DEF resume_cb_start
  <2>2. /\ UNCHANGED <<now, heap, state, made, yielded, waitOn>> /\ ctx' = p /\ pstate[p] = "new"
    BY <1>5, <2>1 DEF resume_cb_start, evVars, ghosts, condVars
  <2>3. Instant
    BY <2>2, UsuallyInstant DEF KeepsEntries, Entered
  <2>4. Waits(p)'
    BY <1>i, <2>2 DEF BankInv, Life, Waits
  <2> QED
    BY <1>o, <2>2, <2>3, <2>4 DEF AllWait
<1>6. CASE resume_cb_return /\ UNCHANGED condVars
  <2>1. PICK p \in Proc : p = Head(rest).user /\ ResumeDue(p)
    BY <1>i, <1>6, ResumeIsCurrent DEF resume_cb_return, NextCallback, ResumeDue
  <2>2. /\ UNCHANGED <<now, heap, state, made>> /\ ctx' = p
        /\ yielded' = [yielded EXCEPT ![p] = NULL] /\ waitOn' = [waitOn EXCEPT ![p] = NULL]
    BY <1>6, <2>1 DEF resume_cb_return, evVars, condVars
  <2>3. Instant
    BY <2>2, UsuallyInstant DEF KeepsEntries, Entered
  <2>4. ASSUME NEW q \in Proc \ {p} PROVE Waits(q)'
    <3>1. ctx' # q /\ yielded'[q] = yielded[q] /\ waitOn'[q] = waitOn[q]
      BY <1>i, <2>2
    <3> QED
      BY <1>i, <1>c, <2>3, <3>1, KeepsWaits DEF AllWait
  <2>5. Waits(p)'
    <3>1. CASE pc[p] \in {"either", "wait", "choose"}
      <4>1. pc[p] = "choose" /\ Suspended(p) /\ ~interrupt_pending[p]
        BY <1>c, <3>1, BehindYield
      <4>2. waitOn[p] = NULL
        BY <2>1, <4>1 DEF BankInv, LibraryInv, Reasons, ReasonOK, Suspended
      <4>3. PICK c \in Addr : c = ev[p] /\ Choice(p, c) /\ state[c] = "processed"
        BY <1>c, <4>1, <4>2, AddressesDiffer DEF AllWait, Waits
      <4>4. Choice(p, c)' /\ ev'[p] = c /\ pc'[p] = "choose" /\ state'[c] = "processed"
        BY <1>i, <2>3, <4>1, <4>3, KeepsChoice DEF Asked
      <4>5. Choice(p, ev[p])'
        BY <4>4
      <4> QED
        BY <2>2, <4>4, <4>5 DEF Waits
    <3>2. CASE pc[p] \notin {"either", "wait", "choose"}
      BY <1>i, <3>2 DEF Waits
    <3> QED
      BY <3>1, <3>2
  <2> QED
    BY <2>4, <2>5 DEF AllWait
<1> QED
  BY <1>1, <1>2, <1>3, <1>4, <1>5, <1>6 DEF Run

LEMMA InitWait == BankInit => AllWait
BY NullIsNoBankStage DEF BankInit, AppInit, AllWait, Waits, BankStages

LEMMA NextWait ==
  BankInv /\ AllWait /\ [BankNext]_<<allVars, in_use, queue, left>> => AllWait'
<1> SUFFICES ASSUME BankInv, AllWait, [BankNext]_<<allVars, in_use, queue, left>> PROVE AllWait'
  OBVIOUS
<1>t. Gaps \subseteq Delays /\ Services \subseteq Delays /\ Patience \subseteq Delays
  BY TimesAreDelays, CustomersArePatient
<1>1. CASE bank_main
  <2>1. ctx \notin Proc
    BY <1>1, AddressesDiffer DEF bank_main
  <2> QED
    BY <1>1, <2>1, StartWait, MainWait DEF bank_main
<1>2. ASSUME NEW p \in Proc, source(p) PROVE AllWait'
  <2>1. CASE At(p, "source") /\ Start("customer", "gap")
    BY <2>1, StartWait
  <2>2. CASE Timeout(p, "gap", Gaps, "pause")
    BY <2>2, <1>t, TimeoutWait
  <2>3. CASE Yield(p, "pause", ev[p], "source")
    BY <2>3, YieldWait
  <2>4. CASE End(p, "source")
    BY <2>4, EndWait
  <2> QED
    BY <1>2, <2>1, <2>2, <2>3, <2>4 DEF source
<1>3. ASSUME NEW p \in Proc, customer(p) PROVE AllWait'
  <2>1. CASE customer_request(p)
    BY <2>1, RequestWait
  <2>2. CASE Timeout(p, "patience", Patience, "either")
    BY <2>2, <1>t, TimeoutWait
  <2>3. CASE customer_either(p)
    BY <2>3, EitherWait
  <2>4. CASE Yield(p, "wait", ev[p], "choose")
    BY <2>4, YieldWait
  <2>5. CASE Timeout(p, "choose", Services, "service")
    BY <2>5, <1>t, TimeoutWait
  <2>6. CASE \E here : End(p, here)
    BY <2>6, EndWait
  <2>7. CASE Yield(p, "service", ev[p], "release")
    BY <2>7, YieldWait
  <2>8. CASE customer_release(p)
    BY <2>8, ReleaseWait
  <2> QED
    BY <1>3, <2>1, <2>2, <2>3, <2>4, <2>5, <2>6, <2>7, <2>8 DEF customer
<1>4. CASE Run /\ UNCHANGED appVars
  BY <1>4, RunWait
<1>5. CASE UNCHANGED <<allVars, in_use, queue, left>>
  <2>1. UNCHANGED <<now, heap, ctx, state, made, pc, req, ev, limit, yielded, waitOn>>
    BY <1>5 DEF allVars, vars, evVars, ctlVars, procVars, ghosts, condVars, appVars
  <2> QED
    BY <2>1 DEF AllWait, Waits, Choice, Entered
<1> QED
  BY <1>1, <1>2, <1>3, <1>4, <1>5 DEF BankNext

(* Nobody waits longer than his patience; who leaves unserved does so when *)
(* it ends, and his request still waits or was granted at that very        *)
(* instant: the timeout and the grant, whatever their order, are not lost  *)
(* or late.                                                                *)
THEOREM InTime == BankSpec => []LeavesInTime
<1>1. BankInv /\ AllWait => LeavesInTime
  <2> SUFFICES ASSUME BankInv, AllWait, NEW p \in Proc, At(p, "choose")
               PROVE  /\ now <= limit[p]
                      /\ ~IsServed(p) =>
                           now = limit[p] /\ (req[p] \in ToSet(queue) \/ req[p] \in Queued(heap))
    BY DEF LeavesInTime
  <2>i. /\ CondInv /\ IInv /\ CondTypeOK /\ QueuedOnce /\ ResumeAtOnce /\ Mine(p) /\ Waits(p)
        /\ ctx = p /\ pc[p] = "choose" /\ rest = <<>> /\ now \in Nat
        /\ state \in [Ev -> {"fresh", "pending", "triggered", "processed"}] /\ Addr \subseteq Ev
    BY DEF BankInv, LibraryInv, CondInv, IInv, TypeOK, RunningOK, Clocked, At, AllWait, Ev
  <2>1. PICK c \in Addr : Choice(p, c) /\ state[c] = "processed"
    BY <2>i DEF Waits
  <2>2. 1 \notin DOMAIN made[c].left \/ 2 \notin DOMAIN made[c].left
    <3>1. made[c] # NULL /\ made[c].any /\ made[c].n = 2
      BY <2>1 DEF Choice
    <3>2. DOMAIN made[c].left # 1..2
      BY <2>i, <2>1, <3>1, SoundIsMet DEF Met
    <3>3. DOMAIN made[c].left \subseteq 1..2
      BY <2>i, <3>1 DEF CondTypeOK
    <3> QED
      BY <3>2, <3>3
  <2>3. now <= limit[p]
    BY <2>i, <2>1, EnteredIsAhead DEF Choice
  <2>4. ASSUME ~IsServed(p)
        PROVE  now = limit[p] /\ (req[p] \in ToSet(queue) \/ req[p] \in Queued(heap))
    <3>1. now = limit[p]
      BY <2>1, <2>2, <2>4 DEF Choice, IsServed
    <3>2. state[req[p]] \in {"pending", "triggered"} /\ req[p] \in Addr
      BY <2>i, <2>4 DEF Mine, Asked, Owned, IsServed
    <3> QED
      BY <2>i, <3>1, <3>2 DEF Mine, Asked, QueuedOnce
  <2> QED
    BY <2>3, <2>4
<1> QED
  BY <1>1, InitBank, InitWait, NextBank, NextWait, PTL DEF BankSpec

-----------------------------------------------------------------------------
(* The step of a preemptive resource that interrupts.                      *)

(* An entry of this instant is put into the queue.                         *)
LEMMA EntriesStay ==
  ASSUME NEW s \in Seq(Entry(Ev)), NEW t \in Nat, NEW e \in Ev, NEW r, r = Insert(s, t, e)
  PROVE  \A j \in DOMAIN s : \E i \in DOMAIN r : r[i] = s[j]
<1>1. \A u \in Nat, x \in Ev :
        /\ \E i \in DOMAIN Insert(s, u, x) : Insert(s, u, x)[i] = [time |-> u, ev |-> x]
        /\ \A j \in DOMAIN s : \E i \in DOMAIN Insert(s, u, x) : Insert(s, u, x)[i] = s[j]
  BY EntriesKept
<1> QED
  BY <1>1, Zenon

LEMMA InsertedNow ==
  ASSUME NEW s \in Seq(Entry(Ev)), NEW t \in Nat, NEW e \in Ev, NEW r,
         r = Insert(s, t, e), InTimeOrder(s), Distinct(s), e \notin Queued(s)
  PROVE  /\ r \in Seq(Entry(Ev)) /\ InTimeOrder(r) /\ Distinct(r)
         /\ Queued(r) = Queued(s) \cup {e}
         /\ \A i \in DOMAIN r : r[i] = [time |-> t, ev |-> e] \/ \E j \in DOMAIN s : r[i] = s[j]
         /\ \A j \in DOMAIN s : \E i \in DOMAIN r : r[i] = s[j]
<1>1. r \in Seq(Entry(Ev))
  BY InsertProperties
<1>2. /\ InTimeOrder(r)
      /\ \A i \in DOMAIN r : r[i] = [time |-> t, ev |-> e] \/ \E j \in DOMAIN s : r[i] = s[j]
  BY InsertOrdered
<1>3. Distinct(r)
  BY InsertDistinct
<1>4. Queued(r) = Queued(s) \cup {e}
  BY InsertQueued
<1>5. \A j \in DOMAIN s : \E i \in DOMAIN r : r[i] = s[j]
  BY EntriesStay
<1> QED
  BY <1>1, <1>2, <1>3, <1>4, <1>5

(* Request e is granted at once, in place of one whose owner q is          *)
(* interrupted: sim_event_succeed and sim_process_interrupt in one.        *)
Evicting(e, q) ==
  /\ InClient /\ pstate[q] # "dead"
  /\ _sim_event_alloc(e)
  /\ recyclable' = [recyclable EXCEPT ![e] = FALSE]
  /\ state' = [x \in Ev |-> IF x \in {e, q} THEN "triggered" ELSE state[x]]
  /\ cbs' = [x \in Ev |-> IF x = e THEN <<>>
                          ELSE IF x = q /\ state[q] # "triggered"
                               THEN Append(cbs[x], Resume(x)) ELSE cbs[x]]
  /\ heap' = IF state[q] = "triggered" THEN Insert(heap, now, e)
                                       ELSE Insert(Insert(heap, now, e), now, q)
  /\ interrupt_pending' = [interrupt_pending EXCEPT ![q] = TRUE]
  /\ interrupt_cause' = [interrupt_cause EXCEPT ![q] = gen[q]]
  /\ yielded' = [yielded EXCEPT ![q] = NULL]
  /\ resume_value' = [resume_value EXCEPT ![q] = NULL]
  /\ UNCHANGED <<now, envVars, was_interrupted, pstate, done, process_pool, gen, ctlVars,
                 ghosts, condVars>>

(* What it does to events and queue.                                       *)
LEMMA EvictEffect ==
  ASSUME IInv, ResumeAtOnce, NEW e \in Addr, NEW q \in Proc, Evicting(e, q)
  PROVE  /\ \A x \in Ev : state'[x] = IF x \in {e, q} THEN "triggered" ELSE state[x]
         /\ state' \in [Ev -> {"fresh", "pending", "triggered", "processed"}]
         /\ cbs' = [cbs EXCEPT ![q] = <<Resume(q)>>]
         /\ heap' \in Seq(Entry(Ev)) /\ InTimeOrder(heap') /\ QueuedOnce'
         /\ \A i \in DOMAIN heap' : \/ heap'[i] = [time |-> now, ev |-> e]
                                    \/ heap'[i] = [time |-> now, ev |-> q]
                                    \/ \E j \in DOMAIN heap : heap'[i] = heap[j]
         /\ KeepsEntries
<1> USE AddressesDiffer
<1>t. /\ state \in [Ev -> {"fresh", "pending", "triggered", "processed"}]
      /\ cbs \in [Ev -> Seq(Callback)] /\ heap \in Seq(Entry(Ev)) /\ now \in Nat
      /\ e \in Ev /\ q \in Ev /\ e # q
      /\ QueuedOnce /\ InTimeOrder(heap) /\ CallbacksOK
  BY DEF IInv, TypeOK, ResumeAtOnce, Ev
<1>a. state[e] \in {"fresh", "processed"} /\ cbs[e] = <<>>
  BY AllocEffect DEF Evicting
<1>1. /\ \A x \in Ev : state'[x] = IF x \in {e, q} THEN "triggered" ELSE state[x]
      /\ state' \in [Ev -> {"fresh", "pending", "triggered", "processed"}]
  BY <1>t DEF Evicting
<1>2. cbs' = [cbs EXCEPT ![q] = <<Resume(q)>>]
  <2>1. cbs[q] = IF state[q] = "triggered" THEN <<Resume(q)>> ELSE <<>>
    BY <1>t DEF CallbacksOK
  <2>2. Append(<<>>, Resume(q)) = <<Resume(q)>>
    OBVIOUS
  <2> DEFINE R == <<Resume(q)>>
  <2>3. cbs[q] = R \/ (state[q] # "triggered" /\ Append(cbs[q], Resume(q)) = R)
    BY <2>1, <2>2
  <2>4. state[q] = "triggered" => cbs[q] = R
    BY <2>1
  <2> HIDE DEF R
  <2>5. \A x \in Ev : cbs'[x] = IF x = q THEN R ELSE cbs[x]
    BY <1>t, <1>a, <2>1, <2>2, <2>4 DEF Evicting, R
  <2>6. cbs' = [x \in Ev |-> cbs'[x]]
    BY DEF Evicting
  <2>7. cbs' = [cbs EXCEPT ![q] = R]
    BY <1>t, <2>5, <2>6
  <2> QED
    BY <2>7 DEF R
<1>3. e \notin Queued(heap) /\ Distinct(heap) /\ (state[q] # "triggered" => q \notin Queued(heap))
  BY <1>t, <1>a DEF QueuedOnce
<1> DEFINE g == Insert(heap, now, e)
<1>4. /\ g \in Seq(Entry(Ev)) /\ InTimeOrder(g) /\ Distinct(g) /\ Queued(g) = Queued(heap) \cup {e}
      /\ \A i \in DOMAIN g : g[i] = [time |-> now, ev |-> e] \/ \E j \in DOMAIN heap : g[i] = heap[j]
      /\ \A j \in DOMAIN heap : \E i \in DOMAIN g : g[i] = heap[j]
  BY <1>t, <1>3, InsertedNow
<1>5. heap' = IF state[q] = "triggered" THEN g ELSE Insert(g, now, q)
  BY DEF Evicting
<1> HIDE DEF g
<1>6. /\ heap' \in Seq(Entry(Ev)) /\ InTimeOrder(heap') /\ Distinct(heap')
      /\ Queued(heap') = Queued(heap) \cup {e, q}
      /\ \A i \in DOMAIN heap' : heap'[i] = [time |-> now, ev |-> q] \/ \E j \in DOMAIN g : heap'[i] = g[j]
      /\ \A j \in DOMAIN g : \E i \in DOMAIN heap' : heap'[i] = g[j]
  <2>1. CASE state[q] = "triggered"
    <3>1. q \in Queued(heap)
      BY <1>t, <2>1 DEF QueuedOnce
    <3> QED
      BY <1>4, <1>5, <2>1, <3>1
  <2>2. CASE state[q] # "triggered"
    <3>1. q \notin Queued(g) /\ heap' = Insert(g, now, q)
      BY <1>t, <1>3, <1>4, <1>5, <2>2
    <3>2. /\ heap' \in Seq(Entry(Ev)) /\ InTimeOrder(heap') /\ Distinct(heap')
          /\ Queued(heap') = Queued(g) \cup {q}
          /\ \A i \in DOMAIN heap' : heap'[i] = [time |-> now, ev |-> q] \/ \E j \in DOMAIN g : heap'[i] = g[j]
          /\ \A j \in DOMAIN g : \E i \in DOMAIN heap' : heap'[i] = g[j]
      BY <1>t, <1>4, <3>1, InsertedNow
    <3> QED
      BY <1>4, <3>2
  <2> QED
    BY <2>1, <2>2
<1>7. QueuedOnce'
  BY <1>t, <1>1, <1>6 DEF QueuedOnce
<1>8. \A i \in DOMAIN heap' : \/ heap'[i] = [time |-> now, ev |-> e]
                              \/ heap'[i] = [time |-> now, ev |-> q]
                              \/ \E j \in DOMAIN heap : heap'[i] = heap[j]
  BY <1>4, <1>6
<1>9. KeepsEntries
  <2>1. \A j \in DOMAIN heap : \E i \in DOMAIN heap' : heap'[i] = heap[j]
    BY <1>4, <1>6
  <2> QED
    BY <2>1 DEF KeepsEntries, Entered
<1> QED
  BY <1>1, <1>2, <1>6, <1>7, <1>8, <1>9

LEMMA EvictIInv ==
  ASSUME IInv, ResumeAtOnce, NEW e \in Addr, NEW q \in Proc, Evicting(e, q)
  PROVE  IInv'
<1> USE AddressesDiffer
<1>t. /\ state \in [Ev -> {"fresh", "pending", "triggered", "processed"}]
      /\ cbs \in [Ev -> Seq(Callback)] /\ recyclable \in [Ev -> BOOLEAN]
      /\ event_pool \in Seq(Addr) /\ Addr \subseteq Ev /\ Proc \subseteq Ev /\ TypeOK
      /\ yielded \in [Proc -> Addr \cup {NULL}] /\ e # q
  BY DEF IInv, TypeOK, Ev
<1>i. /\ ControlOK /\ RunningOK /\ CallbacksOK /\ AwaitedOK /\ PooledAreDead
      /\ PoolUnused /\ QueuedOnce /\ NoLostWakeup
  BY DEF IInv
<1>a. /\ state[e] \in {"fresh", "processed"} /\ cbs[e] = <<>> /\ e # current
      /\ \A p \in Proc : waitOn[p] # e /\ done[p] # e
      /\ event_pool' \in Seq(Addr)
      /\ \A i, j \in DOMAIN event_pool' : event_pool'[i] = event_pool'[j] => i = j
      /\ \A i \in DOMAIN event_pool' :
           /\ event_pool'[i] # e
           /\ \E j \in DOMAIN event_pool : event_pool'[i] = event_pool[j]
  BY AllocEffect DEF Evicting
<1>e. /\ \A x \in Ev : state'[x] = IF x \in {e, q} THEN "triggered" ELSE state[x]
      /\ state' \in [Ev -> {"fresh", "pending", "triggered", "processed"}]
      /\ cbs' = [cbs EXCEPT ![q] = <<Resume(q)>>]
      /\ heap' \in Seq(Entry(Ev)) /\ QueuedOnce'
  BY EvictEffect
<1>u. /\ recyclable' = [recyclable EXCEPT ![e] = FALSE]
      /\ yielded' = [yielded EXCEPT ![q] = NULL] /\ pstate[q] # "dead"
      /\ UNCHANGED <<pstate, done, process_pool, waitOn, ctx, current, rest>>
  BY DEF Evicting, ctlVars, ghosts
<1>1. TypeOK'
  <2>1. cbs' \in [Ev -> Seq(Callback)]
    <3>1. Resume(q) \in Callback
      BY DEF Callback
    <3>2. <<Resume(q)>> \in Seq(Callback)
      BY <3>1
    <3> QED
      BY <1>t, <1>e, <3>2
  <2> QED
    BY <1>t, <1>a, <1>e, <2>1 DEF TypeOK, Evicting, envVars, ctlVars, ghosts
<1>2. ControlOK' /\ RunningOK'
  BY <1>t, <1>i, <1>u DEF ControlOK, RunningOK
<1>3. CallbacksOK'
  BY <1>t, <1>i, <1>a, <1>e, <1>u DEF CallbacksOK, NoResume
<1>4. AwaitedOK'
  <2>1. \A x \in Addr \ {e} : state'[x] = state[x] /\ recyclable'[x] = recyclable[x]
    BY <1>t, <1>e, <1>u
  <2>2. \A p \in Proc : waitOn[p] \in Addr \cup {NULL} /\ done[p] \in Addr \cup {NULL}
    BY <1>t DEF TypeOK
  <2> QED
    BY <1>i, <1>a, <1>u, <2>1, <2>2 DEF AwaitedOK
<1>5. PooledAreDead'
  BY <1>i, <1>u DEF PooledAreDead
<1>6. PoolUnused'
  BY <1>t, <1>i, <1>a, <1>e, <1>u DEF PoolUnused
<1>7. NoLostWakeup'
  BY <1>t, <1>i, <1>a, <1>e, <1>u
     DEF NoLostWakeup, Suspended, ResumeQueued, ResumeDue, Listening
<1> QED
  BY <1>e, <1>1, <1>2, <1>3, <1>4, <1>5, <1>6, <1>7 DEF IInv

LEMMA EvictLibrary ==
  ASSUME LibraryInv, NEW e \in Addr, NEW q \in Proc, Evicting(e, q)
  PROVE  LibraryInv' /\ ~Owned(e) /\ Sparing /\ KeepsEntries
<1>i. /\ IInv /\ Clocked /\ Reasons /\ CondOK /\ ResumeAtOnce
      /\ state \in [Ev -> {"fresh", "pending", "triggered", "processed"}]
      /\ cbs \in [Ev -> Seq(Callback)] /\ recyclable \in [Ev -> BOOLEAN]
      /\ interrupt_pending \in [Proc -> BOOLEAN]
      /\ Addr \subseteq Ev /\ Proc \subseteq Ev /\ \A a \in Addr : a # q
  BY AddressesDiffer DEF LibraryInv, CondInv, Clocked, IInv, TypeOK, Ev
<1>1. IInv'
  BY <1>i, EvictIInv
<1>2. /\ \A x \in Ev : state'[x] = IF x \in {e, q} THEN "triggered" ELSE state[x]
      /\ cbs' = [cbs EXCEPT ![q] = <<Resume(q)>>]
      /\ InTimeOrder(heap') /\ KeepsEntries
      /\ \A i \in DOMAIN heap' : \/ heap'[i] = [time |-> now, ev |-> e]
                                 \/ heap'[i] = [time |-> now, ev |-> q]
                                 \/ \E j \in DOMAIN heap : heap'[i] = heap[j]
  BY <1>i, EvictEffect
<1>3. /\ _sim_event_alloc(e) /\ recyclable' = [recyclable EXCEPT ![e] = FALSE]
      /\ UNCHANGED <<condVars, made, now, rest, done>>
  BY DEF Evicting, condVars, ctlVars
<1>4. ~Owned(e) /\ Sparing
  BY <1>i, <1>2, <1>3, AllocSpares
<1>5. ASSUME NEW c \in Addr PROVE Steady(c)
  <2>1. made[e] = NULL /\ \A d : Unpooled(d) => Unpooled(d)'
    BY <1>i, <1>3, AllocatedIsNoCondition, AllocTakes
  <2>2. \A a \in Addr : cbs'[a] = cbs[a]
    BY <1>i, <1>2
  <2>3. made[c] # NULL => state'[c] = state[c] /\ recyclable'[c] = recyclable[c]
    BY <1>i, <1>2, <1>3, <2>1
  <2> QED
    BY <1>i, <1>3, <2>1, <2>2, <2>3 DEF Steady, CondOK, Sound, condVars
<1>6. Clocked'
  <2>1. ASSUME NEW i \in DOMAIN heap'
        PROVE  /\ heap'[i].time >= now /\ (heap'[i].ev \in Proc => heap'[i].time = now)
               /\ heap'[i].ev \in Addr /\ made[heap'[i].ev] # NULL => heap'[i].time = now
    <3>1. now \in Nat
      BY <1>i DEF IInv, TypeOK
    <3>2. CASE heap'[i] = [time |-> now, ev |-> e] \/ heap'[i] = [time |-> now, ev |-> q]
      <4>1. heap'[i].time = now
        BY <3>2
      <4> QED
        BY <3>1, <4>1
    <3>3. ASSUME NEW j \in DOMAIN heap, heap'[i] = heap[j]
          PROVE  /\ heap'[i].time >= now /\ (heap'[i].ev \in Proc => heap'[i].time = now)
                 /\ heap'[i].ev \in Addr /\ made[heap'[i].ev] # NULL => heap'[i].time = now
      BY <1>i, <3>3 DEF Clocked, ResumeAtOnce, Timely
    <3> QED
      BY <1>2, <3>2, <3>3
  <2> QED
    BY <1>2, <1>3, <2>1 DEF Clocked, ResumeAtOnce, Timely
<1>7. Reasons'
  <2>1. \A x \in Proc \ {q} : Untouched(x)
    BY <1>i, <1>2, AddressesDiffer DEF Untouched, Evicting, ctlVars, ghosts, IInv, TypeOK
  <2>2. ReasonOK(q)'
    BY <1>i DEF ReasonOK, Evicting
  <2> QED
    BY <1>i, <2>1, <2>2, ClientReasons DEF Evicting, ctlVars
<1> QED
  BY <1>1, <1>2, <1>3, <1>4, <1>5, <1>6, <1>7, StepLibrary

-----------------------------------------------------------------------------
(* The machine: who is where.                                              *)

(* The lines of a worker who has a request.                                *)
Asking == {"wait", "granted", "work", "worked"}

request_t == [event : Addr, owner : Proc, priority : Int]

MachineTypes ==
  /\ pc \in [Proc -> MachineStages \cup {NULL}] /\ limit \in [Proc -> Nat]
  /\ req \in [Proc -> Addr \cup {NULL}] /\ ev \in [Proc -> Addr \cup {NULL}]
  /\ holders \in Seq(request_t) /\ waiters \in Seq(request_t)

NoConditions == \A e \in Addr : made[e] = NULL

(* A waiter callback for what a process has yielded is that of the wait in *)
(* progress.                                                               *)
Heard ==
  \A p \in Proc, e \in Addr : Waiter(p) \in ToSet(cbs[e]) /\ yielded[p] = e => waitOn[p] = e

(* A process is at a line of the program as long as it lives, and while it *)
(* does not run it is at its first line or behind a sim_yield.             *)
Lives(p) ==
  /\ pc[p] # NULL <=> pstate[p] \in {"new", "running"}
  /\ pstate[p] = "new" => pc[p] = "new"
  /\ pstate[p] = "running" /\ ctx # p => pc[p] \in {"request", "granted", "worked"}

(* A worker's request is his own; it holds the machine or waits for it, or *)
(* the worker is told that he lost it.                                     *)
Stands(p) ==
  \E h \in ToSet(holders) \cup ToSet(waiters) : h.event = req[p] /\ h.owner = p

Asks(p) ==
  pc[p] \in Asking =>
    /\ Owned(req[p])
    /\ \/ Stands(p)
       \/ interrupt_pending[p]
       \/ ctx = p /\ was_interrupted[p] /\ pc[p] \in {"granted", "worked"}

Separate ==
  \A p, q \in Proc : pc[p] \in Asking /\ pc[q] \in Asking /\ req[p] = req[q] => p = q

(* Nothing but requests that wait is in the line.                          *)
WaitLine ==
  /\ IsInjective(Events(waiters))
  /\ \A w \in ToSet(waiters) : Owned(w.event) /\ state[w.event] = "pending"

(* What a worker waits for, and has waited for: his grant, or else he is   *)
(* told; the end of his work.                                              *)
InStep(p) ==
  /\ pc[p] = "granted" =>
       \/ state[req[p]] = "processed"
       \/ IF ctx = p THEN was_interrupted[p] ELSE waitOn[p] = req[p] \/ interrupt_pending[p]
  /\ pc[p] \in {"work", "worked"} => state[req[p]] = "processed"
  /\ pc[p] = "work" => Entered(limit[p], ev[p])
  /\ pc[p] = "worked" /\ ~Told(p) =>
       IF ctx = p \/ waitOn[p] = NULL THEN now = limit[p]
       ELSE waitOn[p] = ev[p] /\ Entered(limit[p], ev[p])

MachineInv ==
  /\ LibraryInv /\ MachineTypes /\ Quiet /\ NoConditions /\ Heard
  /\ \A p \in Proc : Lives(p) /\ Asks(p) /\ InStep(p)
  /\ Separate /\ WaitLine

(* A worker who does not run, before or after the step.                    *)
LEMMA IdleWorker ==
  ASSUME MachineInv, NEW q \in Proc, ctx # q, ctx' # q, now' = now, KeepsEntries,
         pc'[q] = pc[q], req'[q] = req[q], ev'[q] = ev[q], limit'[q] = limit[q],
         pstate'[q] = pstate[q], waitOn'[q] = waitOn[q],
         interrupt_pending[q] => interrupt_pending'[q],
         pc[q] \in Asking /\ Stands(q) =>
           Stands(q)' \/ interrupt_pending'[q] \/ pstate[q] = "dead",
         pc[q] \in Asking =>
           Owned(req[q])' /\ (state[req[q]] = "processed" => state'[req[q]] = "processed")
  PROVE  Lives(q)' /\ Asks(q)' /\ InStep(q)'
<1>i. Lives(q) /\ Asks(q) /\ InStep(q)
  BY DEF MachineInv
<1>p. pc[q] \notin {"wait", "work"} /\ (pc[q] \in Asking => pstate[q] = "running")
  <2>1. pstate[q] \in {"unborn", "new", "running", "dead"}
    BY DEF MachineInv, LibraryInv, CondInv, IInv, TypeOK
  <2> QED
    BY <1>i, <2>1, NullIsNoMachineStage DEF Lives, MachineStages, Asking
<1>1. Lives(q)'
  BY <1>i DEF Lives
<1>2. Asks(q)'
  <2>1. pc[q] \in Asking => Stands(q)' \/ interrupt_pending'[q]
    BY <1>i, <1>p DEF Asks
  <2> QED
    BY <2>1 DEF Asks
<1>3. InStep(q)'
  <2>1. pc[q] \in {"granted", "worked"} => (state[req[q]] = "processed" => state'[req'[q]] = "processed")
    BY DEF Asking
  <2>2. Entered(limit[q], ev[q]) => Entered(limit[q], ev[q])'
    BY DEF KeepsEntries, Entered
  <2>3. ~Told(q)' => ~Told(q)
    BY DEF Told
  <2> QED
    BY <1>i, <1>p, <2>1, <2>2, <2>3 DEF InStep
<1> QED
  BY <1>1, <1>2, <1>3

(* A step that does not subscribe.                                         *)
LEMMA HeardKept ==
  ASSUME Heard, \A e \in Addr : cbs'[e] = cbs[e] \/ cbs'[e] = <<>>,
         \A q \in Proc : /\ yielded'[q] \in {yielded[q], NULL}
                         /\ \/ waitOn'[q] = waitOn[q] \/ yielded'[q] = NULL
                            \/ waitOn[q] \in Addr => cbs'[waitOn[q]] = <<>>
  PROVE  Heard'
<1> SUFFICES ASSUME NEW p \in Proc, NEW e \in Addr, Waiter(p) \in ToSet(cbs'[e]), yielded'[p] = e
             PROVE  waitOn'[p] = e
  BY DEF Heard
<1>1. cbs'[e] = cbs[e] /\ cbs'[e] # <<>> /\ yielded[p] = e /\ yielded'[p] # NULL
  BY EmptyElements, AddressesDiffer
<1>2. waitOn[p] = e
  BY <1>1 DEF Heard
<1> QED
  BY <1>1, <1>2

(* A step that spares the requests leaves the line as it is.               *)
LEMMA LineSpared ==
  ASSUME MachineInv, Sparing, UNCHANGED waiters
  PROVE  WaitLine'
BY DEF MachineInv, WaitLine, Sparing, Owned

(* A step of worker p.                                                     *)
LEMMA OwnMachine ==
  ASSUME MachineInv, NEW p \in Proc, ctx = p, ctx' \in {p, "dispatch"}, now' = now, KeepsEntries,
         LibraryInv', MachineTypes', UNCHANGED <<made, done, watches>>, Heard', WaitLine',
         Lives(p)', Asks(p)', InStep(p)',
         pc'[p] \in Asking => \A q \in Proc \ {p} : pc[q] \in Asking => req[q] # req'[p],
         \A q \in Proc \ {p} :
           /\ pc'[q] = pc[q] /\ req'[q] = req[q] /\ ev'[q] = ev[q] /\ limit'[q] = limit[q]
           /\ pstate'[q] = pstate[q] /\ waitOn'[q] = waitOn[q]
           /\ interrupt_pending[q] => interrupt_pending'[q]
           /\ pc[q] \in Asking /\ Stands(q) =>
                Stands(q)' \/ interrupt_pending'[q] \/ pstate[q] = "dead"
           /\ pc[q] \in Asking =>
                Owned(req[q])' /\ (state[req[q]] = "processed" => state'[req[q]] = "processed")
  PROVE  MachineInv'
<1>1. ASSUME NEW q \in Proc \ {p} PROVE Lives(q)' /\ Asks(q)' /\ InStep(q)'
  <2>1. ctx # q /\ ctx' # q
    BY AddressesDiffer
  <2>2. pc[q] \in Asking =>
          Owned(req[q])' /\ (state[req[q]] = "processed" => state'[req[q]] = "processed")
    OBVIOUS
  <2> QED
    BY <2>1, <2>2, IdleWorker
<1>2. Separate'
  BY DEF MachineInv, Separate
<1>3. Quiet' /\ NoConditions'
  BY DEF MachineInv, Quiet, NoConditions
<1> QED
  BY <1>1, <1>2, <1>3 DEF MachineInv

-----------------------------------------------------------------------------
(* The machine, step by step.                                              *)

(* A step that spares the requests: what the others have is theirs.        *)
LEMMA OtherSpared ==
  ASSUME MachineInv, Sparing, NEW q \in Proc, req'[q] = req[q]
  PROVE  pc[q] \in Asking =>
           Owned(req[q])' /\ (state[req[q]] = "processed" => state'[req[q]] = "processed")
<1> SUFFICES ASSUME pc[q] \in Asking
             PROVE  Owned(req[q])' /\ (state[req[q]] = "processed" => state'[req[q]] = "processed")
  OBVIOUS
<1>1. PICK r \in Addr : r = req[q] /\ Owned(r)
  BY DEF MachineInv, Asks, Owned
<1>2. Owned(r)' /\ (state[r] = "processed" => state'[r] = "processed")
  BY <1>1 DEF Sparing
<1> QED
  BY <1>1, <1>2

LEMMA TimeoutMachine ==
  ASSUME MachineInv, NEW p \in Proc, NEW here, NEW there, NEW times, times \subseteq Delays,
         Timeout(p, here, times, there), UNCHANGED <<holders, waiters>>,
         \/ here = "new" /\ there = "come"
         \/ here = "granted" /\ there = "work" /\ ~was_interrupted[p]
  PROVE  MachineInv'
<1>i. /\ LibraryInv /\ IInv /\ TypeOK /\ MachineTypes /\ Heard /\ Lives(p) /\ Asks(p) /\ InStep(p)
      /\ now \in Nat /\ ctx = p /\ pc[p] = here /\ pstate[p] = "running"
  BY DEF MachineInv, LibraryInv, CondInv, IInv, TypeOK, RunningOK, Timeout, At
<1>1. PICK d \in times : sim_timeout(New, d) /\ limit' = [limit EXCEPT ![p] = now + d]
  BY DEF Timeout
<1>e. PICK e \in Addr : e = New
  BY <1>i, <1>1, NewIsEvent DEF sim_timeout, Allocated
<1>2. /\ sim_timeout(e, d) /\ Allocated(e, "triggered", TRUE) /\ _sim_event_schedule(e, d)
      /\ d \in Delays /\ d \in Nat
      /\ UNCHANGED <<condVars, now, made, done, watches, ctx, pstate, interrupt_pending,
                     was_interrupted, yielded, waitOn, req>>
      /\ ev' = [ev EXCEPT ![p] = e] /\ pc' = [pc EXCEPT ![p] = there]
  BY <1>1, <1>e, BoundsAreNaturals
     DEF Timeout, sim_timeout, condVars, intVars, procVars, ctlVars, ghosts
<1>3. LibraryInv'
  BY <1>i, <1>2, TimeoutLibrary
<1>4. Sparing /\ cbs' = cbs
  BY <1>i, <1>2, AllocatedSpares, AllocatedEffect
<1>5. KeepsEntries /\ \E i \in DOMAIN heap' : heap'[i] = [time |-> now + d, ev |-> e]
  BY <1>i, <1>2, ScheduleKeeps DEF Ev
<1>6. /\ pc'[p] = there /\ ev'[p] = e /\ limit'[p] = now + d
      /\ \A q \in Proc \ {p} : pc'[q] = pc[q] /\ ev'[q] = ev[q] /\ limit'[q] = limit[q]
  BY <1>i, <1>1, <1>2 DEF MachineTypes
<1>7. MachineTypes'
  BY <1>i, <1>1, <1>2 DEF MachineTypes, MachineStages
<1>8. Heard' /\ WaitLine'
  BY <1>i, <1>2, <1>4, HeardKept, LineSpared
<1>9. Lives(p)'
  BY <1>i, <1>2, <1>6, NullIsNoMachineStage DEF Lives, MachineStages
<1>10. Entered(limit[p], ev[p])'
  BY <1>5, <1>6 DEF Entered
<1>11. pc[p] \in Asking =>
         Owned(req[p])' /\ (state[req[p]] = "processed" => state'[req[p]] = "processed")
  BY <1>2, <1>4, OtherSpared
<1>12. Asks(p)' /\ InStep(p)'
  <2>1. CASE here = "new" /\ there = "come"
    BY <1>6, <2>1 DEF Asks, InStep, Asking
  <2>2. CASE here = "granted" /\ there = "work" /\ ~was_interrupted[p]
    <3>1. pc[p] \in Asking /\ state[req[p]] = "processed" /\ (Stands(p) \/ interrupt_pending[p])
      BY <1>i, <2>2 DEF Asks, InStep, Asking
    <3>2. Stands(p)' \/ interrupt_pending'[p]
      BY <1>2, <3>1 DEF Stands
    <3>3. Asks(p)'
      BY <1>11, <3>1, <3>2 DEF Asks
    <3>4. state'[req'[p]] = "processed"
      BY <1>2, <1>11, <3>1
    <3>5. InStep(p)'
      BY <1>6, <1>10, <2>2, <3>4 DEF InStep
    <3> QED
      BY <3>3, <3>5
  <2> QED
    BY <2>1, <2>2
<1>13. ASSUME NEW q \in Proc \ {p}
       PROVE  /\ Stands(q) => Stands(q)'
              /\ pc[q] \in Asking =>
                   Owned(req[q])' /\ (state[req[q]] = "processed" => state'[req[q]] = "processed")
  <2>1. Stands(q) => Stands(q)'
    BY <1>2 DEF Stands
  <2> QED
    BY <1>2, <1>4, <2>1, OtherSpared
<1>14. pc'[p] \in Asking => \A q \in Proc \ {p} : pc[q] \in Asking => req[q] # req'[p]
  BY <1>i, <1>2, <1>6 DEF MachineInv, Separate, Asking
<1> QED
  BY <1>i, <1>2, <1>3, <1>5, <1>6, <1>7, <1>8, <1>9, <1>12, <1>13, <1>14, OwnMachine

LEMMA YieldMachine ==
  ASSUME MachineInv, NEW p \in Proc, NEW here, NEW there, NEW e,
         Yield(p, here, e, there), UNCHANGED <<holders, waiters>>,
         \/ here = "come" /\ there = "request"
         \/ here = "wait" /\ there = "granted" /\ e = req[p]
         \/ here = "work" /\ there = "worked" /\ e = ev[p]
  PROVE  MachineInv'
<1>i. /\ LibraryInv /\ IInv /\ TypeOK /\ MachineTypes /\ Heard /\ Lives(p) /\ Asks(p) /\ InStep(p)
      /\ ctx = p /\ pc[p] = here /\ pstate[p] = "running"
      /\ state \in [Ev -> {"fresh", "pending", "triggered", "processed"}]
      /\ cbs \in [Ev -> Seq(Callback)] /\ CallbacksOK
      /\ yielded \in [Proc -> Addr \cup {NULL}] /\ waitOn \in [Proc -> Addr \cup {NULL}]
      /\ \A a \in Addr : a \in Ev /\ a # p
  BY AddressesDiffer DEF MachineInv, LibraryInv, CondInv, IInv, TypeOK, RunningOK, Yield, At, Ev
<1>1. /\ sim_yield(p, e) /\ e \in Addr /\ ctx' = "dispatch"
      /\ UNCHANGED <<condVars, now, made, done, watches, pstate, interrupt_pending,
                     was_interrupted, req, ev, limit>>
      /\ pc' = [pc EXCEPT ![p] = there] /\ yielded' = [yielded EXCEPT ![p] = e]
      /\ waitOn' = [waitOn EXCEPT ![p] = IF state[e] = "processed" THEN NULL ELSE e]
  BY DEF Yield, sim_yield, condVars, intVars
<1>2. LibraryInv' /\ Sparing
  <2>1. Body
    BY <1>1 DEF Body
  <2>2. Sparing
    BY <1>i, <1>1, BodySpares
  <2> QED
    BY <1>i, <1>1, <2>1, <2>2, BodyLibrary
<1>3. /\ KeepsEntries /\ \A x \in Addr : state'[x] = state[x]
      /\ \A x \in Addr \ {e} : cbs'[x] = cbs[x]
      /\ IF state[e] = "processed" THEN cbs'[e] = <<>>
         ELSE cbs'[e] = Append(cbs[e], Waiter(p))
  <2>1. CASE state[e] = "processed"
    <3>1. schedule_resume(p, e)
      BY <1>1, <2>1 DEF sim_yield
    <3>2. state' = [state EXCEPT ![p] = "triggered"] /\ cbs' = [cbs EXCEPT ![p] = <<Resume(p)>>]
      BY <1>i, <3>1, ScheduleResumeEffect
    <3>3. cbs[e] = <<>>
      BY <1>1, <1>i, <2>1 DEF CallbacksOK
    <3>4. KeepsEntries
      BY <1>i, <3>1, ResumeKeeps
    <3> QED
      BY <1>i, <1>1, <2>1, <3>2, <3>3, <3>4
  <2>2. CASE state[e] # "processed"
    BY <1>i, <1>1, <2>2 DEF sim_yield, KeepsEntries, Entered
  <2> QED
    BY <2>1, <2>2
<1>4. /\ pc'[p] = there /\ yielded'[p] = e /\ \A q \in Proc : ctx' # q
      /\ waitOn'[p] = IF state[e] = "processed" THEN NULL ELSE e
      /\ \A q \in Proc \ {p} : /\ pc'[q] = pc[q] /\ yielded'[q] = yielded[q]
                               /\ waitOn'[q] = waitOn[q]
  BY <1>i, <1>1, AddressesDiffer DEF MachineTypes
<1>5. MachineTypes'
  BY <1>i, <1>1 DEF MachineTypes, MachineStages
<1>6. Heard'
  <2> SUFFICES ASSUME NEW q \in Proc, NEW x \in Addr, Waiter(q) \in ToSet(cbs'[x]), yielded'[q] = x
               PROVE  waitOn'[q] = x
    BY DEF Heard
  <2>1. CASE q = p
    <3>1. x = e /\ cbs'[e] # <<>>
      BY <1>4, <2>1, EmptyElements
    <3> QED
      BY <1>3, <1>4, <2>1, <3>1
  <2>2. CASE q # p
    <3>1. Waiter(q) # Waiter(p)
      BY <2>2 DEF Waiter
    <3>2. cbs'[x] # <<>>
      BY EmptyElements
    <3>3. Waiter(q) \in ToSet(cbs[x])
      <4>1. CASE x # e
        BY <1>3, <4>1
      <4>2. CASE x = e
        <5>1. cbs'[e] = Append(cbs[e], Waiter(p)) /\ cbs[e] \in Seq(Callback)
          BY <1>i, <1>1, <1>3, <3>2, <4>2
        <5>2. Waiter(p) \in Callback
          BY DEF Callback
        <5>3. ToSet(cbs'[e]) = ToSet(cbs[e]) \cup {Waiter(p)}
          BY <5>1, <5>2, AppendElements
        <5> QED
          BY <3>1, <4>2, <5>3
      <4> QED
        BY <4>1, <4>2
    <3>4. yielded[q] = x /\ waitOn'[q] = waitOn[q]
      BY <1>4, <2>2
    <3> QED
      BY <1>i, <3>3, <3>4 DEF Heard
  <2> QED
    BY <2>1, <2>2
<1>7. WaitLine'
  BY <1>2, LineSpared
<1>8. Lives(p)'
  BY <1>i, <1>1, <1>4, NullIsNoMachineStage DEF Lives, MachineStages
<1>9. pc[p] \in Asking =>
        Owned(req[p])' /\ (state[req[p]] = "processed" => state'[req[p]] = "processed")
  BY <1>1, <1>2, OtherSpared
<1>10. Asks(p)'
  <2>1. here \in {"wait", "work"} => Stands(p)' \/ interrupt_pending'[p]
    BY <1>i, <1>1 DEF Asks, Asking, Stands
  <2> QED
    BY <1>i, <1>4, <1>9, <2>1 DEF Asks, Asking
<1>11. InStep(p)'
  <2>1. CASE here = "come" /\ there = "request"
    BY <1>4, <2>1 DEF InStep
  <2>2. CASE here = "wait" /\ there = "granted" /\ e = req[p]
    <3>1. state'[req'[p]] = "processed" \/ waitOn'[p] = req'[p]
      BY <1>1, <1>3, <1>4, <2>2
    <3> QED
      BY <1>4, <2>2, <3>1 DEF InStep
  <2>3. CASE here = "work" /\ there = "worked" /\ e = ev[p]
    <3>1. pc[p] \in Asking /\ state[req[p]] = "processed" /\ Entered(limit[p], ev[p])
      BY <1>i, <2>3 DEF InStep, Asking
    <3>2. state'[req'[p]] = "processed"
      BY <1>1, <1>9, <3>1
    <3>3. state[e] = "triggered"
      BY <1>i, <2>3, <3>1, EnteredIsQueued
    <3>4. waitOn'[p] = ev'[p] /\ waitOn'[p] # NULL
      BY <1>1, <1>4, <2>3, <3>3, AddressesDiffer
    <3>5. Entered(limit[p], ev[p])'
      <4>1. PICK t, x : t = limit[p] /\ x = ev[p] /\ Entered(t, x)
        BY <3>1
      <4>2. limit'[p] = t /\ ev'[p] = x /\ Entered(t, x)'
        BY <1>1, <1>3, <4>1 DEF KeepsEntries
      <4> QED
        BY <4>2 DEF Entered
    <3> QED
      BY <1>4, <2>3, <3>2, <3>4, <3>5 DEF InStep
  <2> QED
    BY <2>1, <2>2, <2>3
<1>12. ASSUME NEW q \in Proc \ {p}
       PROVE  /\ Stands(q) => Stands(q)'
              /\ pc[q] \in Asking =>
                   Owned(req[q])' /\ (state[req[q]] = "processed" => state'[req[q]] = "processed")
  <2>1. Stands(q) => Stands(q)'
    BY <1>1 DEF Stands
  <2> QED
    BY <1>1, <1>2, <2>1, OtherSpared
<1>13. pc'[p] \in Asking => \A q \in Proc \ {p} : pc[q] \in Asking => req[q] # req'[p]
  BY <1>i, <1>1, <1>4 DEF MachineInv, Separate, Asking
<1> QED
  BY <1>i, <1>1, <1>2, <1>3, <1>4, <1>5, <1>6, <1>7, <1>8, <1>10, <1>11, <1>12, <1>13, OwnMachine

LEMMA EndMachine ==
  ASSUME MachineInv, NEW p \in Proc, NEW here, End(p, here), UNCHANGED <<holders, waiters>>
  PROVE  MachineInv'
<1>i. /\ LibraryInv /\ IInv /\ MachineTypes /\ Heard /\ Quiet
      /\ ctx = p /\ pc[p] = here /\ pstate[p] = "running"
      /\ pstate \in [Proc -> {"unborn", "new", "running", "dead"}]
  BY DEF MachineInv, LibraryInv, CondInv, IInv, RunningOK, End, At, TypeOK
<1>1. /\ process_entry_end(p) /\ done[p] = NULL
      /\ pc' = [pc EXCEPT ![p] = NULL] /\ req' = [req EXCEPT ![p] = NULL]
      /\ ev' = [ev EXCEPT ![p] = NULL] /\ UNCHANGED <<condVars, made, limit>>
  BY <1>i DEF End, condVars, Quiet
<1>2. /\ ctx' = "dispatch" /\ pstate' = [pstate EXCEPT ![p] = "dead"]
      /\ UNCHANGED <<now, state, heap, cbs, yielded, waitOn, done, watches, interrupt_pending,
                     was_interrupted>>
  BY <1>1 DEF process_entry_end, ghosts, intVars
<1>3. LibraryInv' /\ Sparing
  <2>1. Body
    BY <1>1 DEF Body
  <2>2. Sparing
    BY <1>i, <1>1, BodySpares
  <2> QED
    BY <1>i, <1>1, <2>1, <2>2, BodyLibrary
<1>4. /\ pc'[p] = NULL /\ pstate'[p] = "dead"
      /\ \A q \in Proc \ {p} : /\ pc'[q] = pc[q] /\ req'[q] = req[q] /\ ev'[q] = ev[q]
                               /\ pstate'[q] = pstate[q]
  BY <1>i, <1>1, <1>2 DEF MachineTypes
<1>5. MachineTypes'
  BY <1>i, <1>1 DEF MachineTypes
<1>6. Heard' /\ WaitLine'
  BY <1>i, <1>2, <1>3, HeardKept, LineSpared
<1>7. NULL \notin Asking /\ NULL \notin MachineStages
  BY NullIsNoMachineStage DEF MachineStages, Asking
<1>8. Lives(p)' /\ Asks(p)' /\ InStep(p)'
  BY <1>4, <1>7 DEF Lives, Asks, InStep, Asking
<1>9. ASSUME NEW q \in Proc \ {p}
      PROVE  /\ Stands(q) => Stands(q)'
             /\ pc[q] \in Asking =>
                  Owned(req[q])' /\ (state[req[q]] = "processed" => state'[req[q]] = "processed")
  <2>1. Stands(q) => Stands(q)'
    BY <1>4 DEF Stands
  <2> QED
    BY <1>3, <1>4, <2>1, OtherSpared
<1>10. KeepsEntries
  BY <1>2 DEF KeepsEntries, Entered
<1>11. pc'[p] \in Asking => \A q \in Proc \ {p} : pc[q] \in Asking => req[q] # req'[p]
  BY <1>4, <1>7
<1> QED
  BY <1>i, <1>1, <1>2, <1>3, <1>4, <1>5, <1>6, <1>8, <1>9, <1>10, <1>11, OwnMachine

(* main starts the workers and runs the simulation.                        *)
LEMMA MainMachine ==
  ASSUME MachineInv, worker_main, UNCHANGED <<holders, waiters>>
  PROVE  MachineInv'
<1>i. /\ LibraryInv /\ IInv /\ TypeOK /\ MachineTypes /\ Heard /\ Quiet /\ NoConditions /\ Separate
      /\ ctx = "main" /\ \A q \in Proc : Lives(q) /\ Asks(q) /\ InStep(q) /\ ctx # q
      /\ pstate \in [Proc -> {"unborn", "new", "running", "dead"}]
      /\ interrupt_pending \in [Proc -> BOOLEAN] /\ done \in [Proc -> Addr \cup {NULL}]
      /\ yielded \in [Proc -> Addr \cup {NULL}] /\ waitOn \in [Proc -> Addr \cup {NULL}]
      /\ cbs \in [Ev -> Seq(Callback)] /\ Addr \subseteq Ev
  BY AddressesDiffer DEF MachineInv, LibraryInv, CondInv, IInv, TypeOK, worker_main, Ev
<1>1. CASE Start("new", NULL)
  <2>n. PICK n \in Proc : n = NewProc
    BY <1>1 DEF Start
  <2>1. /\ sim_process(n) /\ schedule_resume(n, NULL)
        /\ pc' = [q \in Proc |-> IF q = n THEN "new" ELSE pc[q]]
        /\ pstate' = [pstate EXCEPT ![n] = "new"] /\ done' = [done EXCEPT ![n] = NULL]
        /\ interrupt_pending' = [interrupt_pending EXCEPT ![n] = FALSE]
        /\ yielded' = [yielded EXCEPT ![n] = NULL] /\ waitOn' = [waitOn EXCEPT ![n] = NULL]
        /\ UNCHANGED <<condVars, made, req, ev, limit, now, ctx, watches>>
    BY <1>1, <1>i, <2>n DEF Start, sim_process, Wiped, ctlVars, condVars
  <2>2. LibraryInv' /\ Sparing
    BY <1>i, <2>1, StartLibrary
  <2>3. KeepsEntries /\ \A x \in Addr : cbs'[x] = cbs[x]
    <3>1. cbs' = [cbs EXCEPT ![n] = <<Resume(n)>>]
      BY <1>i, <2>1, ScheduleResumeEffect
    <3> QED
      BY <1>i, <2>1, <3>1, ResumeKeeps, AddressesDiffer
  <2>4. MachineTypes' /\ Quiet' /\ NoConditions'
    BY <1>i, <2>1 DEF MachineTypes, Quiet, NoConditions, MachineStages
  <2>5. Heard' /\ WaitLine'
    BY <1>i, <2>1, <2>2, <2>3, HeardKept, LineSpared
  <2>6. ASSUME NEW q \in Proc PROVE Lives(q)' /\ Asks(q)' /\ InStep(q)'
    <3>1. CASE q = n
      <4>1. pc'[q] = "new" /\ pstate'[q] = "new"
        BY <1>i, <2>1, <3>1
      <4> QED
        BY <4>1, NullIsNoMachineStage DEF Lives, Asks, InStep, Asking, MachineStages
    <3>2. CASE q # n
      <4>1. /\ pc'[q] = pc[q] /\ pstate'[q] = pstate[q] /\ waitOn'[q] = waitOn[q]
            /\ interrupt_pending'[q] = interrupt_pending[q] /\ req'[q] = req[q]
            /\ ev'[q] = ev[q] /\ limit'[q] = limit[q] /\ ctx # q /\ ctx' # q /\ now' = now
        BY <1>i, <2>1, <3>2
      <4>2. Stands(q) => Stands(q)'
        BY <4>1 DEF Stands
      <4>3. pc[q] \in Asking =>
              Owned(req[q])' /\ (state[req[q]] = "processed" => state'[req[q]] = "processed")
        BY <2>2, <4>1, OtherSpared
      <4> QED
        BY <2>3, <4>1, <4>2, <4>3, IdleWorker
    <3> QED
      BY <3>1, <3>2
  <2>7. Separate'
    BY <1>i, <2>1 DEF Separate, Asking
  <2> QED
    BY <2>2, <2>4, <2>5, <2>6, <2>7 DEF MachineInv
<1>2. CASE main_run
  <2>1. /\ StartRun("run", 0) /\ ctx' = "loop"
        /\ UNCHANGED <<condVars, pc, req, ev, limit, done, watches, pstate, interrupt_pending,
                       now, heap, cbs, made, yielded, waitOn>>
    BY <1>2 DEF main_run, StartRun, appVars, intVars, procVars, evVars, ghosts, condVars
  <2>2. LibraryInv' /\ Sparing
    BY <1>i, <2>1, HostLibrary
  <2>3. KeepsEntries
    BY <2>1 DEF KeepsEntries, Entered
  <2>4. MachineTypes' /\ Quiet' /\ NoConditions' /\ Separate'
    BY <1>i, <2>1 DEF MachineTypes, Quiet, NoConditions, Separate
  <2>5. Heard' /\ WaitLine'
    BY <1>i, <2>1, <2>2, HeardKept, LineSpared
  <2>6. ASSUME NEW q \in Proc PROVE Lives(q)' /\ Asks(q)' /\ InStep(q)'
    <3>1. ctx # q /\ ctx' # q
      BY <1>i, <2>1, AddressesDiffer
    <3>2. Stands(q) => Stands(q)'
      BY <2>1 DEF Stands
    <3>3. pc[q] \in Asking =>
            Owned(req[q])' /\ (state[req[q]] = "processed" => state'[req[q]] = "processed")
      BY <2>1, <2>2, OtherSpared
    <3> QED
      BY <2>1, <2>3, <3>1, <3>2, <3>3, IdleWorker
  <2> QED
    BY <2>2, <2>4, <2>5, <2>6 DEF MachineInv
<1> QED
  BY <1>1, <1>2 DEF worker_main

(* A request that was allocated is its owner's, and nobody else's.         *)
LEMMA NewRequest ==
  ASSUME LibraryInv, NEW e \in Addr, NEW s \in {"pending", "triggered"},
         Allocated(e, s, FALSE), UNCHANGED made
  PROVE  Sparing /\ ~Owned(e) /\ Owned(e)' /\ state'[e] = s /\ cbs' = cbs
<1>1. IInv /\ CondOK
  BY DEF LibraryInv, CondInv
<1>2. ~Owned(e) /\ Sparing /\ state'[e] = s /\ recyclable'[e] = FALSE /\ Unpooled(e)'
  BY <1>1, AllocatedSpares
<1>3. made[e] = NULL /\ cbs' = cbs
  BY <1>1, AllocatedIsNoCondition, AllocatedEffect DEF Allocated
<1> QED
  BY <1>2, <1>3 DEF Owned

(* What a request n does, whatever becomes of it: it holds the machine or  *)
(* waits, and who loses the machine is told.                               *)
AskedFor(n) ==
  /\ LibraryInv' /\ Sparing /\ KeepsEntries /\ ~Owned(n.event) /\ Owned(n.event)'
  /\ UNCHANGED <<now, made, done, watches, ctx, pstate, waitOn>>
  /\ \A x \in Addr : cbs'[x] = cbs[x]
  /\ \A q \in Proc : /\ yielded'[q] \in {yielded[q], NULL}
                     /\ interrupt_pending[q] => interrupt_pending'[q]
  /\ holders' \in Seq(request_t) /\ waiters' \in Seq(request_t)
  /\ n \in ToSet(holders') \cup ToSet(waiters')
  /\ \A h \in ToSet(holders) \cup ToSet(waiters) :
       \/ h \in ToSet(holders') \cup ToSet(waiters')
       \/ interrupt_pending'[h.owner] \/ pstate[h.owner] = "dead"
  /\ WaitLine'

(* The variables a request leaves alone in any case.                       *)
unaskedVars == <<now, envVars, ctlVars, ghosts, condVars>>

LEMMA GrantAsks ==
  ASSUME MachineInv, InClient, NEW n \in request_t, Grant(n), UNCHANGED unaskedVars
  PROVE  AskedFor(n)
<1>e. PICK e \in Addr : e = n.event
  BY DEF request_t
<1>i. LibraryInv /\ IInv /\ TypeOK /\ now \in Nat /\ e \in Ev
      /\ holders \in Seq(request_t) /\ waiters \in Seq(request_t)
  BY DEF MachineInv, LibraryInv, CondInv, IInv, TypeOK, MachineTypes, Ev
<1>1. /\ holders' = <<n>> \o holders /\ Allocated(e, "triggered", FALSE)
      /\ _sim_event_schedule(e, 0) /\ UNCHANGED <<waiters, intVars, procVars>>
      /\ UNCHANGED <<now, envVars, ctlVars, ghosts, condVars, made, done, watches, ctx, pstate,
                     waitOn, yielded, interrupt_pending>>
  BY <1>e DEF Grant, unaskedVars, condVars, intVars, procVars, ctlVars, ghosts
<1>2. LibraryInv'
  <2>1. Granting(e)
    BY <1>1 DEF Granting
  <2> QED
    BY <1>i, <2>1, GrantingLibrary
<1>3. Sparing /\ ~Owned(e) /\ Owned(e)' /\ cbs' = cbs
  BY <1>i, <1>1, NewRequest
<1>4. KeepsEntries
  BY <1>i, <1>1, ScheduleKeeps
<1>5. holders' \in Seq(request_t) /\ ToSet(holders') = {n} \cup ToSet(holders)
  BY <1>i, <1>1, PrependElements
<1>6. WaitLine'
  BY <1>1, <1>3, LineSpared
<1>7. UNCHANGED <<now, made, done, watches, ctx, pstate, waitOn>>
  BY <1>1
<1>8. \A q \in Proc : /\ yielded'[q] \in {yielded[q], NULL}
                      /\ interrupt_pending[q] => interrupt_pending'[q]
  BY <1>1
<1>9. /\ n \in ToSet(holders') \cup ToSet(waiters')
      /\ ToSet(holders) \cup ToSet(waiters) \subseteq ToSet(holders') \cup ToSet(waiters')
      /\ holders' \in Seq(request_t) /\ waiters' \in Seq(request_t)
  BY <1>i, <1>1, <1>5
<1>10. ~Owned(n.event) /\ Owned(n.event)' /\ \A x \in Addr : cbs'[x] = cbs[x]
  BY <1>e, <1>3
<1> QED
  BY <1>2, <1>3, <1>4, <1>6, <1>7, <1>8, <1>9, <1>10 DEF AskedFor

LEMMA WaitAsks ==
  ASSUME MachineInv, InClient, NEW n \in request_t, Wait(n), UNCHANGED unaskedVars
  PROVE  AskedFor(n)
<1>e. PICK e \in Addr : e = n.event
  BY DEF request_t
<1>i. LibraryInv /\ IInv /\ TypeOK /\ WaitLine
      /\ holders \in Seq(request_t) /\ waiters \in Seq(request_t)
  BY DEF MachineInv, LibraryInv, CondInv, IInv, TypeOK, MachineTypes
<1>1. /\ waiters' = insert_sorted(waiters, n) /\ Allocated(e, "pending", FALSE)
      /\ UNCHANGED <<heap, holders, intVars, procVars>>
      /\ UNCHANGED <<now, envVars, ctlVars, ghosts, condVars, made, done, watches, ctx, pstate,
                     waitOn, yielded, interrupt_pending>>
  BY <1>e DEF Wait, unaskedVars, condVars, intVars, procVars, ctlVars, ghosts
<1>2. LibraryInv'
  <2>1. sim_event(e)
    BY <1>1 DEF sim_event
  <2> QED
    BY <1>i, <1>1, <2>1, EventLibrary
<1>3. Sparing /\ ~Owned(e) /\ Owned(e)' /\ cbs' = cbs /\ state'[e] = "pending"
  BY <1>i, <1>1, NewRequest
<1>4. KeepsEntries
  BY <1>1 DEF KeepsEntries, Entered
<1>5. /\ waiters' \in Seq(request_t) /\ ToSet(waiters') = ToSet(waiters) \cup {n}
      /\ IsInjective(Events(waiters')) <=>
           IsInjective(Events(waiters)) /\ e \notin ToSet(Events(waiters))
  <2>1. \A x \in request_t : x.priority \in Int
    BY DEF request_t
  <2> QED
    BY <1>i, <1>1, <2>1, LineInserted, <1>e
<1>6. WaitLine'
  <2>1. e \notin ToSet(Events(waiters))
    <3>1. ToSet(Events(waiters)) = {w.event : w \in ToSet(waiters)}
      BY <1>i, EventsPositions
    <3> QED
      BY <1>i, <1>3, <3>1 DEF WaitLine
  <2>2. \A w \in ToSet(waiters) : Owned(w.event)' /\ state'[w.event] = "pending"
    <3> SUFFICES ASSUME NEW w \in ToSet(waiters) PROVE Owned(w.event)' /\ state'[w.event] = "pending"
      OBVIOUS
    <3>1. w.event \in Addr /\ Owned(w.event) /\ state[w.event] = "pending"
      BY <1>i DEF WaitLine, Owned
    <3> QED
      BY <1>3, <3>1 DEF Sparing
  <2>3. \A w \in ToSet(waiters') : Owned(w.event)' /\ state'[w.event] = "pending"
    BY <1>3, <1>5, <2>2, <1>e
  <2> QED
    BY <1>i, <1>5, <2>1, <2>3 DEF WaitLine
<1>7. UNCHANGED <<now, made, done, watches, ctx, pstate, waitOn>>
  BY <1>1
<1>8. \A q \in Proc : /\ yielded'[q] \in {yielded[q], NULL}
                      /\ interrupt_pending[q] => interrupt_pending'[q]
  BY <1>1
<1>9. /\ n \in ToSet(holders') \cup ToSet(waiters')
      /\ ToSet(holders) \cup ToSet(waiters) \subseteq ToSet(holders') \cup ToSet(waiters')
      /\ holders' \in Seq(request_t) /\ waiters' \in Seq(request_t)
  BY <1>i, <1>1, <1>5
<1>10. ~Owned(n.event) /\ Owned(n.event)' /\ \A x \in Addr : cbs'[x] = cbs[x]
  BY <1>e, <1>3
<1> QED
  BY <1>2, <1>3, <1>4, <1>6, <1>7, <1>8, <1>9, <1>10 DEF AskedFor

LEMMA EvictAsks ==
  ASSUME MachineInv, InClient, NEW n \in request_t, Evict(n), UNCHANGED unaskedVars
  PROVE  AskedFor(n)
<1>e. PICK e \in Addr : e = n.event
  BY DEF request_t
<1>i. /\ LibraryInv /\ IInv /\ CondOK /\ TypeOK /\ now \in Nat
      /\ Addr \subseteq Ev /\ Proc \subseteq Ev
      /\ state \in [Ev -> {"fresh", "pending", "triggered", "processed"}]
      /\ interrupt_pending \in [Proc -> BOOLEAN] /\ yielded \in [Proc -> Addr \cup {NULL}]
      /\ cbs \in [Ev -> Seq(Callback)] /\ recyclable \in [Ev -> BOOLEAN]
      /\ holders \in Seq(request_t) /\ waiters \in Seq(request_t)
  BY DEF MachineInv, LibraryInv, CondInv, IInv, TypeOK, MachineTypes, Ev
<1>k. PICK k \in 1..Len(holders) : k = find_weakest(holders)
  <2>1. holders # <<>> /\ \A x \in request_t : x.priority \in Int
    BY DEF Evict, CanEvict, request_t
  <2> QED
    BY <1>i, <2>1, WeakestFound
<1>g. PICK g \in request_t : g = holders[k]
  BY <1>i
<1>q. PICK q \in Proc : q = g.owner
  BY DEF request_t
<1> DEFINE told == pstate[q] # "dead" /\ ~interrupt_pending[q]
           woken == IF told /\ state[q] # "triggered" THEN {q} ELSE {}
<1>1. /\ holders' = <<n>> \o RemoveAt(holders, k)
      /\ _sim_event_alloc(e) /\ recyclable' = [recyclable EXCEPT ![e] = FALSE]
      /\ state' = [x \in Ev |-> IF x \in {e} \cup woken THEN "triggered" ELSE state[x]]
      /\ cbs' = [x \in Ev |-> IF x = e THEN <<>>
                              ELSE IF x \in woken THEN Append(cbs[x], Resume(x)) ELSE cbs[x]]
      /\ heap' = IF woken = {} THEN Insert(heap, now, e) ELSE Insert(Insert(heap, now, e), now, q)
      /\ IF told
         THEN /\ interrupt_pending' = [interrupt_pending EXCEPT ![q] = TRUE]
              /\ interrupt_cause' = [interrupt_cause EXCEPT ![q] = gen[q]]
              /\ yielded' = [yielded EXCEPT ![q] = NULL]
              /\ resume_value' = [resume_value EXCEPT ![q] = NULL]
         ELSE UNCHANGED <<interrupt_pending, interrupt_cause, yielded, resume_value>>
      /\ UNCHANGED <<waiters, was_interrupted, pstate, done, process_pool, gen>>
  BY <1>e, <1>k, <1>g, <1>q, Zenon DEF Evict
<1>2. /\ UNCHANGED <<now, envVars, ctlVars, ghosts, condVars>>
      /\ UNCHANGED <<now, made, watches, ctx, waitOn>>
  BY DEF unaskedVars, condVars, ctlVars, ghosts
<1>3. ASSUME ~told
      PROVE  LibraryInv' /\ Sparing /\ KeepsEntries /\ ~Owned(e) /\ cbs' = cbs
  <2>1. woken = {}
    BY <1>3
  <2>2. state' = [state EXCEPT ![e] = "triggered"]
    BY <1>i, <1>1, <2>1
  <2>3. cbs' = [cbs EXCEPT ![e] = <<>>]
    BY <1>i, <1>1, <2>1
  <2>4. _sim_event_schedule(e, 0)
    <3>1. heap' = Insert(heap, now, e) /\ now + 0 = now
      BY <1>i, <1>1, <2>1
    <3> QED
      BY <3>1 DEF _sim_event_schedule
  <2>5. Allocated(e, "triggered", FALSE)
    BY <1>1, <2>2, <2>3 DEF Allocated
  <2>6. Granting(e)
    <3>1. UNCHANGED intVars /\ UNCHANGED procVars
      BY <1>1, <1>3 DEF intVars, procVars
    <3> QED
      BY <1>2, <2>4, <2>5, <3>1 DEF Granting
  <2>7. LibraryInv'
    BY <1>i, <2>6, GrantingLibrary
  <2>8. Sparing /\ ~Owned(e) /\ cbs' = cbs
    BY <1>i, <1>2, <2>5, NewRequest
  <2>9. KeepsEntries
    BY <1>i, <2>4, ScheduleKeeps
  <2> QED
    BY <2>7, <2>8, <2>9
<1>4. ASSUME told
      PROVE  /\ LibraryInv' /\ Sparing /\ KeepsEntries /\ ~Owned(e)
             /\ \A x \in Addr : cbs'[x] = cbs[x]
  <2>1. woken = IF state[q] = "triggered" THEN {} ELSE {q}
    BY <1>4
  <2>2. state' = [x \in Ev |-> IF x \in {e, q} THEN "triggered" ELSE state[x]]
    <3>1. \A x \in Ev : (IF x \in {e} \cup woken THEN "triggered" ELSE state[x])
                         = IF x \in {e, q} THEN "triggered" ELSE state[x]
      BY <2>1
    <3> QED
      BY <1>1, <3>1
  <2>3. cbs' = [x \in Ev |-> IF x = e THEN <<>>
                             ELSE IF x = q /\ state[q] # "triggered"
                                  THEN Append(cbs[x], Resume(x)) ELSE cbs[x]]
    <3>1. \A x \in Ev : x \in woken <=> x = q /\ state[q] # "triggered"
      BY <2>1
    <3> HIDE DEF woken
    <3> QED
      BY <1>1, <3>1
  <2>4. heap' = IF state[q] = "triggered" THEN Insert(heap, now, e)
                                          ELSE Insert(Insert(heap, now, e), now, q)
    BY <1>1, <2>1
  <2>5. Evicting(e, q)
    BY <1>1, <1>2, <1>4, <2>2, <2>3, <2>4 DEF Evicting
  <2>6. LibraryInv' /\ Sparing /\ KeepsEntries /\ ~Owned(e)
    BY <1>i, <2>5, EvictLibrary
  <2>7. cbs' = [cbs EXCEPT ![q] = <<Resume(q)>>]
    BY <1>i, <2>5, EvictEffect DEF LibraryInv, Clocked
  <2>8. \A x \in Addr : cbs'[x] = cbs[x]
    BY <1>i, <2>7, AddressesDiffer
  <2> QED
    BY <2>6, <2>8
<1>5. Owned(e)'
  <2>1. Unpooled(e)' /\ made[e] = NULL
    BY <1>i, <1>1, AllocTakes, AllocatedIsNoCondition
  <2>2. state'[e] = "triggered" /\ recyclable'[e] = FALSE
    BY <1>i, <1>1
  <2> QED
    BY <1>2, <2>1, <2>2 DEF Owned
<1>6. /\ \A o \in Proc : /\ yielded'[o] \in {yielded[o], NULL}
                         /\ interrupt_pending[o] => interrupt_pending'[o]
      /\ interrupt_pending'[q] \/ pstate[q] = "dead"
  <2>1. CASE told
    BY <1>i, <1>1, <2>1
  <2>2. CASE ~told
    BY <1>i, <1>1, <2>2
  <2> QED
    BY <2>1, <2>2
<1>7. /\ holders' \in Seq(request_t) /\ n \in ToSet(holders')
      /\ \A h \in ToSet(holders) : h = g \/ h \in ToSet(holders')
  <2> DEFINE a == RemoveAt(holders, k)
  <2>1. a \in Seq(request_t) /\ ToSet(holders) = ToSet(a) \cup {g}
    BY <1>i, <1>g, RemoveElements
  <2>2. holders' = <<n>> \o a
    BY <1>1
  <2> HIDE DEF a
  <2>3. holders' \in Seq(request_t) /\ ToSet(holders') = {n} \cup ToSet(a)
    BY <2>1, <2>2, PrependElements
  <2> QED
    BY <2>1, <2>3
<1>8. WaitLine'
  BY <1>1, <1>3, <1>4, LineSpared
<1>9. /\ LibraryInv' /\ Sparing /\ KeepsEntries /\ ~Owned(e)
      /\ \A x \in Addr : cbs'[x] = cbs[x]
  BY <1>3, <1>4
<1>10. /\ n \in ToSet(holders') \cup ToSet(waiters') /\ waiters' \in Seq(request_t)
       /\ \A h \in ToSet(holders) \cup ToSet(waiters) :
            \/ h \in ToSet(holders') \cup ToSet(waiters')
            \/ interrupt_pending'[h.owner] \/ pstate[h.owner] = "dead"
  <2>1. waiters' = waiters
    BY <1>1
  <2> QED
    BY <1>i, <1>6, <1>7, <1>q, <2>1
<1>11. UNCHANGED <<now, made, done, watches, ctx, pstate, waitOn>>
  BY <1>1, <1>2
<1>12. ~Owned(n.event) /\ Owned(n.event)'
  BY <1>5, <1>9, <1>e
<1> QED
  BY <1>6, <1>7, <1>8, <1>9, <1>10, <1>11, <1>12 DEF AskedFor

(* A worker asks.                                                          *)
LEMMA RequestMachine ==
  ASSUME MachineInv, NEW p \in Proc, worker_request(p)
  PROVE  MachineInv'
<1>i. /\ LibraryInv /\ IInv /\ MachineTypes /\ Heard /\ Quiet
      /\ \A q \in Proc : Lives(q) /\ Asks(q) /\ InStep(q)
      /\ ctx = p /\ pc[p] = "request" /\ pstate[p] = "running" /\ InClient
      /\ \A x \in Addr : x # NULL
  BY AddressesDiffer
     DEF MachineInv, LibraryInv, CondInv, IInv, RunningOK, worker_request, At, InClient
<1>e. PICK e \in Addr : e = New
  <2>1. _sim_event_alloc(New)
    BY Zenon DEF worker_request, Grant, Evict, Wait, Allocated
  <2> QED
    BY <1>i, <2>1, NewIsEvent
<1>p. Priorities \subseteq Int
  BY WorkersHavePriorities
<1>1. PICK priority \in Priorities :
        LET n == [event |-> e, owner |-> p, priority |-> priority]
        IN  Grant(n) \/ Evict(n) \/ Wait(n)
  BY <1>e, Zenon DEF worker_request
<1>n. PICK n \in request_t : n.event = e /\ n.owner = p /\ (Grant(n) \/ Evict(n) \/ Wait(n))
  <2> DEFINE n == [event |-> e, owner |-> p, priority |-> priority]
  <2>1. n \in request_t /\ n.event = e /\ n.owner = p
    BY <1>p DEF request_t
  <2>2. Grant(n) \/ Evict(n) \/ Wait(n)
    BY <1>1, Zenon
  <2> HIDE DEF n
  <2> QED
    BY <2>1, <2>2
<1>2. /\ req' = [req EXCEPT ![p] = e] /\ pc' = [pc EXCEPT ![p] = "wait"]
      /\ UNCHANGED unaskedVars /\ UNCHANGED <<ev, limit>>
  BY <1>e DEF worker_request, unaskedVars
<1>3. AskedFor(n)
  BY <1>i, <1>n, <1>2, GrantAsks, EvictAsks, WaitAsks
<1>4. /\ LibraryInv' /\ Sparing /\ KeepsEntries /\ ~Owned(e) /\ Owned(e)' /\ WaitLine'
      /\ UNCHANGED <<now, made, done, watches, ctx, pstate, waitOn>>
      /\ \A x \in Addr : cbs'[x] = cbs[x]
      /\ \A q \in Proc : /\ yielded'[q] \in {yielded[q], NULL}
                         /\ interrupt_pending[q] => interrupt_pending'[q]
      /\ holders' \in Seq(request_t) /\ waiters' \in Seq(request_t)
      /\ n \in ToSet(holders') \cup ToSet(waiters')
  BY <1>3, <1>n DEF AskedFor
<1>5. /\ pc'[p] = "wait" /\ req'[p] = e
      /\ \A q \in Proc \ {p} : pc'[q] = pc[q] /\ req'[q] = req[q]
  BY <1>i, <1>2 DEF MachineTypes
<1>6. MachineTypes' /\ Heard'
  <2>1. MachineTypes'
    BY <1>i, <1>2, <1>4 DEF MachineTypes, MachineStages
  <2>2. Heard'
    BY <1>i, <1>4, HeardKept
  <2> QED
    BY <2>1, <2>2
<1>7. Lives(p)' /\ Asks(p)' /\ InStep(p)'
  <2>1. Lives(p)'
    BY <1>i, <1>4, <1>5, NullIsNoMachineStage DEF Lives, MachineStages
  <2>2. Stands(p)'
    BY <1>4, <1>5, <1>n DEF Stands
  <2>3. Owned(req[p])'
    BY <1>4, <1>5 DEF Owned
  <2>4. Asks(p)'
    BY <2>2, <2>3 DEF Asks
  <2>5. InStep(p)'
    BY <1>5 DEF InStep
  <2> QED
    BY <2>1, <2>4, <2>5
<1>8. ASSUME NEW q \in Proc \ {p}
      PROVE  /\ Stands(q) => Stands(q)' \/ interrupt_pending'[q] \/ pstate[q] = "dead"
             /\ pc[q] \in Asking =>
                  Owned(req[q])' /\ (state[req[q]] = "processed" => state'[req[q]] = "processed")
  <2>1. Stands(q) => Stands(q)' \/ interrupt_pending'[q] \/ pstate[q] = "dead"
    <3> SUFFICES ASSUME Stands(q) PROVE Stands(q)' \/ interrupt_pending'[q] \/ pstate[q] = "dead"
      OBVIOUS
    <3>1. PICK h \in ToSet(holders) \cup ToSet(waiters) : h.event = req[q] /\ h.owner = q
      BY DEF Stands
    <3>2. h \in ToSet(holders') \cup ToSet(waiters') \/ interrupt_pending'[q] \/ pstate[q] = "dead"
      BY <1>3, <3>1 DEF AskedFor
    <3>3. h \in ToSet(holders') \cup ToSet(waiters') => Stands(q)'
      BY <1>5, <3>1 DEF Stands
    <3> QED
      BY <3>2, <3>3
  <2> QED
    BY <1>4, <1>5, <2>1, OtherSpared
<1>9. pc'[p] \in Asking => \A q \in Proc \ {p} : pc[q] \in Asking => req[q] # req'[p]
  BY <1>i, <1>4, <1>5 DEF Asks
<1> QED
  BY <1>i, <1>2, <1>4, <1>5, <1>6, <1>7, <1>8, <1>9, OwnMachine

(* What a release of request r by p does: the request is forgotten, and    *)
(* the first who waits may get the machine.                                *)
LEMMA Forgotten ==
  ASSUME MachineTypes, WaitLine, NEW p \in Proc, worker_release(p), NEW r \in Addr, r = req[p]
  PROVE  /\ holders' \in Seq(request_t) /\ waiters' \in Seq(request_t)
         /\ \A h \in ToSet(holders) \cup ToSet(waiters) :
              h.event # r => h \in ToSet(holders') \cup ToSet(waiters')
         /\ \/ UNCHANGED <<waiters, state, heap>>
            \/ \E w \in ToSet(waiters) :
                 /\ w \notin ToSet(waiters') /\ ToSet(waiters') \subseteq ToSet(waiters)
                 /\ IsInjective(Events(waiters')) /\ w.event \notin ToSet(Events(waiters'))
                 /\ state' = [state EXCEPT ![w.event] = "triggered"]
                 /\ _sim_event_schedule(w.event, 0)
<1>i. holders \in Seq(request_t) /\ waiters \in Seq(request_t)
  BY DEF MachineTypes
<1> DEFINE k == SelectInSeq(holders, LAMBDA h : h.event = req[p])
           others == IF k = 0 THEN holders ELSE RemoveAt(holders, k)
<1>1. k = 0 \/ (k \in 1..Len(holders) /\ holders[k].event = r)
  <2>1. k = 0 \/ (k \in 1..Len(holders) /\ holders[k].event = req[p])
    BY <1>i, HolderFound
  <2> HIDE DEF k
  <2> QED
    BY <2>1
<1>3. \/ /\ waiters # <<>> /\ waiters' = Tail(waiters) /\ holders' = <<Head(waiters)>> \o others
         /\ state' = [state EXCEPT ![Head(waiters).event] = "triggered"]
         /\ _sim_event_schedule(Head(waiters).event, 0)
      \/ holders' = others /\ UNCHANGED <<waiters, state, heap>>
  BY Zenon DEF worker_release, Follows
<1>o. (k = 0 => others = holders) /\ (k # 0 => others = RemoveAt(holders, k))
  BY Zenon
<1> HIDE DEF k, others
<1>2. /\ others \in Seq(request_t)
      /\ \A h \in ToSet(holders) : h.event # r => h \in ToSet(others)
  <2>1. CASE k = 0
    BY <1>i, <1>o, <2>1
  <2>2. CASE k # 0
    <3>1. k \in 1..Len(holders) /\ holders[k].event = r /\ others = RemoveAt(holders, k)
      BY <1>1, <1>o, <2>2
    <3>2. others \in Seq(request_t) /\ ToSet(holders) = ToSet(others) \cup {holders[k]}
      BY <1>i, <3>1, RemoveElements
    <3> QED
      BY <3>1, <3>2
  <2> QED
    BY <2>1, <2>2
<1>4. CASE holders' = others /\ UNCHANGED <<waiters, state, heap>>
  BY <1>i, <1>2, <1>4
<1>5. CASE /\ waiters # <<>> /\ waiters' = Tail(waiters) /\ holders' = <<Head(waiters)>> \o others
           /\ state' = [state EXCEPT ![Head(waiters).event] = "triggered"]
           /\ _sim_event_schedule(Head(waiters).event, 0)
  <2>1. PICK w \in request_t : w = Head(waiters)
    BY <1>i, <1>5, TailElements
  <2>2. waiters' \in Seq(request_t) /\ ToSet(waiters) = {w} \cup ToSet(waiters')
    BY <1>i, <1>5, <2>1, TailElements
  <2>3. holders' \in Seq(request_t) /\ ToSet(holders') = {w} \cup ToSet(others)
    BY <1>2, <1>5, <2>1, PrependElements
  <2>4. IsInjective(Events(waiters')) /\ w.event \notin ToSet(Events(waiters'))
    <3>1. Events(waiters) \in Seq(Addr) /\ IsInjective(Events(waiters))
      <4>1. \A x \in request_t : x.event \in Addr
        BY DEF request_t
      <4> QED
        BY <1>i, <4>1, EventsType DEF WaitLine
    <3>2. /\ Events(waiters) # <<>> /\ Head(Events(waiters)) = w.event
          /\ Events(waiters') = Tail(Events(waiters))
      BY <1>i, <1>5, <2>1, EventsTail
    <3> QED
      BY <3>1, <3>2, TailElements
  <2>5. w \notin ToSet(waiters')
    <3>1. ToSet(Events(waiters')) = {x.event : x \in ToSet(waiters')}
      BY <2>2, EventsPositions
    <3> QED
      BY <2>4, <3>1
  <2>6. /\ state' = [state EXCEPT ![w.event] = "triggered"] /\ _sim_event_schedule(w.event, 0)
    BY <1>5, <2>1
  <2>7. \A h \in ToSet(holders) \cup ToSet(waiters) :
          h.event # r => h \in ToSet(holders') \cup ToSet(waiters')
    BY <1>2, <2>2, <2>3
  <2> QED
    BY <2>2, <2>3, <2>4, <2>5, <2>6, <2>7
<1> QED
  BY <1>3, <1>4, <1>5

LEMMA ReleaseMachine ==
  ASSUME MachineInv, NEW p \in Proc, worker_release(p), ctx = p, pc[p] \in Asking
  PROVE  MachineInv'
<1>i. /\ LibraryInv /\ IInv /\ TypeOK /\ MachineTypes /\ Heard /\ Quiet /\ WaitLine
      /\ \A q \in Proc : Lives(q) /\ Asks(q) /\ InStep(q)
      /\ pstate[p] = "running" /\ InClient /\ current = p /\ event_pool \in Seq(Addr)
      /\ state \in [Ev -> {"fresh", "pending", "triggered", "processed"}] /\ Addr \subseteq Ev
  BY DEF MachineInv, LibraryInv, CondInv, IInv, TypeOK, RunningOK, InClient, Ev
<1>1. PICK r \in Addr : r = req[p] /\ Owned(r)
  BY <1>i DEF Asks, Owned
<1>2. /\ event_pool' = IF state[r] = "processed" THEN <<r>> \o event_pool ELSE event_pool
      /\ pc' = [pc EXCEPT ![p] = "leave"]
      /\ UNCHANGED <<now, cbs, recyclable, envVars, intVars, procVars, ctlVars, ghosts,
                     condVars, req, ev, limit>>
  BY <1>1 DEF worker_release
<1>3. UNCHANGED <<recyclable, made, done, watches, ctx, pstate, interrupt_pending, was_interrupted,
                  cbs, yielded, waitOn, req, ev, limit, now>>
  BY <1>2 DEF intVars, procVars, ctlVars, ghosts, condVars
<1>4. UNCHANGED event_pool \/ GivingBack(r)
  BY <1>1, <1>2, <1>i, AddressesDiffer DEF GivingBack, Owned, Quiet
<1>5. \A x \in Addr : Unpooled(x) /\ (x # r \/ state[r] # "processed") => Unpooled(x)'
  <2>1. CASE state[r] # "processed"
    BY <1>2, <2>1 DEF Unpooled
  <2>2. CASE state[r] = "processed"
    <3>1. LET t == <<r>> \o event_pool
          IN  \A i \in DOMAIN t : t[i] = r \/ \E j \in DOMAIN event_pool : t[i] = event_pool[j]
      BY <1>i, PushElements
    <3>2. event_pool' = <<r>> \o event_pool
      BY <1>2, <2>2
    <3> QED
      BY <2>2, <3>1, <3>2 DEF Unpooled
  <2> QED
    BY <2>1, <2>2
<1>6. /\ holders' \in Seq(request_t) /\ waiters' \in Seq(request_t)
      /\ \A h \in ToSet(holders) \cup ToSet(waiters) :
           h.event # r => h \in ToSet(holders') \cup ToSet(waiters')
      /\ \/ UNCHANGED <<waiters, state, heap>>
         \/ \E w \in ToSet(waiters) :
              /\ w \notin ToSet(waiters') /\ ToSet(waiters') \subseteq ToSet(waiters)
              /\ IsInjective(Events(waiters')) /\ w.event \notin ToSet(Events(waiters'))
              /\ state' = [state EXCEPT ![w.event] = "triggered"]
              /\ _sim_event_schedule(w.event, 0)
  BY <1>i, <1>1, Forgotten
<1>7. \A w \in ToSet(waiters) :
        /\ w.event \in Addr /\ Owned(w.event) /\ state[w.event] = "pending"
        /\ state[r] = "processed" => w.event # r
  BY <1>i DEF WaitLine, Owned
<1>8. LibraryInv' /\ KeepsEntries /\ \A x \in Addr : \/ state'[x] = state[x]
                                                     \/ state[x] = "pending" /\ state'[x] = "triggered"
  <2>1. CASE UNCHANGED <<state, heap>>
    <3>1. Releasing
      BY <1>i, <1>2, <1>4, <2>1 DEF Releasing
    <3> QED
      BY <1>i, <2>1, <3>1, ReleasingLibrary DEF KeepsEntries, Entered
  <2>2. ASSUME NEW w \in ToSet(waiters), _sim_event_schedule(w.event, 0),
               state' = [state EXCEPT ![w.event] = "triggered"]
        PROVE  /\ LibraryInv' /\ KeepsEntries
               /\ \A x \in Addr : \/ state'[x] = state[x]
                                  \/ state[x] = "pending" /\ state'[x] = "triggered"
    <3>1. PICK e \in Addr : e = w.event /\ Owned(e) /\ state[e] = "pending"
      BY <1>7
    <3>2. HandingOn(e)
      BY <2>2, <3>1 DEF HandingOn, Owned
    <3>3. Releasing
      BY <1>i, <1>2, <1>4, <3>2 DEF Releasing
    <3>4. KeepsEntries
      BY <1>i, <2>2, <3>1, ScheduleKeeps
    <3>5. \A x \in Addr : \/ state'[x] = state[x]
                          \/ state[x] = "pending" /\ state'[x] = "triggered"
      BY <1>i, <2>2, <3>1
    <3> QED
      BY <1>i, <3>3, <3>4, <3>5, ReleasingLibrary
  <2> QED
    BY <1>6, <2>1, <2>2
<1>9. ASSUME NEW x \in Addr, Owned(x), x # r \/ state[r] # "processed"
      PROVE  Owned(x)' /\ (state[x] = "processed" => state'[x] = "processed")
  <2>1. Unpooled(x)' /\ recyclable'[x] = recyclable[x] /\ made'[x] = made[x] /\ state'[x] # "fresh"
    BY <1>3, <1>5, <1>8, <1>9 DEF Owned
  <2> QED
    BY <1>8, <1>9, <2>1 DEF Owned
<1>10. WaitLine'
  <2>1. \A w \in ToSet(waiters) : Owned(w.event)'
    <3> SUFFICES ASSUME NEW w \in ToSet(waiters) PROVE Owned(w.event)'
      OBVIOUS
    <3>1. PICK e \in Addr : e = w.event /\ Owned(e) /\ (e # r \/ state[r] # "processed")
      BY <1>7
    <3>2. Owned(e)'
      BY <1>9, <3>1
    <3> QED
      BY <3>1, <3>2
  <2>2. CASE UNCHANGED <<waiters, state, heap>>
    BY <1>i, <2>1, <2>2 DEF WaitLine
  <2>3. ASSUME NEW w \in ToSet(waiters), ToSet(waiters') \subseteq ToSet(waiters),
               IsInjective(Events(waiters')), w.event \notin ToSet(Events(waiters')),
               state' = [state EXCEPT ![w.event] = "triggered"]
        PROVE  WaitLine'
    <3>1. ToSet(Events(waiters')) = {x.event : x \in ToSet(waiters')}
      BY <1>6, EventsPositions
    <3>2. ASSUME NEW x \in ToSet(waiters') PROVE Owned(x.event)' /\ state'[x.event] = "pending"
      <4>1. x \in ToSet(waiters) /\ x.event # w.event
        BY <2>3, <3>1
      <4>2. x.event \in Ev /\ state[x.event] = "pending"
        BY <1>i, <1>7, <4>1
      <4>3. state'[x.event] = "pending"
        BY <1>i, <2>3, <4>1, <4>2
      <4> QED
        BY <2>1, <4>1, <4>3
    <3> QED
      BY <2>3, <3>2 DEF WaitLine
  <2> QED
    BY <1>6, <2>2, <2>3
<1>11. pc'[p] = "leave" /\ \A q \in Proc \ {p} : pc'[q] = pc[q]
  BY <1>i, <1>2 DEF MachineTypes
<1>12. MachineTypes' /\ Heard'
  <2>1. MachineTypes'
    BY <1>i, <1>2, <1>3, <1>6 DEF MachineTypes, MachineStages
  <2>2. Heard'
    BY <1>i, <1>3, HeardKept
  <2> QED
    BY <2>1, <2>2
<1>13. Lives(p)' /\ Asks(p)' /\ InStep(p)'
  BY <1>i, <1>3, <1>11, NullIsNoMachineStage DEF Lives, Asks, InStep, Asking, MachineStages
<1>14. ASSUME NEW q \in Proc \ {p}
       PROVE  /\ pc[q] \in Asking /\ Stands(q) => Stands(q)'
              /\ pc[q] \in Asking =>
                   Owned(req[q])' /\ (state[req[q]] = "processed" => state'[req[q]] = "processed")
  <2> SUFFICES ASSUME pc[q] \in Asking
               PROVE  /\ Stands(q) => Stands(q)'
                      /\ Owned(req[q])' /\ (state[req[q]] = "processed" => state'[req[q]] = "processed")
    OBVIOUS
  <2>1. PICK x \in Addr : x = req[q] /\ Owned(x) /\ x # r
    BY <1>i, <1>1 DEF MachineInv, Separate, Asks, Owned
  <2>2. Owned(x)' /\ (state[x] = "processed" => state'[x] = "processed")
    BY <1>9, <2>1
  <2>3. Stands(q) => Stands(q)'
    BY <1>3, <1>6, <2>1 DEF Stands
  <2> QED
    BY <1>3, <2>1, <2>2, <2>3
<1>15. pc'[p] \in Asking => \A q \in Proc \ {p} : pc[q] \in Asking => req[q] # req'[p]
  BY <1>11 DEF Asking
<1> QED
  BY <1>i, <1>3, <1>8, <1>10, <1>11, <1>12, <1>13, <1>14, <1>15, OwnMachine

(* The library at work: where the workers are is not its business.         *)
LEMMA RunOf ==
  ASSUME MachineInv, Run, UNCHANGED <<appVars, holders, waiters>>,
         NoConditions', Heard', \A q \in Proc : Lives(q)' /\ Asks(q)' /\ InStep(q)'
  PROVE  MachineInv'
<1>1. LibraryInv /\ IInv /\ UNCHANGED <<pc, req, ev, limit>>
  BY DEF MachineInv, LibraryInv, CondInv, appVars
<1>2. LibraryInv' /\ WaitLine'
  <2>1. LibraryInv' /\ Sparing
    BY <1>1, RunLibrary, RunSpares
  <2> QED
    BY <2>1, LineSpared
<1>3. MachineTypes' /\ Quiet' /\ Separate'
  <2>1. UNCHANGED <<done, watches>>
    BY <1>1, RunControl
  <2> QED
    BY <1>1, <2>1 DEF MachineInv, MachineTypes, Quiet, Separate
<1> QED
  BY <1>2, <1>3 DEF MachineInv

(* A worker who does not run stays alive where he is, with his request.    *)
LEMMA RunLives ==
  ASSUME MachineInv, Run, UNCHANGED <<appVars, holders, waiters>>, NEW q \in Proc
  PROVE  /\ Lives(q)' /\ ctx # q /\ Lives(q) /\ Asks(q) /\ InStep(q)
         /\ pc'[q] = pc[q] /\ req'[q] = req[q] /\ ev'[q] = ev[q] /\ limit'[q] = limit[q]
         /\ Stands(q)' <=> Stands(q)
         /\ ctx' # q => pstate'[q] = pstate[q]
         /\ pc[q] \in Asking =>
              /\ pc[q] \in {"granted", "worked"} /\ Suspended(q)
              /\ req[q] \in Addr /\ Owned(req[q])'
              /\ state[req[q]] = "processed" => state'[req[q]] = "processed"
<1>1. LibraryInv /\ IInv /\ UNCHANGED <<pc, req, ev, limit>>
  BY DEF MachineInv, LibraryInv, CondInv, appVars
<1>2. /\ ctx # q
      /\ \/ pstate'[q] = pstate[q]
         \/ pstate[q] = "new" /\ pstate'[q] = "running" /\ ctx' = q
  BY <1>1, RunControl
<1>3. Lives(q) /\ Asks(q) /\ InStep(q)
  BY DEF MachineInv
<1>4. Lives(q)'
  BY <1>1, <1>2, <1>3 DEF Lives
<1>5. Stands(q)' <=> Stands(q)
  BY <1>1 DEF Stands
<1>6. ASSUME pc[q] \in Asking
      PROVE  /\ pc[q] \in {"granted", "worked"} /\ Suspended(q)
             /\ req[q] \in Addr /\ Owned(req[q])'
             /\ state[req[q]] = "processed" => state'[req[q]] = "processed"
  <2>1. pc[q] \in {"granted", "worked"} /\ Suspended(q)
    BY <1>2, <1>3, <1>6, NullIsNoMachineStage DEF Lives, Asking, MachineStages, Suspended
  <2>2. Sparing
    BY <1>1, RunSpares
  <2>3. req[q] \in Addr
    BY <1>3, <1>6 DEF Asks, Owned
  <2> QED
    BY <1>1, <1>6, <2>1, <2>2, <2>3, OtherSpared
<1> QED
  BY <1>1, <1>2, <1>3, <1>4, <1>5, <1>6

(* Whose time is over is told at once.                                     *)
LEMMA BackAtOnce ==
  ASSUME MachineInv, ctx = "loop", heap # <<>>, NEW q \in Proc, Suspended(q), waitOn[q] = NULL
  PROVE  Head(heap).time = now
<1>i. IInv /\ ResumeAtOnce /\ ControlOK /\ NoLostWakeup /\ QueuedOnce /\ Heard /\ q \in Ev
  BY DEF MachineInv, LibraryInv, CondInv, IInv, Clocked, Ev
<1>1. current = NULL
  BY <1>i DEF ControlOK
<1>2. ~ResumeDue(q) /\ ~Listening(q)
  BY <1>i, <1>1, AddressesDiffer DEF ResumeDue, Listening, Heard
<1>3. state[q] = "triggered"
  BY <1>i, <1>2 DEF NoLostWakeup, ResumeQueued
<1>4. PICK i \in DOMAIN heap : heap[i].ev = q
  BY <1>i, <1>3 DEF QueuedOnce, Queued
<1>5. heap[i].time = now
  BY <1>i, <1>4 DEF ResumeAtOnce
<1> QED
  BY <1>i, <1>5, TimeStands

(* sim_step processes a grant, the end of a work, or nothing of them.      *)
LEMMA StepWorks ==
  ASSUME MachineInv, sim_step, made' = Noted(current'), UNCHANGED cond,
         UNCHANGED <<appVars, holders, waiters>>
  PROVE  MachineInv'
<1>i. /\ LibraryInv /\ IInv /\ TypeOK /\ Heard /\ NoConditions /\ heap \in Seq(Entry(Ev))
      /\ ctx = "loop" /\ ctx' = "dispatch" /\ heap # <<>> /\ now' = Head(heap).time
      /\ state \in [Ev -> {"fresh", "pending", "triggered", "processed"}]
      /\ cbs \in [Ev -> Seq(Callback)] /\ Addr \subseteq Ev
  BY DEF MachineInv, LibraryInv, CondInv, IInv, TypeOK, sim_step, MayStep, Ev
<1>r. Run
  BY DEF Run
<1>1. PICK e \in Ev : e = Head(heap).ev
  BY <1>i, EntryTimes
<1>2. /\ state' = [state EXCEPT ![e] = "processed"] /\ cbs' = [cbs EXCEPT ![e] = <<>>]
      /\ waitOn' = [p \in Proc |-> IF waitOn[p] = e THEN NULL ELSE waitOn[p]]
      /\ UNCHANGED <<yielded, interrupt_pending, was_interrupted>>
  BY <1>1 DEF sim_step, procVars, intVars
<1>3. NoConditions'
  BY <1>i DEF NoConditions, Noted
<1>4. Heard'
  BY <1>i, <1>2, HeardKept
<1>5. ASSUME NEW q \in Proc PROVE Lives(q)' /\ Asks(q)' /\ InStep(q)'
  <2>l. /\ Lives(q)' /\ ctx # q /\ Lives(q) /\ Asks(q) /\ InStep(q)
        /\ pc'[q] = pc[q] /\ req'[q] = req[q] /\ ev'[q] = ev[q] /\ limit'[q] = limit[q]
        /\ Stands(q)' <=> Stands(q)
        /\ pc[q] \in Asking =>
             /\ pc[q] \in {"granted", "worked"} /\ Suspended(q)
             /\ req[q] \in Addr /\ Owned(req[q])'
             /\ state[req[q]] = "processed" => state'[req[q]] = "processed"
    BY <1>r, RunLives
  <2>q. ctx' # q /\ interrupt_pending'[q] = interrupt_pending[q]
    BY <1>i, <1>2, AddressesDiffer
  <2>1. CASE pc[q] \notin Asking
    BY <2>l, <2>1 DEF Asks, InStep, Asking
  <2>2. CASE pc[q] \in Asking
    <3>r. PICK r \in Addr : r = req[q] /\ Owned(r)'
      BY <2>l, <2>2 DEF Owned
    <3>1. Asks(q)'
      <4>1. Owned(req[q])'
        BY <2>l, <3>r
      <4> QED
        BY <2>l, <2>q, <2>2, <4>1 DEF Asks
    <3>2. CASE pc[q] = "granted"
      <4>1. \/ state[r] = "processed" \/ waitOn[q] = r \/ interrupt_pending[q]
        BY <2>l, <3>r, <3>2 DEF InStep
      <4>2. \/ state'[r] = "processed" \/ waitOn'[q] = r \/ interrupt_pending'[q]
        BY <1>i, <1>2, <2>l, <2>2, <2>q, <3>r, <4>1
      <4>3. InStep(q)'
        BY <2>l, <2>q, <3>r, <3>2, <4>2 DEF InStep
      <4> QED
        BY <2>l, <3>1, <4>3
    <3>3. CASE pc[q] = "worked"
      <4>1. state'[req'[q]] = "processed"
        BY <2>l, <2>2, <3>3 DEF InStep
      <4>2. ASSUME ~interrupt_pending[q]
            PROVE  \/ waitOn'[q] = NULL /\ now' = limit[q]
                   \/ waitOn'[q] = ev[q] /\ Entered(limit[q], ev[q])' /\ waitOn'[q] # NULL
        <5>1. CASE waitOn[q] = NULL
          <6>1. now = limit[q]
            BY <2>l, <4>2, <3>3, <5>1 DEF InStep, Told
          <6>2. now' = now
            BY <1>i, <2>l, <2>2, <5>1, BackAtOnce
          <6> QED
            BY <1>2, <5>1, <6>1, <6>2
        <5>2. CASE waitOn[q] # NULL
          <6>1. PICK t, x : /\ t = limit[q] /\ x = ev[q] /\ waitOn[q] = x /\ Entered(t, x)
            BY <2>l, <4>2, <3>3, <5>2 DEF InStep, Told
          <6>2. IF x = e THEN now' = t ELSE Entered(t, x)'
            BY <1>i, <1>1, <6>1, EntryTaken
          <6>3. waitOn'[q] = IF x = e THEN NULL ELSE x
            BY <1>2, <6>1
          <6> QED
            BY <2>l, <5>2, <6>1, <6>2, <6>3 DEF Entered
        <5> QED
          BY <5>1, <5>2
      <4>3. InStep(q)'
        BY <2>l, <2>q, <3>3, <4>1, <4>2 DEF InStep, Told, Entered
      <4> QED
        BY <2>l, <3>1, <4>3
    <3> QED
      BY <2>l, <2>2, <3>2, <3>3
  <2> QED
    BY <2>1, <2>2
<1> QED
  BY <1>r, <1>3, <1>4, <1>5, RunOf

(* A worker is resumed: he is told that he lost the machine, or what he    *)
(* waited for has come.                                                    *)
LEMMA ResumedWorks ==
  ASSUME MachineInv, resume_cb_return, UNCHANGED condVars,
         UNCHANGED <<appVars, holders, waiters>>,
         NEW p \in Proc, p = Head(rest).user, ResumeDue(p)
  PROVE  Lives(p)' /\ Asks(p)' /\ InStep(p)'
<1>r. Run
  BY DEF Run
<1>i. /\ interrupt_pending \in [Proc -> BOOLEAN] /\ was_interrupted \in [Proc -> BOOLEAN]
      /\ ReasonOK(p) /\ \A a \in Addr : a # NULL
  BY AddressesDiffer DEF MachineInv, LibraryInv, CondInv, IInv, TypeOK, Reasons
<1>1. /\ UNCHANGED <<now, heap, state>> /\ ctx' = p
      /\ was_interrupted'[p] = interrupt_pending[p] /\ waitOn' = [waitOn EXCEPT ![p] = NULL]
  BY <1>i DEF resume_cb_return, evVars
<1>2. /\ Lives(p)' /\ ctx # p /\ Lives(p) /\ Asks(p) /\ InStep(p)
      /\ pc'[p] = pc[p] /\ req'[p] = req[p] /\ ev'[p] = ev[p] /\ limit'[p] = limit[p]
      /\ Stands(p)' <=> Stands(p)
      /\ pc[p] \in Asking =>
           /\ pc[p] \in {"granted", "worked"} /\ Suspended(p)
           /\ req[p] \in Addr /\ Owned(req[p])'
           /\ state[req[p]] = "processed" => state'[req[p]] = "processed"
  BY <1>r, RunLives
<1>3. CASE pc[p] \notin Asking
  BY <1>2, <1>3 DEF Asks, InStep, Asking
<1>4. CASE pc[p] \in Asking
  <2>1. ~interrupt_pending[p] => waitOn[p] = NULL
    BY <1>i, <1>2, <1>4 DEF ReasonOK, Suspended
  <2>2. Asks(p)'
    <3>1. Owned(req[p])'
      BY <1>2, <1>4 DEF Owned
    <3> QED
      BY <1>1, <1>2, <1>4, <3>1 DEF Asks
  <2>3. InStep(p)'
    BY <1>i, <1>1, <1>2, <1>4, <2>1 DEF InStep, Told
  <2> QED
    BY <1>2, <2>2, <2>3
<1> QED
  BY <1>3, <1>4

LEMMA RunMachine ==
  ASSUME MachineInv, Run, UNCHANGED <<appVars, holders, waiters>>
  PROVE  MachineInv'
<1>i. /\ LibraryInv /\ IInv /\ TypeOK /\ CondOK /\ CondTypeOK /\ NoConditions /\ Heard
      /\ UNCHANGED <<pc, req, ev, limit>>
      /\ pstate \in [Proc -> {"unborn", "new", "running", "dead"}]
      /\ yielded \in [Proc -> Addr \cup {NULL}] /\ waitOn \in [Proc -> Addr \cup {NULL}]
      /\ interrupt_pending \in [Proc -> BOOLEAN]
      /\ cbs \in [Ev -> Seq(Callback)] /\ rest \in Seq(Callback)
      /\ Addr \subseteq Ev /\ \A a \in Addr : a \notin Proc
  BY AddressesDiffer DEF MachineInv, LibraryInv, CondInv, IInv, TypeOK, appVars, Ev
<1>o. ASSUME now' = now, KeepsEntries, UNCHANGED made, \A x \in Addr : cbs'[x] = cbs[x],
             \A q \in Proc :
               /\ yielded'[q] \in {yielded[q], NULL}
               /\ waitOn'[q] = waitOn[q] \/ yielded'[q] = NULL
               /\ \/ /\ ctx' # q /\ waitOn'[q] = waitOn[q]
                     /\ interrupt_pending'[q] = interrupt_pending[q]
                  \/ Lives(q)' /\ Asks(q)' /\ InStep(q)'
      PROVE  MachineInv'
  <2>1. Heard' /\ NoConditions'
    BY <1>i, <1>o, HeardKept DEF NoConditions
  <2>2. ASSUME NEW q \in Proc PROVE Lives(q)' /\ Asks(q)' /\ InStep(q)'
    <3>1. CASE Lives(q)' /\ Asks(q)' /\ InStep(q)'
      BY <3>1
    <3>2. CASE /\ ctx' # q /\ waitOn'[q] = waitOn[q]
               /\ interrupt_pending'[q] = interrupt_pending[q]
      <4>1. /\ ctx # q /\ pstate'[q] = pstate[q]
            /\ Stands(q)' <=> Stands(q)
            /\ pc'[q] = pc[q] /\ req'[q] = req[q] /\ ev'[q] = ev[q] /\ limit'[q] = limit[q]
            /\ pc[q] \in Asking =>
                 Owned(req[q])' /\ (state[req[q]] = "processed" => state'[req[q]] = "processed")
        BY <3>2, RunLives
      <4> QED
        BY <1>o, <3>2, <4>1, IdleWorker
    <3> QED
      BY <1>o, <3>1, <3>2
  <2> QED
    BY <2>1, <2>2, RunOf
<1>1. CASE sim_step /\ made' = Noted(current') /\ UNCHANGED cond
  BY <1>1, StepWorks
<1>2. CASE cond_cb
  <2>1. PICK out \in Addr : rest # <<>> /\ Head(rest) = Cond(out)
    BY <1>i, <1>2, CondCbEffect
  <2>2. Cardinality(Calls(rest, out)) >= 1
    BY <1>i, <2>1, CallsTail
  <2>3. Calls(rest, out) # {}
    BY <1>i, <2>2, CallsFinite
  <2> QED
    BY <1>i, <2>3 DEF CondOK, Sound, Idle, NoConditions
<1>3. CASE waiter_cb /\ UNCHANGED condVars
  <2>1. PICK p \in Proc : p = Head(rest).user
    BY <1>i, <1>3, NextCallbackType DEF waiter_cb
  <2>2. UNCHANGED <<state, heap, cbs>> \/ \E v : schedule_resume(p, v)
    BY <1>3, <2>1 DEF waiter_cb
  <2>3. UNCHANGED <<now, made, ctx, yielded, waitOn, interrupt_pending>> /\ ctx \notin Proc
    BY <1>3, AddressesDiffer DEF waiter_cb, NextCallback, condVars, ghosts, intVars
  <2>4. KeepsEntries /\ \A x \in Addr : cbs'[x] = cbs[x]
    <3>1. ASSUME NEW v, schedule_resume(p, v)
          PROVE  KeepsEntries /\ \A x \in Addr : cbs'[x] = cbs[x]
      <4>1. cbs' = [cbs EXCEPT ![p] = <<Resume(p)>>]
        BY <1>i, <3>1, ScheduleResumeEffect
      <4> QED
        BY <1>i, <3>1, <4>1, ResumeKeeps
    <3> QED
      BY <2>2, <3>1 DEF KeepsEntries, Entered
  <2> QED
    BY <1>o, <2>3, <2>4
<1>4. CASE /\ \/ FinishRun \/ LagAbort \/ user_cb \/ EndDispatch \/ resume_cb_dead
           /\ UNCHANGED condVars
  <2>1. running # "until"
    BY <1>i, HostRuns DEF TypeOK
  <2>2. /\ UNCHANGED <<now, heap, cbs, made, yielded, waitOn, interrupt_pending>>
        /\ ctx' \in {"main", "loop", "dispatch", "callback"}
    BY <1>4, <2>1
       DEF FinishRun, LagAbort, Return, IsLate, user_cb, EndDispatch, resume_cb_dead,
           NextCallback, evVars, procVars, intVars, ghosts, condVars
  <2>3. KeepsEntries /\ \A q \in Proc : ctx' # q
    BY <2>2, AddressesDiffer DEF KeepsEntries, Entered
  <2> QED
    BY <1>o, <2>2, <2>3
<1>5. CASE resume_cb_start /\ UNCHANGED condVars
  <2>1. PICK p \in Proc : p = Head(rest).user
    BY <1>i, <1>5, NextCallbackType DEF resume_cb_start
  <2>2. /\ UNCHANGED <<now, heap, cbs, made, yielded, waitOn, interrupt_pending>>
        /\ ctx' = p /\ pstate[p] = "new"
    BY <1>5, <2>1 DEF resume_cb_start, evVars, ghosts, condVars, intVars
  <2>3. Lives(p)' /\ Asks(p)' /\ InStep(p)'
    <3>1. Lives(p)' /\ Lives(p) /\ pc'[p] = pc[p]
      BY RunLives
    <3>2. pc'[p] = "new"
      BY <2>2, <3>1 DEF Lives
    <3> QED
      BY <3>1, <3>2 DEF Asks, InStep, Asking
  <2>4. KeepsEntries /\ \A q \in Proc : q # p => ctx' # q
    BY <2>2 DEF KeepsEntries, Entered
  <2> QED
    BY <1>o, <2>2, <2>3, <2>4
<1>6. CASE resume_cb_return /\ UNCHANGED condVars
  <2>1. PICK p \in Proc : p = Head(rest).user /\ ResumeDue(p)
    BY <1>i, <1>6, ResumeIsCurrent DEF resume_cb_return, NextCallback, ResumeDue
  <2>2. /\ UNCHANGED <<now, heap, cbs, made>> /\ ctx' = p
        /\ yielded' = [yielded EXCEPT ![p] = NULL] /\ waitOn' = [waitOn EXCEPT ![p] = NULL]
        /\ interrupt_pending' = [interrupt_pending EXCEPT ![p] = FALSE]
    BY <1>6, <2>1 DEF resume_cb_return, evVars, condVars, Delivered
  <2>3. Lives(p)' /\ Asks(p)' /\ InStep(p)'
    BY <1>6, <2>1, ResumedWorks
  <2>4. KeepsEntries /\ \A x \in Addr : cbs'[x] = cbs[x]
    BY <2>2 DEF KeepsEntries, Entered
  <2>5. /\ yielded'[p] = NULL
        /\ \A q \in Proc : q # p =>
             /\ ctx' # q /\ yielded'[q] = yielded[q] /\ waitOn'[q] = waitOn[q]
             /\ interrupt_pending'[q] = interrupt_pending[q]
    BY <1>i, <2>2
  <2> QED
    BY <1>o, <2>2, <2>3, <2>4, <2>5
<1> QED
  BY <1>1, <1>2, <1>3, <1>4, <1>5, <1>6 DEF Run

LEMMA InitMachine == MachineInit => MachineInv
<1> SUFFICES ASSUME MachineInit PROVE MachineInv
  OBVIOUS
<1>1. LibraryInv
  <2>1. Init /\ CondInit
    BY DEF MachineInit, AppInit
  <2>2. Clocked
    BY <2>1 DEF Init, CondInit, Clocked, ResumeAtOnce, InTimeOrder, Timely
  <2>3. Reasons
    BY <2>1, AddressesDiffer DEF Init, Reasons, DispatchOK, ReasonOK
  <2> QED
    BY <2>1, <2>2, <2>3, InitCond DEF LibraryInv
<1>2. /\ pc = [p \in Proc |-> NULL] /\ limit = [p \in Proc |-> 0]
      /\ req = [p \in Proc |-> NULL] /\ ev = [p \in Proc |-> NULL]
      /\ holders = <<>> /\ waiters = <<>> /\ made = [e \in Addr |-> NULL]
      /\ yielded = [p \in Proc |-> NULL]
      /\ watches = {} /\ done = [p \in Proc |-> NULL] /\ pstate = [p \in Proc |-> "unborn"]
  BY DEF MachineInit, AppInit, Init, CondInit
<1>3. NULL \notin Asking /\ NULL \notin MachineStages
  BY NullIsNoMachineStage DEF Asking, MachineStages
<1>4. MachineTypes /\ Quiet /\ NoConditions /\ Separate
  BY <1>2, <1>3 DEF MachineTypes, Quiet, NoConditions, Separate
<1>5. \A p \in Proc : Lives(p) /\ Asks(p) /\ InStep(p)
  BY <1>2, <1>3 DEF Lives, Asks, InStep, Asking
<1>6. Heard
  BY <1>2, AddressesDiffer DEF Heard
<1>7. WaitLine
  <2>1. ToSet(waiters) = {}
    BY <1>2, EmptyElements
  <2>2. IsInjective(Events(waiters))
    <3>1. DOMAIN Events(waiters) = {}
      BY <1>2 DEF Events
    <3> QED
      BY <3>1 DEF IsInjective
  <2> QED
    BY <2>1, <2>2 DEF WaitLine
<1> QED
  BY <1>1, <1>4, <1>5, <1>6, <1>7 DEF MachineInv

LEMMA NextMachine ==
  MachineInv /\ [MachineNext]_<<allVars, in_use, holders, waiters>> => MachineInv'
<1> SUFFICES ASSUME MachineInv, [MachineNext]_<<allVars, in_use, holders, waiters>>
             PROVE  MachineInv'
  OBVIOUS
<1>t. Gaps \subseteq Delays /\ Services \subseteq Delays
  BY TimesAreDelays
<1>1. ASSUME worker_main, UNCHANGED <<in_use, holders, waiters>> PROVE MachineInv'
  BY <1>1, MainMachine
<1>2. ASSUME NEW p \in Proc, worker(p) PROVE MachineInv'
  <2>1. CASE worker_request(p)
    BY <2>1, RequestMachine
  <2>2. CASE At(p, "granted") /\ worker_release(p)
    BY <2>2, ReleaseMachine DEF At, Asking
  <2>3. CASE At(p, "worked") /\ worker_release(p)
    BY <2>3, ReleaseMachine DEF At, Asking
  <2>4. CASE UNCHANGED <<in_use, holders, waiters>>
    <3>1. CASE Timeout(p, "new", Gaps, "come")
      BY <1>t, <2>4, <3>1, TimeoutMachine
    <3>2. CASE Timeout(p, "granted", Services, "work") /\ ~Evicted(p)
      BY <1>t, <2>4, <3>2, TimeoutMachine DEF Evicted
    <3>3. CASE Yield(p, "come", ev[p], "request")
      BY <2>4, <3>3, YieldMachine
    <3>4. CASE Yield(p, "wait", req[p], "granted")
      BY <2>4, <3>4, YieldMachine
    <3>5. CASE Yield(p, "work", ev[p], "worked")
      BY <2>4, <3>5, YieldMachine
    <3>6. CASE End(p, "leave")
      BY <2>4, <3>6, EndMachine
    <3> QED
      BY <1>2, <2>1, <2>2, <2>3, <3>1, <3>2, <3>3, <3>4, <3>5, <3>6 DEF worker
  <2> QED
    BY <1>2, <2>1, <2>2, <2>3, <2>4 DEF worker
<1>3. ASSUME Run, UNCHANGED <<appVars, in_use, holders, waiters>> PROVE MachineInv'
  BY <1>3, RunMachine
<1>4. ASSUME UNCHANGED <<allVars, in_use, holders, waiters>> PROVE MachineInv'
  <2>1. UNCHANGED <<vars, condVars, pc, req, ev, limit, holders, waiters>>
    BY <1>4 DEF allVars, appVars
  <2>2. UNCHANGED <<pstate, done, watches, interrupt_pending, was_interrupted, ctx, state, cbs,
                    recyclable, event_pool, heap, now, yielded, waitOn, made>>
    BY <2>1 DEF vars, evVars, intVars, procVars, ctlVars, ghosts, condVars
  <2>3. LibraryInv'
    <3>1. IInv' /\ Reasons'
      BY <2>1, NextIInv, NextReasons DEF MachineInv, LibraryInv, CondInv
    <3>2. CondInv'
      BY <2>1, NextCond DEF MachineInv, LibraryInv
    <3>3. Clocked'
      BY <2>1 DEF MachineInv, LibraryInv, Clocked, ResumeAtOnce, Timely, vars, condVars
    <3> QED
      BY <3>1, <3>2, <3>3 DEF LibraryInv
  <2>4. MachineTypes' /\ Quiet' /\ NoConditions' /\ Heard' /\ Separate' /\ WaitLine'
    BY <2>1, <2>2
       DEF MachineInv, MachineTypes, Quiet, NoConditions, Heard, Separate, WaitLine, Owned,
           Unpooled
  <2>5. \A q \in Proc : Lives(q)' /\ Asks(q)' /\ InStep(q)'
    BY <2>1, <2>2
       DEF MachineInv, Lives, Asks, InStep, Stands, Told, Entered, Owned, Unpooled
  <2> QED
    BY <2>3, <2>4, <2>5 DEF MachineInv
<1> QED
  BY <1>1, <1>2, <1>3, <1>4 DEF MachineNext

THEOREM MachineInductive == MachineSpec => []MachineInv
BY InitMachine, NextMachine, PTL DEF MachineSpec

(* Whoever works on the machine has it, until he is told that he lost it,  *)
(* and is done only when his time is over: for any number of workers,      *)
(* slots and events, and any times and priorities.                         *)
THEOREM WorksKept == MachineSpec => []WorksWithMachine
<1>1. MachineInv => WorksWithMachine
  <2> SUFFICES ASSUME MachineInv, NEW p \in Proc, pc[p] \in {"work", "worked"}, ~Told(p)
               PROVE  /\ \E h \in ToSet(holders) : h.event = req[p] /\ h.owner = p
                      /\ ctx = p /\ pc[p] = "worked" => now = limit[p]
    BY DEF WorksWithMachine
  <2>i. Asks(p) /\ InStep(p) /\ WaitLine
    BY DEF MachineInv
  <2>1. state[req[p]] = "processed" /\ (ctx = p /\ pc[p] = "worked" => now = limit[p])
    BY <2>i DEF InStep
  <2>2. PICK h \in ToSet(holders) \cup ToSet(waiters) : h.event = req[p] /\ h.owner = p
    BY <2>i DEF Asks, Asking, Stands, Told
  <2>3. h \notin ToSet(waiters)
    BY <2>i, <2>1, <2>2 DEF WaitLine
  <2> QED
    BY <2>1, <2>2, <2>3
<1> QED
  BY <1>1, MachineInductive, PTL
=============================================================================
