-------------------------- MODULE ConditionProofs --------------------------
(***************************************************************************)
(* The theorems of Conditions, for any program on the kernel: what the     *)
(* kernel promises still holds beside conditions (IInv), and a condition   *)
(* counts each of its inputs once (CondOK), whatever events are listed,    *)
(* recycled, or processed while it is made.                                *)
(***************************************************************************)
EXTENDS Conditions, KernelSafety

(* The callbacks for c in a list, and the inputs of c that are event e.    *)
Calls(s, c) == {k \in DOMAIN s : s[k] = Cond(c)}
Places(c, e) == {i \in DOMAIN made[c].left : made[c].left[i] = e}

Idle(c) ==
  /\ \A e \in Addr : Calls(cbs[e], c) = {}
  /\ Calls(rest, c) = {}

(* The inputs that have not been counted: those not processed, and those   *)
(* being processed whose callback has still to be run.                     *)
Awaited(c) == Cardinality(DOMAIN made[c].left) + Cardinality(Calls(rest, c))

(* The usual condition: an event has a callback for every time it is an    *)
(* input; the state counts the others and lives until there are no more.   *)
Subscribed(c) ==
  LET m == made[c]
  IN  /\ \A e \in Addr : Cardinality(Calls(cbs[e], c)) = Cardinality(Places(c, e))
      /\ Awaited(c) <= m.n
      /\ cond[c] = IF Awaited(c) = 0 /\ ~(m.any /\ m.n = 0) THEN NULL
                   ELSE [any |-> m.any, n_total |-> m.n, n_fired |-> m.n - Awaited(c)]
      /\ state[c] = "pending" <=> m.n - Awaited(c) < IF m.any THEN 1 ELSE m.n

(* An AnyOf that was done when it was made, with inputs outstanding: its   *)
(* state is nobody's any more.                                             *)
DoneEarly(c) ==
  /\ Idle(c)
  /\ made[c].any /\ DOMAIN made[c].left # 1..made[c].n
  /\ state[c] # "pending"
  /\ cond[c] # NULL /\ cond[c].any /\ cond[c].n_fired >= 1

(* Nobody can be given event c.                                            *)
Unpooled(c) == \A i \in DOMAIN event_pool : event_pool[i] # c

(* What is known of event c, a condition or not.                           *)
Sound(c) ==
  IF made[c] = NULL
  THEN cond[c] = NULL /\ Idle(c)
  ELSE /\ state[c] # "fresh" /\ ~recyclable[c] /\ Unpooled(c)
       /\ \A p \in Proc : done[p] # c
       /\ Subscribed(c) \/ DoneEarly(c)

CondOK == \A c \in Addr : Sound(c)

CondInv == IInv /\ CondTypeOK /\ CondOK

(* A condition triggered is in the queue for this instant.                 *)
Timely ==
  \A i \in DOMAIN heap :
    heap[i].ev \in Addr /\ made[heap[i].ev] # NULL => heap[i].time = now

-----------------------------------------------------------------------------
(* Counting callbacks.                                                     *)

(* A list has finitely many.                                               *)
LEMMA CallsFinite ==
  ASSUME NEW s \in Seq(Callback), NEW c
  PROVE  /\ IsFiniteSet(Calls(s, c)) /\ Cardinality(Calls(s, c)) \in Nat
         /\ Cardinality(Calls(s, c)) = 0 <=> Calls(s, c) = {}
<1>1. IsFiniteSet(1..Len(s)) /\ DOMAIN s = 1..Len(s)
  BY FS_Interval, LenProperties
<1>2. IsFiniteSet(Calls(s, c))
  BY <1>1, FS_Subset DEF Calls
<1> QED
  BY <1>2, FS_CardinalityType, FS_EmptySet

(* Another callback, appended by sim_event_on, is none of them.            *)
LEMMA CallsAppend ==
  ASSUME NEW s \in Seq(Callback), NEW c, NEW x, x # Cond(c)
  PROVE  Calls(Append(s, x), c) = Calls(s, c)
<1>1. /\ Len(s) \in Nat /\ DOMAIN s = 1..Len(s)
      /\ DOMAIN Append(s, x) = 1..(Len(s) + 1)
      /\ \A k \in 1..Len(s) : Append(s, x)[k] = s[k]
      /\ Append(s, x)[Len(s) + 1] = x
  OBVIOUS
<1> QED
  BY <1>1 DEF Calls

(* The callbacks s, and n more for condition c.                            *)
More(s, c, n) == s \o [k \in 1..n |-> Cond(c)]

(* make_cond appends n of them, and none for another condition.            *)
LEMMA CallsConcat ==
  ASSUME NEW s \in Seq(Callback), NEW c, NEW d, NEW n \in Nat
  PROVE  LET t == More(s, d, n)
         IN  /\ c # d => Calls(t, c) = Calls(s, c)
             /\ Calls(s, d) = {} => Cardinality(Calls(t, d)) = n
<1> DEFINE r == [k \in 1..n |-> Cond(d)]
           t == s \o r
<1>1. r \in Seq({Cond(d)}) /\ Len(r) = n /\ \A k \in 1..n : r[k] = Cond(d)
  OBVIOUS
<1>2. /\ Len(s) \in Nat /\ DOMAIN s = 1..Len(s)
      /\ DOMAIN t = 1..(Len(s) + n)
      /\ \A k \in 1..Len(s) : t[k] = s[k]
      /\ \A k \in (Len(s) + 1)..(Len(s) + n) : t[k] = Cond(d)
  <2> HIDE DEF r
  <2> QED
    BY <1>1
<1> HIDE DEF t
<1>3. ASSUME c # d PROVE Calls(t, c) = Calls(s, c)
  <2>1. Cond(c) # Cond(d)
    BY <1>3 DEF Cond
  <2> QED
    BY <1>2, <2>1 DEF Calls
<1>4. ASSUME Calls(s, d) = {} PROVE Cardinality(Calls(t, d)) = n
  <2>1. Calls(t, d) = (Len(s) + 1)..(Len(s) + n)
    BY <1>2, <1>4 DEF Calls
  <2>2. Len(s) + 1 \in Int /\ Len(s) + n \in Int
    BY <1>2
  <2> QED
    BY <1>2, <2>1, <2>2, FS_Interval
<1> QED
  BY <1>3, <1>4 DEF t, r, More

(* Running the first callback leaves those behind it.                      *)
LEMMA CallsTail ==
  ASSUME NEW s \in Seq(Callback), s # <<>>, NEW c
  PROVE  /\ Head(s) # Cond(c) =>
              Cardinality(Calls(Tail(s), c)) = Cardinality(Calls(s, c))
         /\ Head(s) = Cond(c) =>
              /\ Cardinality(Calls(s, c)) >= 1
              /\ Cardinality(Calls(Tail(s), c)) = Cardinality(Calls(s, c)) - 1
<1>1. /\ Len(s) \in Nat \ {0} /\ DOMAIN s = 1..Len(s) /\ Head(s) = s[1]
      /\ DOMAIN Tail(s) = 1..(Len(s) - 1)
      /\ \A k \in 1..(Len(s) - 1) : Tail(s)[k] = s[k + 1]
      /\ Tail(s) \in Seq(Callback)
  OBVIOUS
<1> DEFINE A == Calls(s, c)
           B == Calls(Tail(s), c)
           f == [k \in B |-> k + 1]
<1>2. IsFiniteSet(A) /\ IsFiniteSet(B) /\ A \subseteq 1..Len(s) /\ B \subseteq Nat
  <2>1. IsFiniteSet(A) /\ IsFiniteSet(B)
    BY <1>1, CallsFinite
  <2>2. A \subseteq 1..Len(s) /\ B \subseteq 1..(Len(s) - 1)
    BY <1>1 DEF Calls
  <2> QED
    BY <2>1, <2>2
<1>3. \A k \in Nat : k \in B <=> k + 1 \in A /\ k # 0
  BY <1>1 DEF Calls
<1>4. 1 \in A <=> Head(s) = Cond(c)
  BY <1>1 DEF Calls
<1> HIDE DEF A, B
<1>5. f \in Bijection(B, A \ {1})
  <2>1. f \in [B -> A \ {1}]
    BY <1>2, <1>3
  <2>2. \A k, l \in B : f[k] = f[l] => k = l
    BY <1>2
  <2>3. ASSUME NEW l \in A \ {1} PROVE \E k \in B : f[k] = l
    <3>1. l - 1 \in Nat /\ l - 1 # 0 /\ (l - 1) + 1 = l
      BY <1>1, <1>2
    <3>2. l - 1 \in B
      BY <1>3, <3>1
    <3> QED
      BY <3>1, <3>2
  <2> QED
    BY <2>1, <2>2, <2>3 DEF Bijection, Injection, IsInjective, Surjection
<1>6. Cardinality(A \ {1}) = Cardinality(B)
  BY <1>2, <1>5, FS_Bijection DEF ExistsBijection
<1>7. Cardinality(A \ {1}) = IF 1 \in A THEN Cardinality(A) - 1 ELSE Cardinality(A)
  BY <1>2, FS_RemoveElement
<1>8. Cardinality(A) \in Nat /\ (1 \in A => Cardinality(A) # 0)
  BY <1>2, FS_CardinalityType, FS_EmptySet
<1> QED
  BY <1>4, <1>6, <1>7, <1>8 DEF A, B

-----------------------------------------------------------------------------
(* What the kernel promises beside conditions.                             *)

(* The inputs that a condition made of evs waits for, those of them that   *)
(* are event e, and the state the condition starts with.                   *)
Waiting(evs) == {i \in DOMAIN evs : state[evs[i]] # "processed"}
WaitingFor(evs, e) == {i \in Waiting(evs) : evs[i] = e}
Started(evs, any) ==
  [any |-> any, n_total |-> Len(evs), n_fired |-> Len(evs) - Cardinality(Waiting(evs))]

(* The callbacks of all events when those it waits for are subscribed to.  *)
Joined(evs, out) ==
  [e \in Ev |-> More(cbs[e], out, Cardinality(WaitingFor(evs, e)))]

(* A program lists events, each of which is in use.                        *)
LEMMA InputsInUse ==
  ASSUME IInv, NEW evs \in Inputs
  PROVE  /\ evs \in Seq(Addr) /\ Len(evs) \in 0..MaxInputs /\ DOMAIN evs = 1..Len(evs)
         /\ \A i \in DOMAIN evs : /\ evs[i] \in Addr /\ state[evs[i]] # "fresh"
                                  /\ evs[i] \notin ToSet(event_pool)
         /\ Waiting(evs) \subseteq 1..Len(evs) /\ IsFiniteSet(Waiting(evs))
         /\ Cardinality(Waiting(evs)) \in 0..Len(evs)
         /\ Cardinality(Waiting(evs)) = 0 <=> Waiting(evs) = {}
         /\ Cardinality(Waiting(evs)) = Len(evs) <=> Waiting(evs) = 1..Len(evs)
         /\ Cardinality(DOMAIN evs \ Waiting(evs)) = Len(evs) - Cardinality(Waiting(evs))
<1>1. PICK n \in 0..MaxInputs : evs \in [1..n -> Handles]
  BY DEF Inputs
<1>2. n \in Nat /\ n \in 0..MaxInputs
  BY InputsAreBounded
<1>3. evs \in [1..n -> Addr]
  BY <1>1 DEF Handles
<1>4. evs \in Seq(Addr)
  BY <1>2, <1>3, SeqDef
<1>5. Len(evs) = n
  BY <1>1, <1>2, <1>4
<1>6. \A i \in DOMAIN evs : /\ evs[i] \in Addr /\ state[evs[i]] # "fresh"
                            /\ evs[i] \notin ToSet(event_pool)
  BY <1>1 DEF Handles
<1> DEFINE W == Waiting(evs)
<1>7. W \subseteq 1..n /\ DOMAIN evs = 1..n
  BY <1>1 DEF Waiting
<1> HIDE DEF W
<1>8. IsFiniteSet(1..n) /\ Cardinality(1..n) = n
  BY <1>2, FS_Interval
<1>9. IsFiniteSet(W) /\ Cardinality(W) \in Nat /\ Cardinality(W) <= n
      /\ (Cardinality(W) = n => W = 1..n)
  BY <1>7, <1>8, FS_Subset, FS_CardinalityType
<1>10. Cardinality(W) = 0 <=> W = {}
  BY <1>9, FS_EmptySet
<1>11. Cardinality(1..n \ W) = n - Cardinality(W)
  <2>1. Cardinality((1..n) \ W) = Cardinality(1..n) - Cardinality((1..n) \cap W)
    BY <1>8, <1>9, FS_Difference
  <2>2. (1..n) \cap W = W
    BY <1>7
  <2> QED
    BY <1>8, <2>1, <2>2
<1> QED
  BY <1>2, <1>4, <1>5, <1>6, <1>7, <1>8, <1>9, <1>10, <1>11 DEF W

(* make_cond, told from its inputs: it takes an unused event, which is     *)
(* none of them, and is triggered at once or leaves a callback with every  *)
(* one that it waits for.                                                  *)
LEMMA MakeEffect ==
  ASSUME IInv, NEW out \in Addr, NEW evs \in Inputs, NEW any \in BOOLEAN,
         make_cond(out, evs, any)
  PROVE  /\ \A i \in DOMAIN evs : evs[i] # out
         /\ _sim_event_alloc(out) /\ recyclable' = [recyclable EXCEPT ![out] = FALSE]
         /\ IF Done(Started(evs, any))
            THEN /\ state' = [state EXCEPT ![out] = "triggered"] /\ cbs' = cbs
                 /\ _sim_event_schedule(out, 0)
            ELSE /\ state' = [state EXCEPT ![out] = "pending"] /\ UNCHANGED heap
                 /\ cbs' = Joined(evs, out)
         /\ cond' = [cond EXCEPT ![out] = IF Done(Started(evs, any))
                                          THEN Kept(Started(evs, any))
                                          ELSE Started(evs, any)]
         /\ made' = [made EXCEPT ![out] = [any |-> any, n |-> Len(evs),
                                           left |-> Restrict(evs, Waiting(evs))]]
<1>1. _sim_event_alloc(out)
  BY DEF make_cond, Allocated
<1>2. \A i \in DOMAIN evs : evs[i] # out
  <2>1. state[out] = "fresh" \/ out \in ToSet(event_pool)
    <3>1. CASE event_pool # <<>>
      <4>1. out = Head(event_pool) /\ event_pool \in Seq(Addr)
        BY <1>1, <3>1 DEF _sim_event_alloc, IInv, TypeOK
      <4> QED
        BY <3>1, <4>1, TailToSet
    <3> QED
      BY <1>1, <3>1 DEF _sim_event_alloc
  <2> QED
    BY <2>1, InputsInUse
<1>3. Fired(evs, out) = DOMAIN evs \ Waiting(evs)
  BY <1>2 DEF Fired, Waiting
<1>4. \A e : Left(evs, Fired(evs, out), e) = WaitingFor(evs, e)
  BY <1>3 DEF Left, WaitingFor, Waiting
<1>5. [any |-> any, n_total |-> Len(evs), n_fired |-> Cardinality(Fired(evs, out))]
        = Started(evs, any)
  BY <1>3, InputsInUse DEF Started
<1>6. cbs[out] = <<>>
  BY <1>1, AllocEffect
<1>7. CASE Done(Started(evs, any))
  <2>1. Allocated(out, "triggered", FALSE) /\ _sim_event_schedule(out, 0)
    BY <1>5, <1>7 DEF make_cond
  <2>2. cbs' = cbs
    BY <2>1, AllocatedEffect
  <2> QED
    BY <1>1, <1>2, <1>5, <1>7, <2>1, <2>2 DEF make_cond, Allocated, Waiting
<1>8. CASE ~Done(Started(evs, any))
  <2>1. \A e \in Ev : (IF e = out THEN <<>> ELSE cbs[e]) = cbs[e]
    BY <1>6
  <2>2. cbs' = [e \in Ev |-> (IF e = out THEN <<>> ELSE cbs[e]) \o
                  [k \in 1..Cardinality(Left(evs, Fired(evs, out), e)) |-> Cond(out)]]
    BY <1>5, <1>8 DEF make_cond
  <2>3. cbs' = Joined(evs, out)
    BY <1>4, <2>1, <2>2, Zenon DEF Joined, More
  <2> QED
    BY <1>1, <1>2, <1>5, <1>8, <2>3 DEF make_cond, Waiting
<1> QED
  BY <1>7, <1>8

(* What cond_cb does to the events: it may trigger the condition.          *)
LEMMA CondCbEffect ==
  ASSUME IInv, cond_cb
  PROVE  \E out \in Addr :
           /\ ctx = "dispatch" /\ current \in Addr /\ rest # <<>>
           /\ Head(rest) = Cond(out) /\ rest' = Tail(rest) /\ rest' \in Seq(Callback)
           /\ LET s == [cond[out] EXCEPT !.n_fired = @ + 1]
              IN  /\ cond' = [cond EXCEPT ![out] = Kept(s)]
                  /\ IF Due(out, s)
                     THEN /\ state[out] = "pending"
                          /\ state' = [state EXCEPT ![out] = "triggered"]
                          /\ _sim_event_schedule(out, 0)
                     ELSE UNCHANGED <<state, heap>>
<1>1. /\ ctx = "dispatch" /\ NextCallback("cond") /\ TypeOK
      /\ rest # <<>> /\ rest' = Tail(rest) /\ rest' \in Seq(Callback)
  BY NextCallbackType DEF cond_cb, NextCallback, IInv
<1>2. PICK out \in Addr : out = Head(rest).user /\ Head(rest) = Cond(out)
  BY <1>1, NextCallbackType
<1>3. current \in Addr
  <2>1. current \in Addr \cup Proc
    BY <1>1, AddressesDiffer DEF IInv, ControlOK, Ev
  <2>2. current \notin Proc
    <3>1. SUFFICES ASSUME current \in Proc PROVE FALSE
      OBVIOUS
    <3>2. rest = <<Resume(current)>>
      BY <1>1, <3>1 DEF IInv, CallbacksOK
    <3>3. Head(rest) = Resume(current)
      BY <3>2
    <3> QED
      BY <1>2, <3>3 DEF Resume, Cond
  <2> QED
    BY <2>1, <2>2
<1> QED
  BY <1>1, <1>2, <1>3 DEF cond_cb, Due

(* The kernel's invariant holds whatever a callback of a condition does.   *)
LEMMA CondCbIInv == IInv /\ cond_cb => IInv'
<1> SUFFICES ASSUME IInv, cond_cb PROVE IInv'
  OBVIOUS
<1> USE AddressesDiffer
<1>t. /\ state \in [Ev -> {"fresh", "pending", "triggered", "processed"}]
      /\ cbs \in [Ev -> Seq(Callback)] /\ rest \in Seq(Callback)
      /\ Addr \subseteq Ev /\ Proc \subseteq Ev /\ TypeOK
  BY DEF IInv, TypeOK, Ev
<1>i. /\ ControlOK /\ RunningOK /\ CallbacksOK /\ AwaitedOK /\ PooledAreDead
      /\ PoolUnused /\ QueuedOnce /\ NoLostWakeup
  BY DEF IInv
<1>u. UNCHANGED <<now, cbs, recyclable, event_pool, ctx, running, until, current,
                  envVars, intVars, procVars, ghosts>>
  BY DEF cond_cb
<1>1. PICK out \in Addr :
        /\ ctx = "dispatch" /\ current \in Addr /\ rest # <<>>
        /\ Head(rest) = Cond(out) /\ rest' = Tail(rest) /\ rest' \in Seq(Callback)
        /\ \/ /\ state[out] = "pending"
              /\ state' = [state EXCEPT ![out] = "triggered"]
              /\ _sim_event_schedule(out, 0)
           \/ UNCHANGED <<state, heap>>
  BY CondCbEffect
<1>2. /\ \A e \in Ev : state'[e] = state[e] \/ (e = out /\ state[e] = "pending"
                                                 /\ state'[e] = "triggered")
      /\ state' \in [Ev -> {"fresh", "pending", "triggered", "processed"}]
      /\ \A p \in Proc : state'[p] = state[p]
  BY <1>1, <1>t
<1>3. heap' \in Seq(Entry(Ev)) /\ QueuedOnce'
  <2>1. CASE state[out] = "pending" /\ state' = [state EXCEPT ![out] = "triggered"]
               /\ _sim_event_schedule(out, 0)
    BY <2>1, <1>t, ScheduleType, ScheduleEffect
  <2>2. CASE UNCHANGED <<state, heap>>
    BY <2>2, <1>t, <1>i DEF TypeOK, QueuedOnce
  <2> QED
    BY <1>1, <2>1, <2>2
<1>4. ToSet(rest') \subseteq ToSet(rest)
      /\ \A x \in ToSet(rest) : x = Cond(out) \/ x \in ToSet(rest')
  BY <1>1, <1>t, TailToSet
<1>5. TypeOK'
  BY <1>t, <1>u, <1>1, <1>2, <1>3
     DEF TypeOK, envVars, intVars, procVars, ghosts
<1>6. ControlOK' /\ RunningOK'
  BY <1>u, <1>1, <1>i DEF ControlOK, RunningOK, procVars
<1>7. CallbacksOK'
  <2>1. NoResume(rest')
    BY <1>1, <1>4, <1>i, NoResumeSet DEF CallbacksOK
  <2>2. \A e \in Addr : NoResume(cbs'[e]) <=> NoResume(cbs[e])
    BY <1>u
  <2> QED
    BY <1>u, <1>1, <1>2, <1>i, <1>t, <2>1, <2>2 DEF CallbacksOK
<1>8. AwaitedOK'
  BY <1>u, <1>2, <1>i, <1>t DEF AwaitedOK, procVars, ghosts, TypeOK
<1>9. PooledAreDead'
  BY <1>u, <1>i DEF PooledAreDead, procVars
<1>10. PoolUnused'
  <2>1. \A i \in DOMAIN event_pool : event_pool[i] \in Ev
    BY <1>t DEF TypeOK
  <2> QED
    BY <1>u, <1>2, <1>i, <2>1 DEF PoolUnused, procVars, ghosts
<1>11. NoLostWakeup'
  <2>1. \A p \in Proc : ResumeQueued(p)' <=> ResumeQueued(p)
    BY <1>u, <1>2 DEF ResumeQueued
  <2>2. \A p \in Proc : ~ResumeDue(p)
    BY <1>1 DEF ResumeDue
  <2>3. \A p \in Proc : Listening(p) => Listening(p)'
    <3>1. \A p \in Proc : Waiter(p) # Cond(out)
      BY DEF Waiter, Cond
    <3> QED
      BY <1>u, <1>2, <1>4, <1>t, <3>1 DEF Listening, procVars
  <2> QED
    BY <1>u, <1>i, <2>1, <2>2, <2>3 DEF NoLostWakeup, Suspended, procVars
<1> QED
  BY <1>3, <1>5, <1>6, <1>7, <1>8, <1>9, <1>10, <1>11 DEF IInv

(* make_cond adds callbacks for its condition alone, and only to events    *)
(* not processed yet.                                                      *)
LEMMA MakeCallbacks ==
  ASSUME IInv, NEW out \in Addr, NEW evs \in Inputs, NEW any \in BOOLEAN,
         make_cond(out, evs, any)
  PROVE  /\ cbs' \in [Ev -> Seq(Callback)]
         /\ \A e \in Ev : /\ ToSet(cbs[e]) \subseteq ToSet(cbs'[e])
                          /\ \A x \in ToSet(cbs'[e]) : x \in ToSet(cbs[e]) \/ x = Cond(out)
         /\ \A e \in Ev : e \in Proc \/ state[e] \in {"fresh", "processed"}
                            => cbs'[e] = cbs[e]
<1>1. cbs \in [Ev -> Seq(Callback)] /\ Cond(out) \in Callback
  BY DEF IInv, TypeOK, Callback
<1>2. CASE cbs' = cbs
  BY <1>1, <1>2
<1>3. CASE cbs' = Joined(evs, out)
  <2>1. ASSUME NEW s \in Seq(Callback), NEW n \in Nat
        PROVE  LET t == More(s, out, n)
               IN  /\ t \in Seq(Callback) /\ ToSet(s) \subseteq ToSet(t)
                   /\ \A x \in ToSet(t) : x \in ToSet(s) \/ x = Cond(out)
                   /\ n = 0 => t = s
    <3> DEFINE r == [k \in 1..n |-> Cond(out)]
               t == s \o r
    <3>1. r \in Seq(Callback) /\ Len(r) = n /\ \A k \in 1..n : r[k] = Cond(out)
      BY <1>1
    <3>2. /\ t \in Seq(Callback) /\ Len(s) \in Nat /\ DOMAIN s = 1..Len(s)
          /\ DOMAIN t = 1..(Len(s) + n)
          /\ \A k \in 1..Len(s) : t[k] = s[k]
          /\ \A k \in (Len(s) + 1)..(Len(s) + n) : t[k] = Cond(out)
      <4> HIDE DEF r
      <4> QED
        BY <3>1
    <3>3. n = 0 => t = s
      <4>1. n = 0 => r = <<>>
        OBVIOUS
      <4> HIDE DEF r
      <4> QED
        BY <4>1
    <3> HIDE DEF t
    <3>4. ToSet(s) \subseteq ToSet(t)
      BY <3>2 DEF ToSet
    <3>5. \A x \in ToSet(t) : x \in ToSet(s) \/ x = Cond(out)
      BY <3>2 DEF ToSet
    <3> QED
      BY <3>2, <3>3, <3>4, <3>5, Zenon DEF t, r, More
  <2>2. \A e : /\ Cardinality(WaitingFor(evs, e)) \in Nat
               /\ WaitingFor(evs, e) = {} => Cardinality(WaitingFor(evs, e)) = 0
    <3> TAKE e
    <3>1. WaitingFor(evs, e) \subseteq Waiting(evs) /\ IsFiniteSet(Waiting(evs))
      BY InputsInUse DEF WaitingFor
    <3> QED
      BY <3>1, FS_Subset, FS_CardinalityType, FS_EmptySet
  <2>3. \A e \in Ev : e \in Proc \/ state[e] \in {"fresh", "processed"}
                        => WaitingFor(evs, e) = {}
    BY InputsInUse, AddressesDiffer DEF WaitingFor, Waiting
  <2>4. ASSUME NEW e \in Ev
        PROVE  /\ cbs'[e] \in Seq(Callback)
               /\ ToSet(cbs[e]) \subseteq ToSet(cbs'[e])
               /\ \A x \in ToSet(cbs'[e]) : x \in ToSet(cbs[e]) \/ x = Cond(out)
               /\ e \in Proc \/ state[e] \in {"fresh", "processed"} => cbs'[e] = cbs[e]
    <3> DEFINE n == Cardinality(WaitingFor(evs, e))
    <3>1. n \in Nat /\ cbs[e] \in Seq(Callback)
      BY <1>1, <2>2
    <3>2. cbs'[e] = More(cbs[e], out, n)
      BY <1>3 DEF Joined
    <3>3. e \in Proc \/ state[e] \in {"fresh", "processed"} => n = 0
      BY <2>2, <2>3
    <3> HIDE DEF n
    <3> QED
      BY <3>1, <3>2, <3>3, <2>1, Zenon
  <2>5. cbs' \in [Ev -> Seq(Callback)]
    <3>1. DOMAIN cbs' = Ev /\ cbs' = [e \in Ev |-> cbs'[e]]
      BY <1>3 DEF Joined
    <3> QED
      BY <3>1, <2>4, Zenon
  <2> QED
    BY <2>4, <2>5
<1>4. cbs' = cbs \/ cbs' = Joined(evs, out)
  BY MakeEffect
<1> QED
  BY <1>2, <1>3, <1>4

(* The kernel's invariant holds whatever condition a program makes.        *)
LEMMA MakeIInv ==
  ASSUME IInv, NEW out \in Addr, NEW evs \in Inputs, NEW any \in BOOLEAN,
         make_cond(out, evs, any)
  PROVE  IInv'
<1> USE AddressesDiffer
<1>t. /\ state \in [Ev -> {"fresh", "pending", "triggered", "processed"}]
      /\ cbs \in [Ev -> Seq(Callback)] /\ recyclable \in [Ev -> BOOLEAN]
      /\ event_pool \in Seq(Addr) /\ Addr \subseteq Ev /\ Proc \subseteq Ev /\ TypeOK
  BY DEF IInv, TypeOK, Ev
<1>i. /\ ControlOK /\ RunningOK /\ CallbacksOK /\ AwaitedOK /\ PooledAreDead
      /\ PoolUnused /\ QueuedOnce /\ NoLostWakeup
  BY DEF IInv
<1>u. UNCHANGED <<now, envVars, intVars, procVars, ctlVars, ghosts>>
  BY DEF make_cond
<1>a. /\ state[out] \in {"fresh", "processed"} /\ cbs[out] = <<>> /\ out # current
      /\ \A p \in Proc : waitOn[p] # out /\ done[p] # out
      /\ event_pool' \in Seq(Addr)
      /\ \A i, j \in DOMAIN event_pool' : event_pool'[i] = event_pool'[j] => i = j
      /\ \A i \in DOMAIN event_pool' :
           /\ event_pool'[i] # out
           /\ \E j \in DOMAIN event_pool : event_pool'[i] = event_pool[j]
  BY MakeEffect, AllocEffect
<1>c. /\ cbs' \in [Ev -> Seq(Callback)]
      /\ \A e \in Ev : /\ ToSet(cbs[e]) \subseteq ToSet(cbs'[e])
                       /\ \A x \in ToSet(cbs'[e]) : x \in ToSet(cbs[e]) \/ x = Cond(out)
      /\ \A e \in Ev : e \in Proc \/ state[e] \in {"fresh", "processed"}
                         => cbs'[e] = cbs[e]
  BY MakeCallbacks
<1>1. /\ recyclable' = [recyclable EXCEPT ![out] = FALSE]
      /\ \/ /\ state' = [state EXCEPT ![out] = "triggered"]
            /\ _sim_event_schedule(out, 0)
         \/ state' = [state EXCEPT ![out] = "pending"] /\ UNCHANGED heap
  BY MakeEffect
<1>2. /\ \A e \in Ev : e # out => state'[e] = state[e]
      /\ state'[out] \in {"pending", "triggered"}
      /\ state' \in [Ev -> {"fresh", "pending", "triggered", "processed"}]
      /\ \A p \in Proc : state'[p] = state[p] /\ p # out
  BY <1>1, <1>t
<1>3. heap' \in Seq(Entry(Ev)) /\ QueuedOnce'
  <2>1. CASE state' = [state EXCEPT ![out] = "triggered"] /\ _sim_event_schedule(out, 0)
    BY <2>1, <1>t, <1>a, ScheduleType, ScheduleEffect
  <2>2. CASE state' = [state EXCEPT ![out] = "pending"] /\ UNCHANGED heap
    BY <2>2, <1>t, <1>i, <1>a DEF TypeOK, QueuedOnce
  <2> QED
    BY <1>1, <2>1, <2>2
<1>5. TypeOK'
  BY <1>t, <1>u, <1>a, <1>c, <1>1, <1>2, <1>3
     DEF TypeOK, envVars, intVars, procVars, ctlVars, ghosts
<1>6. ControlOK' /\ RunningOK'
  BY <1>u, <1>1, <1>t, <1>i DEF ControlOK, RunningOK, procVars, ctlVars
<1>7. CallbacksOK'
  <2>1. \A e \in Addr : NoResume(cbs'[e])
    <3> TAKE e \in Addr
    <3>1. NoResume(cbs[e]) /\ e \in Ev
      BY <1>i, <1>t DEF CallbacksOK
    <3>2. Cond(out).fn # "resume"
      BY DEF Cond
    <3> QED
      BY <3>1, <3>2, <1>c, NoResumeSet
  <2>2. \A e \in Addr : state'[e] \in {"fresh", "processed"} => cbs'[e] = <<>>
    BY <1>2, <1>c, <1>i, <1>t DEF CallbacksOK
  <2>3. \A p \in Proc :
          /\ state'[p] # "pending"
          /\ cbs'[p] = IF state'[p] = "triggered" THEN <<Resume(p)>> ELSE <<>>
    BY <1>2, <1>c, <1>i, <1>t DEF CallbacksOK
  <2>4. current' \in Addr => state'[current'] = "processed" /\ NoResume(rest')
    BY <1>u, <1>2, <1>a, <1>i, <1>t DEF CallbacksOK, ctlVars
  <2>5. current' \in Proc => rest' \in {<<>>, <<Resume(current')>>}
    BY <1>u, <1>i DEF CallbacksOK, ctlVars
  <2> QED
    BY <2>1, <2>2, <2>3, <2>4, <2>5 DEF CallbacksOK
<1>8. AwaitedOK'
  BY <1>u, <1>1, <1>2, <1>a, <1>i, <1>t DEF AwaitedOK, procVars, ghosts, TypeOK
<1>9. PooledAreDead'
  BY <1>u, <1>i DEF PooledAreDead, procVars
<1>10. PoolUnused'
  <2>1. ASSUME NEW i \in DOMAIN event_pool'
        PROVE  LET e == event_pool'[i] IN
                 /\ state'[e] = "processed" /\ cbs'[e] = <<>>
                 /\ e # current' /\ \A p \in Proc : waitOn'[p] # e /\ done'[p] # e
    <3>1. PICK j \in DOMAIN event_pool : event_pool'[i] = event_pool[j]
      BY <1>a
    <3>2. event_pool[j] \in Addr /\ event_pool[j] \in Ev /\ event_pool[j] # out
      BY <1>t, <1>a, <3>1
    <3>3. /\ state[event_pool[j]] = "processed"
          /\ cbs[event_pool[j]] = <<>> /\ event_pool[j] # current
          /\ \A p \in Proc : waitOn[p] # event_pool[j] /\ done[p] # event_pool[j]
      BY <1>i DEF PoolUnused
    <3> QED
      BY <1>u, <1>1, <1>2, <1>c, <1>t, <3>1, <3>2, <3>3 DEF procVars, ctlVars, ghosts
  <2> QED
    BY <1>a, <2>1 DEF PoolUnused
<1>11. NoLostWakeup'
  <2>1. \A p \in Proc : ResumeQueued(p)' <=> ResumeQueued(p)
    BY <1>c, <1>2, <1>t DEF ResumeQueued
  <2>2. \A p \in Proc : ResumeDue(p)' <=> ResumeDue(p)
    BY <1>u DEF ResumeDue, ctlVars
  <2>3. \A p \in Proc : Listening(p) => Listening(p)'
    BY <1>u, <1>2, <1>c, <1>a, <1>t DEF Listening, procVars, ctlVars
  <2> QED
    BY <1>u, <1>i, <2>1, <2>2, <2>3 DEF NoLostWakeup, Suspended, procVars, ctlVars
<1> QED
  BY <1>3, <1>5, <1>6, <1>7, <1>8, <1>9, <1>10, <1>11 DEF IInv

-----------------------------------------------------------------------------
(* Steps that do not concern a condition.                                  *)

(* The step leaves c and its callbacks alone.                              *)
Steady(c) ==
  /\ cond'[c] = cond[c] /\ made'[c] = made[c]
  /\ \A e \in Addr : Calls(cbs'[e], c) = Calls(cbs[e], c)
  /\ Cardinality(Calls(rest', c)) = Cardinality(Calls(rest, c))
  /\ made[c] # NULL => /\ state'[c] = "pending" <=> state[c] = "pending"
                       /\ state'[c] # "fresh" /\ ~recyclable'[c] /\ Unpooled(c)'
                       /\ \A p \in Proc : done'[p] # c

(* Such a step leaves true what is known of c.                             *)
LEMMA SteadyIsSound ==
  ASSUME TypeOK, TypeOK', NEW c \in Addr, Sound(c), Steady(c)
  PROVE  Sound(c)'
<1>1. Calls(rest', c) = {} <=> Calls(rest, c) = {}
  BY CallsFinite DEF TypeOK, Steady
<1>2. Idle(c) => Idle(c)'
  BY <1>1 DEF Idle, Steady
<1>3. Awaited(c)' = Awaited(c)
  BY DEF Awaited, Steady
<1>4. made[c] # NULL /\ Subscribed(c) => Subscribed(c)'
  BY <1>3 DEF Subscribed, Places, Steady
<1>5. made[c] # NULL /\ DoneEarly(c) => DoneEarly(c)'
  BY <1>2 DEF DoneEarly, Steady
<1> QED
  BY <1>2, <1>4, <1>5 DEF Sound, Steady

(* An event that is allocated was never used, or is taken from the pool.   *)
LEMMA AllocTakes ==
  ASSUME IInv, NEW e \in Addr, _sim_event_alloc(e)
  PROVE  /\ state[e] = "fresh" \/ ~Unpooled(e)
         /\ Unpooled(e)' /\ \A c : Unpooled(c) => Unpooled(c)'
<1>1. CASE event_pool # <<>>
  <2>1. 1 \in DOMAIN event_pool /\ event_pool[1] = e
    BY <1>1 DEF _sim_event_alloc, IInv, TypeOK
  <2> QED
    BY <2>1, AllocEffect DEF Unpooled
<1>2. CASE event_pool = <<>>
  BY <1>2, AllocEffect DEF _sim_event_alloc, Unpooled
<1> QED
  BY <1>1, <1>2

(* An event given back is the first of the pool.                           *)
LEMMA PushElements ==
  ASSUME NEW S, NEW s \in Seq(S), NEW e \in S
  PROVE  LET t == <<e>> \o s
         IN  /\ t \in Seq(S)
             /\ \A i \in DOMAIN t : t[i] = e \/ \E j \in DOMAIN s : t[i] = s[j]
             /\ (\A i \in DOMAIN s : s[i] # e) /\ (\A i, j \in DOMAIN s : s[i] = s[j] => i = j)
                  => \A i, j \in DOMAIN t : t[i] = t[j] => i = j
<1> DEFINE t == <<e>> \o s
<1>1. /\ t \in Seq(S) /\ Len(s) \in Nat /\ DOMAIN s = 1..Len(s)
      /\ DOMAIN t = 1..(Len(s) + 1) /\ t[1] = e
      /\ \A i \in 2..(Len(s) + 1) : t[i] = s[i - 1]
  OBVIOUS
<1> HIDE DEF t
<1>2. \A i \in DOMAIN t : i = 1 \/ (i - 1 \in DOMAIN s /\ t[i] = s[i - 1] /\ i \in Int)
  BY <1>1
<1> QED
  BY <1>1, <1>2 DEF t

(* So it is no condition.                                                  *)
LEMMA AllocatedIsNoCondition ==
  ASSUME IInv, CondOK, NEW e \in Addr, _sim_event_alloc(e)
  PROVE  made[e] = NULL
BY AllocTakes DEF CondOK, Sound

(* An allocation leaves every condition alone.                             *)
LEMMA AllocatedSteady ==
  ASSUME IInv, CondOK, NEW e \in Addr, NEW s \in {"pending", "triggered"},
         NEW r \in BOOLEAN, Allocated(e, s, r), UNCHANGED <<condVars, rest>>,
         done' = done \/ \E p \in Proc : done' = [done EXCEPT ![p] = e],
         NEW c \in Addr
  PROVE  Steady(c)
<1>1. made[e] = NULL /\ _sim_event_alloc(e)
  BY AllocatedIsNoCondition DEF Allocated
<1>2. /\ state' = [state EXCEPT ![e] = s] /\ cbs' = cbs
      /\ recyclable' = [recyclable EXCEPT ![e] = r]
  BY AllocatedEffect
<1>3. made[c] # NULL => /\ state'[c] = state[c] /\ recyclable'[c] = recyclable[c]
                        /\ c # e
  BY <1>1, <1>2 DEF IInv, TypeOK
<1>4. made[c] # NULL => /\ state[c] # "fresh" /\ ~recyclable[c] /\ Unpooled(c)'
                        /\ \A p \in Proc : done[p] # c
  BY <1>1, AllocTakes DEF CondOK, Sound
<1>5. made[c] # NULL => \A p \in Proc : done'[p] # c
  BY <1>3, <1>4 DEF IInv, TypeOK
<1> QED
  BY <1>2, <1>3, <1>4, <1>5 DEF Steady, condVars

(* So does a wake-up.                                                      *)
LEMMA ResumeSteady ==
  ASSUME IInv, CondOK, NEW p \in Proc, NEW v, schedule_resume(p, v),
         UNCHANGED <<condVars, recyclable, event_pool>>, NEW c \in Addr,
         Cardinality(Calls(rest', c)) = Cardinality(Calls(rest, c)),
         \A q \in Proc : done'[q] = done[q] \/ done'[q] = NULL
  PROVE  Steady(c)
<1>1. /\ state' = [state EXCEPT ![p] = "triggered"]
      /\ cbs' = [cbs EXCEPT ![p] = <<Resume(p)>>]
  BY ScheduleResumeEffect
<1>2. \A e \in Addr : cbs'[e] = cbs[e] /\ state'[e] = state[e]
  BY <1>1, AddressesDiffer DEF IInv, TypeOK
<1>3. c # NULL
  BY AddressesDiffer
<1> QED
  BY <1>2, <1>3 DEF Steady, CondOK, Sound, Unpooled, condVars

(* So does a step that changes no event and no callback of a condition.    *)
LEMMA IdleSteady ==
  ASSUME CondOK, UNCHANGED <<condVars, recyclable, done, event_pool>>, NEW c \in Addr,
         made[c] # NULL => state'[c] = state[c],
         \A e \in Addr : Calls(cbs'[e], c) = Calls(cbs[e], c),
         Cardinality(Calls(rest', c)) = Cardinality(Calls(rest, c))
  PROVE  Steady(c)
BY DEF Steady, CondOK, Sound, Unpooled, condVars

(* The operations of the program leave the conditions alone.               *)
LEMMA ProgramSteady ==
  ASSUME IInv, CondOK, Program, LeavesConditions, UNCHANGED condVars, NEW c \in Addr
  PROVE  Steady(c)
<1>t. /\ state \in [Ev -> {"fresh", "pending", "triggered", "processed"}]
      /\ cbs \in [Ev -> Seq(Callback)] /\ done \in [Proc -> Addr \cup {NULL}]
      /\ Addr \subseteq Ev /\ NULL \notin Addr
  BY AddressesDiffer DEF IInv, TypeOK, Ev
<1>r. UNCHANGED rest
  BY ProgramControl
<1>1. ASSUME NEW e \in Addr, sim_event(e) \/ \E d \in Delays : sim_timeout(e, d)
      PROVE  Steady(c)
  <2>1. \E s \in {"pending", "triggered"}, r \in BOOLEAN : Allocated(e, s, r)
    BY <1>1 DEF sim_event, sim_timeout
  <2>2. done' = done
    BY <1>1 DEF sim_event, sim_timeout, procVars
  <2> QED
    BY <1>r, <2>1, <2>2, AllocatedSteady
<1>2. ASSUME NEW e \in Addr, sim_event_succeed(e)
      PROVE  Steady(c)
  <2>1. /\ state' = [state EXCEPT ![e] = "triggered"]
        /\ UNCHANGED <<cbs, recyclable, done, event_pool>>
    BY <1>2 DEF sim_event_succeed, procVars
  <2>2. made[e] = NULL
    BY <1>2 DEF LeavesConditions
  <2> QED
    BY <1>r, <1>t, <2>1, <2>2, IdleSteady
<1>3. ASSUME NEW e \in Addr, sim_event_on(e)
      PROVE  Steady(c)
  <2>1. cbs' = [cbs EXCEPT ![e] = Append(@, User)] /\ UNCHANGED <<state, recyclable, done, event_pool>>
    BY <1>3 DEF sim_event_on, procVars
  <2>2. User # Cond(c)
    BY DEF User, Cond
  <2>3. ASSUME NEW x \in Addr PROVE Calls(cbs'[x], c) = Calls(cbs[x], c)
    <3>1. CASE x = e
      <4>1. cbs'[x] = Append(cbs[x], User) /\ cbs[x] \in Seq(Callback)
        BY <1>t, <2>1, <3>1
      <4> QED
        BY <2>2, <4>1, CallsAppend
    <3>2. CASE x # e
      BY <1>t, <2>1, <3>2
    <3> QED
      BY <3>1, <3>2
  <2> QED
    BY <1>r, <2>1, <2>3, IdleSteady
<1>4. ASSUME NEW p \in Proc, sim_process(p)
      PROVE  Steady(c)
  <2>1. /\ schedule_resume(p, NULL) /\ UNCHANGED <<recyclable, event_pool>>
        /\ \A q \in Proc : done'[q] = done[q] \/ done'[q] = NULL
    BY <1>4, <1>t DEF sim_process
  <2> QED
    BY <1>r, <2>1, ResumeSteady
<1>5. ASSUME NEW p \in Proc, NEW g \in 1..MaxGen, sim_process_interrupt(p, g)
      PROVE  Steady(c)
  <2>1. schedule_resume(p, NULL) /\ UNCHANGED <<recyclable, done, event_pool>>
    BY <1>5 DEF sim_process_interrupt
  <2> QED
    BY <1>r, <2>1, ResumeSteady
<1>6. ASSUME NEW p \in Proc, NEW g \in 1..MaxGen, sim_process_event(p, g)
      PROVE  Steady(c)
  <2>1. CASE done[p] # NULL
    <3>1. UNCHANGED <<state, cbs, recyclable, done, event_pool>>
      BY <1>6, <2>1 DEF sim_process_event, evVars
    <3> QED
      BY <1>r, <3>1, IdleSteady
  <2>2. CASE done[p] = NULL
    <3>1. PICK e \in Addr :
            /\ Allocated(e, IF HasEnded(p) THEN "triggered" ELSE "pending", FALSE)
            /\ done' = [done EXCEPT ![p] = e]
      BY <1>6, <2>2 DEF sim_process_event
    <3> QED
      BY <1>r, <3>1, AllocatedSteady
  <2> QED
    BY <2>1, <2>2
<1>7. ASSUME NEW m \in RtModes, sim_env_set_realtime(m)
      PROVE  Steady(c)
  BY <1>7, <1>r, IdleSteady DEF sim_env_set_realtime, evVars, procVars
<1> QED
  BY <1>1, <1>2, <1>3, <1>4, <1>5, <1>6, <1>7 DEF Program

(* So do the bodies of the processes: one that waits for a condition adds  *)
(* a callback of its own, and the event of its end is no condition.        *)
LEMMA BodySteady ==
  ASSUME IInv, CondOK, Body, UNCHANGED condVars, NEW c \in Addr
  PROVE  Steady(c)
<1>t. /\ state \in [Ev -> {"fresh", "pending", "triggered", "processed"}]
      /\ cbs \in [Ev -> Seq(Callback)] /\ done \in [Proc -> Addr \cup {NULL}]
      /\ Addr \subseteq Ev /\ NULL \notin Addr
  BY AddressesDiffer DEF IInv, TypeOK, Ev
<1>1. ASSUME NEW p \in Proc, NEW e \in Addr, sim_yield(p, e)
      PROVE  Steady(c)
  <2>1. UNCHANGED <<rest, recyclable, done, event_pool>>
    BY <1>1 DEF sim_yield
  <2>2. CASE state[e] = "processed"
    <3>1. schedule_resume(p, e)
      BY <1>1, <2>2 DEF sim_yield
    <3> QED
      BY <2>1, <3>1, ResumeSteady
  <2>3. CASE state[e] # "processed"
    <3>1. cbs' = [cbs EXCEPT ![e] = Append(@, Waiter(p))] /\ UNCHANGED state
      BY <1>1, <2>3 DEF sim_yield
    <3>2. Waiter(p) # Cond(c)
      BY DEF Waiter, Cond
    <3>3. ASSUME NEW x \in Addr PROVE Calls(cbs'[x], c) = Calls(cbs[x], c)
      <4>1. CASE x = e
        <5>1. cbs'[x] = Append(cbs[x], Waiter(p)) /\ cbs[x] \in Seq(Callback)
          BY <1>t, <3>1, <4>1
        <5> QED
          BY <3>2, <5>1, CallsAppend
      <4>2. CASE x # e
        BY <1>t, <3>1, <4>2
      <4> QED
        BY <4>1, <4>2
    <3> QED
      BY <2>1, <3>1, <3>3, IdleSteady
  <2> QED
    BY <2>2, <2>3
<1>2. ASSUME NEW p \in Proc, process_entry_end(p)
      PROVE  Steady(c)
  <2>1. UNCHANGED <<rest, cbs, recyclable, done, event_pool>>
    BY <1>2 DEF process_entry_end
  <2>2. state' = state \/ (done[p] \in Addr /\ state' = [state EXCEPT ![done[p]] = "triggered"])
    BY <1>2, <1>t DEF process_entry_end
  <2>3. made[c] # NULL => done[p] # c
    BY DEF CondOK, Sound
  <2> QED
    BY <1>t, <2>1, <2>2, <2>3, IdleSteady
<1> QED
  BY <1>1, <1>2 DEF Body

(* So does the library except where an event is taken from the queue, and  *)
(* except for cond_cb.                                                     *)
LEMMA LibrarySteady ==
  ASSUME IInv, CondOK, UNCHANGED condVars,
         \/ StartSomeRun \/ user_cb_return \/ FinishRun \/ LagAbort \/ waiter_cb
         \/ user_cb \/ EndDispatch \/ resume_cb_dead \/ resume_cb_start \/ resume_cb_return,
         NEW c \in Addr
  PROVE  Steady(c)
<1>1. CASE StartSomeRun \/ user_cb_return \/ FinishRun \/ LagAbort
  <2>1. UNCHANGED <<rest, cbs, state, recyclable, done, event_pool>>
    BY <1>1 DEF StartSomeRun, StartRun, user_cb_return, FinishRun, LagAbort, Return,
                evVars, procVars
  <2> QED
    BY <2>1, IdleSteady
<1>3. CASE EndDispatch
  <2>1. UNCHANGED <<rest, cbs, state, recyclable, done>>
    BY <1>3 DEF EndDispatch, procVars
  <2>2. ASSUME made[c] # NULL PROVE Unpooled(c)'
    <3>1. Unpooled(c) /\ ~recyclable[c]
      BY <2>2 DEF CondOK, Sound
    <3>2. event_pool \in Seq(Addr) /\ (recyclable[current] => current \in Addr)
      BY <1>3 DEF IInv, TypeOK, ControlOK, EndDispatch, Ev
    <3>3. CASE recyclable[current]
      <4>1. event_pool' = <<current>> \o event_pool
        BY <1>3, <3>3 DEF EndDispatch, MayRecycle
      <4>2. \A i \in DOMAIN event_pool' :
              event_pool'[i] = current \/ \E j \in DOMAIN event_pool : event_pool'[i] = event_pool[j]
        BY <3>2, <3>3, <4>1, PushElements
      <4> QED
        BY <3>1, <3>3, <4>2 DEF Unpooled
    <3>4. CASE ~recyclable[current]
      BY <1>3, <3>1, <3>4 DEF EndDispatch, MayRecycle, Unpooled
    <3> QED
      BY <3>3, <3>4
  <2> QED
    BY <2>1, <2>2 DEF Steady, CondOK, Sound, condVars
<1>2. CASE waiter_cb \/ user_cb \/ resume_cb_dead \/ resume_cb_start \/ resume_cb_return
  <2>1. /\ rest \in Seq(Callback) /\ rest # <<>> /\ rest' = Tail(rest)
        /\ Head(rest).fn # "cond"
    BY <1>2 DEF waiter_cb, user_cb, resume_cb_dead, resume_cb_start, resume_cb_return,
                NextCallback, IInv, TypeOK
  <2>2. Cardinality(Calls(rest', c)) = Cardinality(Calls(rest, c))
    <3>1. Head(rest) # Cond(c)
      BY <2>1 DEF Cond
    <3> QED
      BY <2>1, <3>1, CallsTail
  <2>3. CASE waiter_cb
    <3>1. UNCHANGED <<recyclable, done, event_pool>>
      BY <2>3 DEF waiter_cb
    <3>2. \/ UNCHANGED <<state, cbs>>
          \/ Head(rest).user \in Proc /\ schedule_resume(Head(rest).user, current)
      BY <2>3, NextCallbackType DEF waiter_cb, IInv
    <3> QED
      BY <2>2, <3>1, <3>2, IdleSteady, ResumeSteady
  <2>4. CASE user_cb \/ resume_cb_dead \/ resume_cb_start \/ resume_cb_return
    <3>1. UNCHANGED <<cbs, state, recyclable, done, event_pool>>
      BY <2>4 DEF user_cb, resume_cb_dead, resume_cb_start, resume_cb_return, evVars,
                  procVars
    <3> QED
      BY <2>2, <3>1, IdleSteady
  <2> QED
    BY <1>2, <2>3, <2>4
<1> QED
  BY <1>1, <1>2, <1>3

-----------------------------------------------------------------------------
(* The steps that concern conditions.                                      *)

(* What CondTypeOK says of one condition.                                  *)
LEMMA MadeTypes ==
  ASSUME CondTypeOK, NEW c \in Addr, made[c] # NULL
  PROVE  /\ made[c].any \in BOOLEAN /\ made[c].n \in 0..MaxInputs /\ made[c].n \in Nat
         /\ DOMAIN made[c].left \subseteq 1..made[c].n
         /\ \A i \in DOMAIN made[c].left : made[c].left[i] \in Addr
         /\ IsFiniteSet(DOMAIN made[c].left)
         /\ Cardinality(DOMAIN made[c].left) \in Nat
         /\ Cardinality(DOMAIN made[c].left) = 0 <=> DOMAIN made[c].left = {}
         /\ Cardinality(DOMAIN made[c].left) = made[c].n
              <=> DOMAIN made[c].left = 1..made[c].n
         /\ \A e : /\ Places(c, e) \subseteq DOMAIN made[c].left
                   /\ IsFiniteSet(Places(c, e)) /\ Cardinality(Places(c, e)) \in Nat
                   /\ Cardinality(Places(c, e)) = 0 <=> Places(c, e) = {}
<1> DEFINE D == DOMAIN made[c].left
<1>1. /\ made[c] \in [any : BOOLEAN, n : 0..MaxInputs, left : Unprocessed]
      /\ D \subseteq 1..made[c].n
  BY DEF CondTypeOK, Condition
<1>2. made[c].n \in Nat
  BY <1>1, InputsAreBounded
<1>3. \A i \in D : made[c].left[i] \in Addr
  <2>1. PICK I \in SUBSET (1..MaxInputs) : made[c].left \in [I -> Addr]
    BY <1>1 DEF Unprocessed
  <2> QED
    BY <2>1
<1>4. \A e : Places(c, e) \subseteq D
  BY DEF Places
<1>5. made[c].any \in BOOLEAN /\ made[c].n \in 0..MaxInputs
  BY <1>1
<1> HIDE DEF D
<1>6. IsFiniteSet(1..made[c].n) /\ Cardinality(1..made[c].n) = made[c].n
  <2>1. \A n \in Nat : IsFiniteSet(1..n) /\ Cardinality(1..n) = n
    BY FS_Interval
  <2> QED
    BY <1>2, <2>1
<1>7. IsFiniteSet(D) /\ (Cardinality(D) = made[c].n <=> D = 1..made[c].n)
  BY <1>1, <1>6, FS_Subset
<1>8. Cardinality(D) \in Nat /\ (Cardinality(D) = 0 <=> D = {})
  BY <1>7, FS_CardinalityType, FS_EmptySet
<1>9. \A e : /\ IsFiniteSet(Places(c, e)) /\ Cardinality(Places(c, e)) \in Nat
             /\ Cardinality(Places(c, e)) = 0 <=> Places(c, e) = {}
  BY <1>4, <1>7, FS_Subset, FS_CardinalityType, FS_EmptySet
<1> QED
  BY <1>1, <1>2, <1>3, <1>4, <1>5, <1>7, <1>8, <1>9 DEF D

(* What the history notes of a condition when e is processed.              *)
LEMMA NotedEffect ==
  ASSUME CondTypeOK, NEW e, NEW c \in Addr, made[c] # NULL
  PROVE  LET m == Noted(e)[c]
             Others == {i \in DOMAIN made[c].left : made[c].left[i] # e}
         IN  /\ m.any = made[c].any /\ m.n = made[c].n
             /\ DOMAIN m.left = Others
             /\ \A i \in Others : m.left[i] = made[c].left[i]
             /\ m \in Condition /\ m # NULL
<1> DEFINE Others == {i \in DOMAIN made[c].left : made[c].left[i] # e}
           m == Noted(e)[c]
<1>1. made[c] \in Condition
  BY DEF CondTypeOK
<1>2. m = [made[c] EXCEPT !.left = Restrict(@, Others)]
  BY DEF Noted
<1>3. Restrict(made[c].left, Others) \in Unprocessed
  <2>1. Others \in SUBSET (1..MaxInputs)
    BY MadeTypes, InputsAreBounded
  <2>2. Restrict(made[c].left, Others) \in [Others -> Addr]
    BY MadeTypes DEF Restrict
  <2> QED
    BY <2>1, <2>2 DEF Unprocessed
<1>4. /\ m.any = made[c].any /\ m.n = made[c].n
      /\ m.left = Restrict(made[c].left, Others) /\ m \in Condition
  BY <1>1, <1>2, <1>3 DEF Condition
<1>5. /\ DOMAIN m.left = Others
      /\ \A i \in Others : m.left[i] = made[c].left[i]
  BY <1>4 DEF Restrict
<1> QED
  BY <1>4, <1>5, NullIsNoRecord

(* sim_step: the inputs that are the event taken have been processed, and  *)
(* the callbacks it had for a condition, one for each of them, have still  *)
(* to be run.                                                              *)
LEMMA StepSound ==
  ASSUME IInv, CondTypeOK, CondOK, sim_step, made' = Noted(current'), cond' = cond
  PROVE  CondTypeOK' /\ CondOK'
<1>1. PICK e \in Ev :
        /\ ctx = "loop" /\ current' = e /\ rest' = cbs[e] /\ state[e] = "triggered"
        /\ state' = [state EXCEPT ![e] = "processed"]
        /\ cbs' = [cbs EXCEPT ![e] = <<>>]
  BY StepTakes
<1>t. /\ state \in [Ev -> {"fresh", "pending", "triggered", "processed"}]
      /\ cbs \in [Ev -> Seq(Callback)] /\ Addr \subseteq Ev /\ rest = <<>>
      /\ UNCHANGED <<recyclable, done, event_pool>>
  BY <1>1 DEF IInv, TypeOK, ControlOK, Ev, sim_step, procVars
<1> DEFINE Others(c) == {i \in DOMAIN made[c].left : made[c].left[i] # e}
<1>2. \A c \in Addr : /\ made'[c] = Noted(e)[c]
                      /\ made[c] = NULL => made'[c] = NULL
  BY <1>1 DEF Noted
<1>3. ASSUME NEW c \in Addr, made[c] # NULL
      PROVE  /\ made'[c].any = made[c].any /\ made'[c].n = made[c].n
             /\ DOMAIN made'[c].left = Others(c)
             /\ \A i \in Others(c) : made'[c].left[i] = made[c].left[i]
             /\ made'[c] \in Condition
             /\ made'[c] # NULL
  BY <1>2, <1>3, NotedEffect
<1>4. CondTypeOK'
  <2>1. DOMAIN made' = Addr /\ made' = [c \in Addr |-> made'[c]]
    BY DEF Noted
  <2>2. \A c \in Addr : made'[c] \in Condition \cup {NULL}
    BY <1>2, <1>3
  <2>3. \A c \in Addr : made'[c] # NULL => DOMAIN made'[c].left \subseteq 1..made'[c].n
    BY <1>2, <1>3, MadeTypes
  <2>4. made' \in [Addr -> Condition \cup {NULL}]
    BY <2>1, <2>2
  <2> QED
    BY <2>3, <2>4 DEF CondTypeOK
<1>5. ASSUME NEW c \in Addr
      PROVE  /\ \A x \in Addr : x # e => Calls(cbs'[x], c) = Calls(cbs[x], c)
             /\ e \in Addr => Calls(cbs'[e], c) = {}
             /\ Calls(rest, c) = {} /\ Calls(rest', c) = Calls(cbs[e], c)
  BY <1>1, <1>t DEF Calls
<1>6. ASSUME NEW c \in Addr, e \in Proc PROVE Calls(cbs[e], c) = {}
  <2>1. cbs[e] = <<Resume(e)>>
    BY <1>1, <1>6 DEF IInv, CallbacksOK
  <2>2. Resume(e) # Cond(c)
    BY DEF Resume, Cond
  <2> QED
    BY <2>1, <2>2 DEF Calls
<1>7. ASSUME NEW c \in Addr, Idle(c) PROVE Idle(c)'
  BY <1>5, <1>6, <1>7, <1>t, AddressesDiffer DEF Idle, Ev
<1>8. \A c \in Addr :
        \/ state'[c] # "fresh" /\ (state'[c] = "pending" <=> state[c] = "pending")
        \/ state'[c] = state[c]
  BY <1>1, <1>t
<1>9. ASSUME NEW c \in Addr, made[c] # NULL, Subscribed(c) PROVE Subscribed(c)'
  <2> DEFINE L == DOMAIN made[c].left
             P == Places(c, e)
  <2>0. \A x : Places(c, x)' = {i \in Others(c) : made[c].left[i] = x}
    BY <1>3, <1>9 DEF Places
  <2>1. \A x \in Addr : x # e => Places(c, x)' = Places(c, x)
    BY <2>0 DEF Places
  <2>2. Places(c, e)' = {}
    BY <2>0
  <2>3. Others(c) = L \ P /\ L \cap P = P
    BY DEF Places
  <2>4. Cardinality(Others(c)) = Cardinality(L) - Cardinality(P)
    <3>1. IsFiniteSet(L)
      BY <1>9, MadeTypes
    <3> QED
      BY <2>3, <3>1, FS_Difference
  <2>5. Cardinality(Calls(cbs[e], c)) = Cardinality(P)
    <3>1. CASE e \in Addr
      BY <1>9, <3>1 DEF Subscribed
    <3>2. CASE e \in Proc
      <4>1. Calls(cbs[e], c) = {}
        BY <1>6, <3>2
      <4>2. P = {}
        BY <1>9, <3>2, MadeTypes, AddressesDiffer DEF Places
      <4> QED
        BY <4>1, <4>2
    <3> QED
      BY <3>1, <3>2 DEF Ev
  <2>6. Awaited(c)' = Awaited(c)
    <3>1. /\ Awaited(c)' = Cardinality(Others(c)) + Cardinality(P)
          /\ Awaited(c) = Cardinality(L) + Cardinality({})
      BY <1>3, <1>5, <1>9, <2>5 DEF Awaited
    <3>2. Cardinality({}) = 0 /\ Cardinality(L) \in Nat /\ Cardinality(P) \in Nat
      BY <1>9, MadeTypes, FS_EmptySet
    <3> HIDE DEF L, P
    <3> QED
      BY <2>4, <3>1, <3>2
  <2>7. ASSUME NEW x \in Addr
        PROVE  Cardinality(Calls(cbs'[x], c)) = Cardinality(Places(c, x)')
    <3>1. CASE x = e
      BY <1>5, <2>2, <3>1
    <3>2. CASE x # e
      BY <1>5, <1>9, <2>1, <3>2 DEF Subscribed
    <3> QED
      BY <3>1, <3>2
  <2>8. state'[c] = "pending" <=> state[c] = "pending"
    BY <1>8
  <2> QED
    BY <1>3, <1>9, <2>6, <2>7, <2>8 DEF Subscribed
<1>10. ASSUME NEW c \in Addr, made[c] # NULL, DoneEarly(c) PROVE DoneEarly(c)'
  <2>1. DOMAIN made'[c].left # 1..made'[c].n
    BY <1>3, <1>10, MadeTypes DEF DoneEarly
  <2>2. Idle(c)'
    BY <1>7, <1>10 DEF DoneEarly
  <2> QED
    BY <1>3, <1>8, <1>10, <2>1, <2>2 DEF DoneEarly
<1>11. ASSUME NEW c \in Addr PROVE Sound(c)'
  <2>1. Sound(c)
    BY DEF CondOK
  <2>2. CASE made[c] = NULL
    BY <1>2, <1>7, <2>1, <2>2 DEF Sound
  <2>3. CASE made[c] # NULL
    <3>1. made'[c] # NULL /\ state'[c] # "fresh" /\ UNCHANGED <<recyclable, done, event_pool>>
      BY <1>3, <1>8, <1>t, <2>1, <2>3 DEF Sound
    <3> QED
      BY <1>9, <1>10, <2>1, <2>3, <3>1 DEF Sound, Unpooled
  <2> QED
    BY <2>2, <2>3
<1> QED
  BY <1>4, <1>11 DEF CondOK

(* cond_cb counts an input, triggers the condition when that is the one it *)
(* waits for, and frees the state with the last of them.                   *)
LEMMA CondCbSound ==
  ASSUME IInv, CondTypeOK, CondOK, cond_cb
  PROVE  CondTypeOK' /\ CondOK'
<1>1. PICK out \in Addr :
        /\ rest # <<>> /\ Head(rest) = Cond(out) /\ rest' = Tail(rest)
        /\ rest' \in Seq(Callback)
        /\ LET s == [cond[out] EXCEPT !.n_fired = @ + 1]
           IN  /\ cond' = [cond EXCEPT ![out] = Kept(s)]
               /\ IF Due(out, s)
                  THEN /\ state[out] = "pending"
                       /\ state' = [state EXCEPT ![out] = "triggered"]
                  ELSE UNCHANGED state
  BY CondCbEffect
<1>t. /\ state \in [Ev -> {"fresh", "pending", "triggered", "processed"}]
      /\ cbs \in [Ev -> Seq(Callback)] /\ Addr \subseteq Ev /\ rest \in Seq(Callback)
      /\ UNCHANGED <<recyclable, event_pool, done, cbs, made>> /\ TypeOK /\ TypeOK'
  BY CondCbIInv DEF IInv, TypeOK, Ev, cond_cb, procVars
<1> DEFINE m == made[out]
           r == Cardinality(Calls(rest, out))
           s == [cond[out] EXCEPT !.n_fired = @ + 1]
<1>2. /\ r \in Nat /\ r >= 1 /\ Calls(rest, out) # {}
      /\ Cardinality(Calls(rest', out)) = r - 1
  BY <1>1, <1>t, CallsTail, CallsFinite
<1>3. m # NULL /\ Subscribed(out)
  BY <1>2 DEF CondOK, Sound, Idle, DoneEarly
<1>4. /\ Awaited(out) \in Nat /\ Awaited(out) >= 1 /\ Awaited(out) <= m.n
      /\ Awaited(out)' = Awaited(out) - 1
      /\ m.n \in 0..MaxInputs /\ m.n \in Nat /\ m.any \in BOOLEAN
  BY <1>2, <1>3, <1>t, MadeTypes DEF Awaited, Subscribed
<1> DEFINE a == Awaited(out) - 1
<1>5. s = [any |-> m.any, n_total |-> m.n, n_fired |-> m.n - a]
  <2>1. cond[out] = [any |-> m.any, n_total |-> m.n, n_fired |-> m.n - Awaited(out)]
    BY <1>3, <1>4 DEF Subscribed
  <2>2. (m.n - Awaited(out)) + 1 = m.n - a
    BY <1>4
  <2> HIDE DEF m, a
  <2> QED
    BY <2>1, <2>2
<1>6. a \in Nat /\ a <= m.n /\ a = Awaited(out)' /\ m.n - a \in 0..MaxInputs
  BY <1>4, InputsAreBounded
<1>7. /\ Kept(s) = IF a = 0 THEN NULL ELSE s
      /\ Kept(s) \in cond_state_t \cup {NULL}
      /\ Kept(s) # NULL => Kept(s).n_fired < Kept(s).n_total
      /\ Done(s) <=> ~(m.n - a < IF m.any THEN 1 ELSE m.n)
  <2>1. s.any = m.any /\ s.n_total = m.n /\ s.n_fired = m.n - a /\ s \in cond_state_t
    BY <1>4, <1>5, <1>6 DEF cond_state_t
  <2> HIDE DEF s, a, m
  <2> QED
    BY <1>4, <1>6, <2>1 DEF Kept, Done
<1>8. cond' = [cond EXCEPT ![out] = Kept(s)]
      /\ (IF state[out] = "pending" /\ Done(s)
          THEN state' = [state EXCEPT ![out] = "triggered"] ELSE state' = state)
  BY <1>1 DEF Due
<1> HIDE DEF s
<1>9. cond \in [Addr -> cond_state_t \cup {NULL}]
  BY DEF CondTypeOK
<1>10. CondTypeOK'
  <2>1. cond' \in [Addr -> cond_state_t \cup {NULL}]
    BY <1>7, <1>8, <1>9
  <2>2. \A c \in Addr : cond'[c] = IF c = out THEN Kept(s) ELSE cond[c]
    BY <1>8, <1>9
  <2>3. \A c \in Addr :
          cond'[c] # NULL => cond'[c].n_fired < cond'[c].n_total \/ NeverFires(cond'[c])
    BY <1>7, <2>2 DEF CondTypeOK
  <2> QED
    BY <1>t, <2>1, <2>3 DEF CondTypeOK
<1>11. ASSUME NEW c \in Addr, c # out PROVE Sound(c)'
  <2>1. Head(rest) # Cond(c)
    BY <1>1, <1>11 DEF Cond
  <2>2. Cardinality(Calls(rest', c)) = Cardinality(Calls(rest, c))
    BY <1>1, <1>t, <2>1, CallsTail
  <2>3. cond'[c] = cond[c] /\ state'[c] = state[c]
    BY <1>8, <1>9, <1>11, <1>t
  <2>4. Steady(c)
    BY <1>t, <2>2, <2>3 DEF Steady, CondOK, Sound, Unpooled
  <2> QED
    BY <1>t, <2>4, SteadyIsSound DEF CondOK
<1>12. Sound(out)'
  <2>1. cond'[out] = IF a = 0 THEN NULL
                     ELSE [any |-> m.any, n_total |-> m.n, n_fired |-> m.n - a]
    BY <1>5, <1>7, <1>8, <1>9
  <2>2. state'[out] = "pending" <=> m.n - a < IF m.any THEN 1 ELSE m.n
    <3>1. state[out] = "pending" <=> m.n - Awaited(out) < IF m.any THEN 1 ELSE m.n
      BY <1>3 DEF Subscribed
    <3>2. m.n - a < (IF m.any THEN 1 ELSE m.n) => m.n - Awaited(out) < IF m.any THEN 1 ELSE m.n
      BY <1>4
    <3>3. state'[out] = IF state[out] = "pending" /\ Done(s) THEN "triggered" ELSE state[out]
      BY <1>8, <1>t
    <3> HIDE DEF a, m
    <3> QED
      BY <1>7, <3>1, <3>2, <3>3
  <2>3. \A e \in Addr : /\ Calls(cbs'[e], out) = Calls(cbs[e], out)
                        /\ Places(out, e)' = Places(out, e)
    BY <1>t DEF Places
  <2>4. Subscribed(out)'
    <3>1. m.n # 0
      BY <1>4
    <3> QED
      BY <1>3, <1>6, <1>t, <2>1, <2>2, <2>3, <3>1 DEF Subscribed
  <2>5. /\ state'[out] # "fresh" /\ ~recyclable'[out] /\ Unpooled(out)'
        /\ \A p \in Proc : done'[p] # out
    BY <1>3, <1>8, <1>t DEF CondOK, Sound, Unpooled
  <2> QED
    BY <1>3, <1>t, <2>4, <2>5 DEF Sound
<1> QED
  BY <1>10, <1>11, <1>12 DEF CondOK

(* make_cond: an event has a callback for every time it is listed, or none *)
(* if the condition is done already.                                       *)
LEMMA MakeSound ==
  ASSUME IInv, CondTypeOK, CondOK, NEW out \in Addr, NEW evs \in Inputs,
         NEW any \in BOOLEAN, make_cond(out, evs, any)
  PROVE  CondTypeOK' /\ CondOK'
<1> DEFINE s == Started(evs, any)
           k == IF Done(s) THEN Kept(s) ELSE s
           w == Cardinality(Waiting(evs))
           n == Len(evs)
<1>1. /\ _sim_event_alloc(out) /\ recyclable' = [recyclable EXCEPT ![out] = FALSE]
      /\ IF Done(s)
         THEN state' = [state EXCEPT ![out] = "triggered"] /\ cbs' = cbs
         ELSE /\ state' = [state EXCEPT ![out] = "pending"]
              /\ cbs' = Joined(evs, out)
      /\ cond' = [cond EXCEPT ![out] = k]
      /\ made' = [made EXCEPT ![out] = [any |-> any, n |-> n,
                                        left |-> Restrict(evs, Waiting(evs))]]
  BY MakeEffect
<1>t. /\ state \in [Ev -> {"fresh", "pending", "triggered", "processed"}]
      /\ cbs \in [Ev -> Seq(Callback)] /\ recyclable \in [Ev -> BOOLEAN]
      /\ cond \in [Addr -> cond_state_t \cup {NULL}]
      /\ made \in [Addr -> Condition \cup {NULL}]
      /\ Addr \subseteq Ev /\ UNCHANGED <<done, rest>> /\ TypeOK /\ TypeOK'
  BY MakeIInv DEF IInv, TypeOK, CondTypeOK, Ev, make_cond, procVars, ctlVars
<1>i. /\ n \in 0..MaxInputs /\ n \in Nat /\ w \in 0..n /\ w \in Nat
      /\ DOMAIN evs = 1..n /\ Waiting(evs) \subseteq 1..n
      /\ w = 0 <=> Waiting(evs) = {}
      /\ w = n <=> Waiting(evs) = 1..n
      /\ \A i \in DOMAIN evs : evs[i] \in Addr
  <2>0. n \in 0..MaxInputs
    BY InputsInUse
  <2>1. n \in 0..MaxInputs /\ n \in Nat
    <3> HIDE DEF n
    <3> QED
      BY <2>0, InputsAreBounded
  <2>2. w \in 0..n /\ (w = 0 <=> Waiting(evs) = {}) /\ (w = n <=> Waiting(evs) = 1..n)
    BY InputsInUse
  <2>3. w \in Nat
    BY <2>1, <2>2
  <2>4. DOMAIN evs = 1..n /\ Waiting(evs) \subseteq 1..n
    BY InputsInUse
  <2>5. \A i \in DOMAIN evs : evs[i] \in Addr
    BY InputsInUse
  <2> HIDE DEF w, n
  <2> QED
    BY <2>1, <2>2, <2>3, <2>4, <2>5
<1>s. /\ s \in cond_state_t /\ s.any = any /\ s.n_total = n /\ s.n_fired = n - w
      /\ s = [any |-> any, n_total |-> n, n_fired |-> n - w] /\ s # NULL
  BY <1>i, InputsAreBounded, NullIsNoRecord DEF Started, cond_state_t
<1>3. /\ Done(s) <=> ~(n - w < IF any THEN 1 ELSE n)
      /\ k = IF w = 0 /\ ~(any /\ n = 0) THEN NULL ELSE s
  <2> HIDE DEF s, w, n
  <2>1. Done(s) <=> ~(n - w < IF any THEN 1 ELSE n)
    BY <1>i, <1>s DEF Done
  <2>2. Kept(s) = IF n - w >= n THEN NULL ELSE s
    BY <1>s DEF Kept
  <2>3. w = 0 /\ ~(any /\ n = 0) => Done(s) /\ n - w >= n
    BY <1>i, <2>1
  <2>4. any /\ n = 0 => ~Done(s)
    BY <1>i, <2>1
  <2>5. w # 0 => ~(n - w >= n)
    BY <1>i
  <2> QED
    BY <2>1, <2>2, <2>3, <2>4, <2>5
<1> HIDE DEF s, k, w, n
<1>2. made[out] = NULL /\ cond[out] = NULL /\ Idle(out)
  BY <1>1, AllocatedIsNoCondition DEF CondOK, Sound
<1>4. /\ made'[out].any = any /\ made'[out].n = n /\ DOMAIN made'[out].left = Waiting(evs)
      /\ \A i \in Waiting(evs) : made'[out].left[i] = evs[i]
      /\ made'[out] \in Condition /\ made'[out] # NULL
  <2>1. made'[out] = [any |-> any, n |-> n, left |-> Restrict(evs, Waiting(evs))]
    BY <1>1, <1>t
  <2>2. /\ Restrict(evs, Waiting(evs)) \in [Waiting(evs) -> Addr]
        /\ DOMAIN Restrict(evs, Waiting(evs)) = Waiting(evs)
        /\ \A i \in Waiting(evs) : Restrict(evs, Waiting(evs))[i] = evs[i]
    BY <1>i DEF Restrict
  <2>3. Waiting(evs) \in SUBSET (1..MaxInputs)
    BY <1>i, InputsAreBounded
  <2>4. Restrict(evs, Waiting(evs)) \in Unprocessed
    BY <2>2, <2>3 DEF Unprocessed
  <2>5. made'[out] \in Condition
    BY <1>i, <2>1, <2>4 DEF Condition
  <2>6. made'[out].any = any /\ made'[out].n = n
        /\ made'[out].left = Restrict(evs, Waiting(evs))
    BY <2>1
  <2> QED
    BY <2>2, <2>5, <2>6, NullIsNoRecord
<1>5. \A e : Places(out, e)' = WaitingFor(evs, e)
  BY <1>4 DEF Places, WaitingFor
<1>6. CondTypeOK'
  <2>1. cond' \in [Addr -> cond_state_t \cup {NULL}]
    BY <1>1, <1>3, <1>s, <1>t
  <2>2. made' \in [Addr -> Condition \cup {NULL}]
    <3>1. \A c \in Addr : c # out => made'[c] = made[c]
      BY <1>1, <1>t
    <3>2. DOMAIN made' = Addr /\ made' = [c \in Addr |-> made'[c]]
      BY <1>1, <1>t
    <3> QED
      BY <1>4, <1>t, <3>1, <3>2
  <2>3. \A c \in Addr : made'[c] # NULL => DOMAIN made'[c].left \subseteq 1..made'[c].n
    <3>1. \A c \in Addr : c # out => made'[c] = made[c]
      BY <1>1, <1>t
    <3> QED
      BY <1>4, <1>i, <3>1 DEF CondTypeOK
  <2>4. \A c \in Addr :
          cond'[c] # NULL => cond'[c].n_fired < cond'[c].n_total \/ NeverFires(cond'[c])
    <3>1. \A c \in Addr : cond'[c] = IF c = out THEN k ELSE cond[c]
      BY <1>1, <1>t
    <3>2. k # NULL => k.n_fired < k.n_total \/ NeverFires(k)
      <4>1. w # 0 => n - w < n
        BY <1>i
      <4> QED
        BY <1>3, <1>s, <4>1 DEF NeverFires
    <3> QED
      BY <3>1, <3>2 DEF CondTypeOK
  <2> QED
    BY <2>1, <2>2, <2>3, <2>4 DEF CondTypeOK
<1>7. \A e \in Addr : WaitingFor(evs, e) \subseteq Waiting(evs)
                      /\ Cardinality(WaitingFor(evs, e)) \in Nat
  <2>1. IsFiniteSet(Waiting(evs))
    BY InputsInUse
  <2>2. \A e : WaitingFor(evs, e) \subseteq Waiting(evs)
    BY DEF WaitingFor
  <2> QED
    BY <2>1, <2>2, FS_Subset, FS_CardinalityType
<1>8. ASSUME NEW c \in Addr, c # out PROVE Sound(c)'
  <2>1. /\ cond'[c] = cond[c] /\ made'[c] = made[c] /\ state'[c] = state[c]
        /\ recyclable'[c] = recyclable[c]
    BY <1>1, <1>8, <1>t
  <2>2. ASSUME NEW e \in Addr PROVE Calls(cbs'[e], c) = Calls(cbs[e], c)
    <3>1. CASE cbs' = cbs
      BY <3>1
    <3>2. CASE cbs' = Joined(evs, out)
      <4>1. cbs'[e] = More(cbs[e], out, Cardinality(WaitingFor(evs, e)))
        BY <1>t, <3>2 DEF Joined
      <4>2. cbs[e] \in Seq(Callback) /\ Cardinality(WaitingFor(evs, e)) \in Nat
        BY <1>t, <1>7
      <4> QED
        BY <1>8, <4>1, <4>2, CallsConcat
    <3> QED
      BY <1>1, <3>1, <3>2
  <2>3. Steady(c)
    BY <1>1, <1>t, <2>1, <2>2, AllocTakes DEF Steady, CondOK, Sound
  <2> QED
    BY <1>t, <2>3, SteadyIsSound DEF CondOK
<1>9. Sound(out)'
  <2>1. /\ state'[out] = IF Done(s) THEN "triggered" ELSE "pending"
        /\ ~recyclable'[out] /\ cond'[out] = k /\ Unpooled(out)'
        /\ \A p \in Proc : done'[p] # out
    BY <1>1, <1>t, AllocEffect, AllocTakes
  <2>2. Awaited(out)' = w
    <3>1. Calls(rest', out) = {}
      BY <1>2, <1>t DEF Idle
    <3>2. Awaited(out)' = Cardinality(Waiting(evs)) + Cardinality({})
      BY <1>4, <3>1 DEF Awaited
    <3> QED
      BY <1>i, <3>2, FS_EmptySet DEF w
  <2>3. CASE \A e \in Addr : Cardinality(Calls(cbs'[e], out))
                               = Cardinality(WaitingFor(evs, e))
    <3>1. w <= n
      BY <1>i
    <3>2. state'[out] = "pending" <=> n - w < IF any THEN 1 ELSE n
      BY <1>3, <2>1
    <3>3. cond'[out] = IF w = 0 /\ ~(any /\ n = 0) THEN NULL
                       ELSE [any |-> any, n_total |-> n, n_fired |-> n - w]
      BY <1>3, <1>s, <2>1
    <3>4. Subscribed(out)'
      BY <1>4, <1>5, <2>2, <2>3, <3>1, <3>2, <3>3 DEF Subscribed
    <3> QED
      BY <1>4, <2>1, <3>4 DEF Sound
  <2>4. CASE ~Done(s)
    <3>1. ASSUME NEW e \in Addr
          PROVE  Cardinality(Calls(cbs'[e], out)) = Cardinality(WaitingFor(evs, e))
      <4>1. cbs'[e] = More(cbs[e], out, Cardinality(WaitingFor(evs, e)))
        BY <1>1, <1>t, <2>4 DEF Joined
      <4>2. /\ cbs[e] \in Seq(Callback) /\ Cardinality(WaitingFor(evs, e)) \in Nat
            /\ Calls(cbs[e], out) = {}
        BY <1>2, <1>t, <1>7 DEF Idle
      <4> QED
        BY <4>1, <4>2, CallsConcat
    <3> QED
      BY <2>3, <3>1
  <2>5. CASE Done(s) /\ w = 0
    <3>1. \A e \in Addr : Calls(cbs'[e], out) = {} /\ WaitingFor(evs, e) = {}
      BY <1>1, <1>2, <1>7, <1>i, <2>5 DEF Idle
    <3> QED
      BY <2>3, <3>1
  <2>6. CASE Done(s) /\ w # 0
    <3>1. any /\ n - w >= 1
      BY <1>3, <1>i, <2>6
    <3>2. Idle(out)'
      BY <1>1, <1>2, <1>t, <2>6 DEF Idle
    <3>3. DOMAIN made'[out].left # 1..made'[out].n
      BY <1>4, <1>i, <3>1
    <3>4. cond'[out] # NULL /\ cond'[out].any /\ cond'[out].n_fired >= 1
      BY <1>3, <1>s, <2>1, <2>6, <3>1
    <3>5. DoneEarly(out)'
      BY <1>4, <2>1, <2>6, <3>1, <3>2, <3>3, <3>4 DEF DoneEarly
    <3> QED
      BY <1>4, <2>1, <3>5 DEF Sound
  <2> QED
    BY <2>4, <2>5, <2>6
<1> QED
  BY <1>6, <1>8, <1>9 DEF CondOK

-----------------------------------------------------------------------------
(* The invariant.                                                          *)

(* A program that has made no condition yet.                               *)
LEMMA InitCond == Init /\ CondInit => CondInv
<1> SUFFICES ASSUME Init, CondInit PROVE CondInv
  OBVIOUS
<1>1. IInv
  BY InitIInv
<1>2. CondTypeOK
  BY DEF CondInit, CondTypeOK
<1>3. CondOK
  BY DEF Init, CondInit, CondOK, Sound, Idle, Calls, Ev
<1> QED
  BY <1>1, <1>2, <1>3 DEF CondInv

(* Every step of program, processes and library keeps the invariant.       *)
LEMMA NextCond == CondInv /\ [CondNext]_<<vars, condVars>> => CondInv'
<1> SUFFICES ASSUME CondInv, [CondNext]_<<vars, condVars>>
             PROVE  CondInv'
  OBVIOUS
<1>i. IInv /\ CondTypeOK /\ CondOK /\ TypeOK
  BY DEF CondInv, IInv
<1>k. ASSUME Next, UNCHANGED condVars, \A c \in Addr : Steady(c)
      PROVE  CondInv'
  <2>1. IInv' /\ TypeOK'
    BY <1>i, <1>k, NextIInv DEF IInv
  <2>2. CondTypeOK'
    BY <1>i, <1>k DEF CondTypeOK, condVars
  <2>3. \A c \in Addr : Sound(c)'
    BY <1>i, <1>k, <2>1, SteadyIsSound DEF CondOK
  <2> QED
    BY <2>1, <2>2, <2>3 DEF CondInv, CondOK
<1>1. CASE UNCHANGED <<vars, condVars>>
  <2>1. IInv'
    BY <1>1, <1>i, NextIInv
  <2>2. \A c \in Addr : Steady(c)
    BY <1>1, <1>i, IdleSteady
       DEF vars, evVars, procVars, ctlVars
  <2>3. CondTypeOK'
    BY <1>1, <1>i DEF CondTypeOK, condVars
  <2>4. \A c \in Addr : Sound(c)'
    BY <1>i, <2>1, <2>2, SteadyIsSound DEF CondOK, IInv
  <2> QED
    BY <2>1, <2>3, <2>4 DEF CondInv, CondOK
<1>2. CASE /\ Program \/ Body \/ StartSomeRun \/ user_cb_return
           /\ LeavesConditions /\ UNCHANGED condVars
  <2>1. \A c \in Addr : Steady(c)
    BY <1>2, <1>i, ProgramSteady, BodySteady, LibrarySteady
  <2> QED
    BY <1>2, <1>k, <2>1 DEF Next
<1>3. ASSUME NEW out \in Addr, NEW evs \in Inputs, NEW any \in BOOLEAN,
             make_cond(out, evs, any)
      PROVE  CondInv'
  BY <1>3, <1>i, MakeIInv, MakeSound DEF CondInv
<1>4. CASE sim_step /\ made' = Noted(current') /\ UNCHANGED cond
  <2>1. IInv'
    BY <1>4, <1>i, NextIInv DEF Next, Library
  <2> QED
    BY <1>4, <1>i, <2>1, StepSound DEF CondInv
<1>5. CASE cond_cb
  BY <1>5, <1>i, CondCbIInv, CondCbSound DEF CondInv
<1>6. CASE /\ \/ FinishRun \/ LagAbort \/ waiter_cb \/ user_cb \/ EndDispatch
              \/ resume_cb_dead \/ resume_cb_start \/ resume_cb_return
           /\ UNCHANGED condVars
  <2>1. \A c \in Addr : Steady(c)
    BY <1>6, <1>i, LibrarySteady
  <2> QED
    BY <1>6, <1>k, <2>1 DEF Next, Library
<1> QED
  BY <1>1, <1>2, <1>3, <1>4, <1>5, <1>6 DEF CondNext, Run

(* What the kernel promises and what conditions rest on hold in every      *)
(* state of any program that makes conditions.                             *)
THEOREM CondInductive == CondSpec => []CondInv
<1>1. Init /\ CondInit => CondInv
  BY InitCond
<1>2. CondInv /\ [CondNext]_<<vars, condVars>> => CondInv'
  BY NextCond
<1> QED
  BY <1>1, <1>2, PTL DEF CondSpec

(* The state of a condition is what make_cond and cond_cb make of it, and  *)
(* has inputs outstanding unless it is that of an AnyOf of none.           *)
THEOREM CondTyping == CondSpec => []CondTypeOK
<1>1. CondInv => CondTypeOK
  BY DEF CondInv
<1> QED
  BY <1>1, CondInductive, PTL

(* A condition is queued once, however many of its inputs are processed at *)
(* the same instant or were before it was made.                            *)
THEOREM CondQueueing == CondSpec => []QueuedOnce
<1>1. CondInv => QueuedOnce
  BY DEF CondInv, IInv
<1> QED
  BY <1>1, CondInductive, PTL

(* A process that waits for a condition, or for anything else beside one,  *)
(* is never forgotten.                                                     *)
THEOREM CondWakeups == CondSpec => []NoLostWakeup
<1>1. CondInv => NoLostWakeup
  BY DEF CondInv, IInv
<1> QED
  BY <1>1, CondInductive, PTL

-----------------------------------------------------------------------------
(* When a condition fires.                                                 *)

(* An entry added is the one scheduled (_sim_event_schedule).              *)
LEMMA ScheduleEntries ==
  ASSUME TypeOK, ResumeAtOnce, NEW e \in Ev, NEW d \in Nat, _sim_event_schedule(e, d)
  PROVE  \A i \in DOMAIN heap' : \/ heap'[i] = [time |-> now + d, ev |-> e]
                                 \/ \E j \in DOMAIN heap : heap'[i] = heap[j]
<1>1. heap \in Seq(Entry(Ev)) /\ now + d \in Nat
  BY DEF TypeOK
<1>2. InTimeOrder(heap) /\ heap' = Insert(heap, now + d, e)
  BY DEF ResumeAtOnce, _sim_event_schedule
<1> QED
  <2>1. ASSUME NEW s \in Seq(Entry(Ev)), NEW t \in Nat, InTimeOrder(s)
        PROVE  \A i \in DOMAIN Insert(s, t, e) :
                 \/ Insert(s, t, e)[i] = [time |-> t, ev |-> e]
                 \/ \E j \in DOMAIN s : Insert(s, t, e)[i] = s[j]
    BY <2>1, InsertOrdered
  <2> QED
    BY <1>1, <1>2, <2>1

(* Entries of the queue after a step that are neither of this instant nor  *)
(* of a timeout just made were there before.                               *)
OldOrNow ==
  \A i \in DOMAIN heap' : \/ \E j \in DOMAIN heap : heap'[i] = heap[j]
                          \/ heap'[i].time = now'
                          \/ \E d \in Delays : sim_timeout(heap'[i].ev, d)

(* schedule_resume adds an entry of this instant or none.                  *)
LEMMA ResumeEntries ==
  ASSUME TypeOK, ResumeAtOnce, NEW p \in Proc, NEW v, schedule_resume(p, v), now' = now
  PROVE  OldOrNow
<1>1. CASE UNCHANGED heap
  BY <1>1 DEF OldOrNow
<1>2. CASE _sim_event_schedule(p, 0)
  <2>1. p \in Ev /\ now + 0 = now
    BY DEF TypeOK, Ev
  <2> QED
    BY <1>2, <2>1, ScheduleEntries DEF OldOrNow
<1> QED
  BY <1>1, <1>2 DEF schedule_resume, ResumePending

(* Nothing but a timeout is ever scheduled for later.                      *)
LEMMA NextEntries ==
  ASSUME IInv, ResumeAtOnce, Next
  PROVE  OldOrNow
<1>t. TypeOK /\ now \in Nat /\ Addr \subseteq Ev /\ now + 0 = now
  BY DEF IInv, TypeOK, Ev
<1>u. ASSUME UNCHANGED heap PROVE OldOrNow
  BY <1>u DEF OldOrNow
<1>s. ASSUME NEW e \in Addr, _sim_event_schedule(e, 0), now' = now PROVE OldOrNow
  <2>1. e \in Ev
    BY <1>t
  <2> QED
    BY <1>s, <1>t, <2>1, ScheduleEntries DEF OldOrNow
<1>1. CASE Program
  <2>1. ASSUME NEW e \in Addr, NEW d \in Delays, sim_timeout(e, d) PROVE OldOrNow
    <3>1. e \in Ev /\ d \in Nat /\ _sim_event_schedule(e, d)
      BY <1>t, <2>1, BoundsAreNaturals DEF sim_timeout
    <3> QED
      BY <1>t, <2>1, <3>1, ScheduleEntries DEF OldOrNow
  <2>2. ASSUME NEW e \in Addr, sim_event(e) \/ sim_event_on(e) PROVE OldOrNow
    BY <1>u, <2>2 DEF sim_event, sim_event_on
  <2>3. ASSUME NEW e \in Addr, sim_event_succeed(e) PROVE OldOrNow
    BY <1>s, <2>3 DEF sim_event_succeed
  <2>4. ASSUME NEW p \in Proc, sim_process(p) PROVE OldOrNow
    BY <1>t, <2>4, ResumeEntries DEF sim_process
  <2>5. ASSUME NEW p \in Proc, NEW g \in 1..MaxGen, sim_process_interrupt(p, g)
        PROVE  OldOrNow
    BY <1>t, <2>5, ResumeEntries DEF sim_process_interrupt
  <2>6. ASSUME NEW p \in Proc, NEW g \in 1..MaxGen, sim_process_event(p, g)
        PROVE  OldOrNow
    BY <1>u, <1>s, <2>6 DEF sim_process_event
  <2>7. ASSUME NEW m \in RtModes, sim_env_set_realtime(m) PROVE OldOrNow
    BY <1>u, <2>7 DEF sim_env_set_realtime
  <2> QED
    BY <1>1, <2>1, <2>2, <2>3, <2>4, <2>5, <2>6, <2>7 DEF Program
<1>2. CASE Body
  <2>1. ASSUME NEW p \in Proc, NEW e \in Addr, sim_yield(p, e) PROVE OldOrNow
    BY <1>t, <1>u, <2>1, ResumeEntries DEF sim_yield
  <2>2. ASSUME NEW p \in Proc, process_entry_end(p) PROVE OldOrNow
    <3>1. UNCHANGED heap \/ (done[p] \in Addr /\ _sim_event_schedule(done[p], 0)
                              /\ now' = now)
      BY <1>t, <2>2 DEF process_entry_end, TypeOK
    <3> QED
      BY <1>u, <1>s, <3>1
  <2> QED
    BY <1>2, <2>1, <2>2 DEF Body
<1>3. CASE sim_step
  <2>1. heap \in Seq(Entry(Ev)) /\ heap # <<>> /\ heap' = Tail(heap)
    BY <1>3 DEF IInv, TypeOK, sim_step, MayStep
  <2>2. \A i \in DOMAIN heap' : i + 1 \in DOMAIN heap /\ heap'[i] = heap[i + 1]
    BY <2>1
  <2> QED
    BY <2>2 DEF OldOrNow
<1>4. CASE waiter_cb
  <2>1. now' = now /\ Head(rest).user \in Proc
    BY <1>4, <1>t, NextCallbackType DEF waiter_cb
  <2>2. UNCHANGED heap \/ schedule_resume(Head(rest).user, current)
    BY <1>4 DEF waiter_cb
  <2> QED
    BY <1>t, <1>u, <2>1, <2>2, ResumeEntries
<1>5. CASE \/ StartSomeRun \/ FinishRun \/ LagAbort \/ user_cb \/ user_cb_return
           \/ EndDispatch \/ resume_cb_dead \/ resume_cb_start \/ resume_cb_return
  BY <1>5, <1>u DEF StartSomeRun, StartRun, FinishRun, LagAbort, Return, user_cb,
                    user_cb_return, EndDispatch, resume_cb_dead, resume_cb_start,
                    resume_cb_return
<1> QED
  BY <1>1, <1>2, <1>3, <1>4, <1>5 DEF Next, Library

(* The conditions' part of ResumeAtOnce: what is queued for a condition is *)
(* of this instant.                                                        *)
Clocked == ResumeAtOnce /\ Timely

(* A step of the kernel keeps them so: time does not pass them.            *)
LEMMA KernelClocked ==
  ASSUME "strict" \in RtModes => "until" \notin RunModes,
         CondInv, Clocked, [Next]_vars,
         \A c \in Addr : made[c] = NULL <=> made'[c] = NULL
  PROVE  Clocked'
<1>1. IInv /\ ResumeAtOnce /\ CondOK
  BY DEF CondInv, Clocked
<1>2. ResumeAtOnce' /\ now' >= now /\ OldOrNow
  <2>1. ResumeAtOnce' /\ now' >= now
    BY <1>1, NextClock
  <2>2. OldOrNow
    BY <1>1, NextEntries DEF OldOrNow, vars
  <2> QED
    BY <2>1, <2>2
<1>3. now \in Nat /\ now' \in Nat
  BY <1>1, NextIInv DEF IInv, TypeOK
<1>4. ASSUME NEW i \in DOMAIN heap', heap'[i].ev \in Addr, made'[heap'[i].ev] # NULL
      PROVE  heap'[i].time = now'
  <2>1. CASE \E j \in DOMAIN heap : heap'[i] = heap[j]
    <3>1. heap'[i].time = now
      BY <1>4, <2>1 DEF Clocked, Timely
    <3>2. heap'[i].time >= now'
      BY <1>2 DEF ResumeAtOnce
    <3> QED
      BY <1>2, <1>3, <3>1, <3>2
  <2>2. ASSUME NEW d \in Delays, sim_timeout(heap'[i].ev, d) PROVE FALSE
    <3>1. _sim_event_alloc(heap'[i].ev)
      BY <2>2 DEF sim_timeout, Allocated
    <3> QED
      BY <1>1, <1>4, <3>1, AllocatedIsNoCondition
  <2> QED
    BY <1>2, <2>1, <2>2 DEF OldOrNow
<1> QED
  BY <1>2, <1>4 DEF Clocked, Timely

(* So do the two that may trigger one: they schedule it without delay.     *)
LEMMA TriggerClocked ==
  ASSUME IInv, Clocked, NEW out \in Addr, now' = now,
         UNCHANGED heap \/ _sim_event_schedule(out, 0),
         \A c \in Addr \ {out} : made[c] = NULL <=> made'[c] = NULL,
         made[out] = NULL => state[out] # "triggered"
  PROVE  Clocked'
<1>t. TypeOK /\ ResumeAtOnce /\ out \in Ev /\ out \notin Proc /\ now + 0 = now
  <2>1. TypeOK /\ ResumeAtOnce /\ out \in Ev /\ out \notin Proc
    BY AddressesDiffer DEF IInv, Clocked, Ev
  <2>2. now \in Nat
    BY <2>1 DEF TypeOK
  <2> QED
    BY <2>1, <2>2
<1>1. ResumeAtOnce'
  <2>1. CASE UNCHANGED heap
    BY <2>1, <1>t DEF ResumeAtOnce
  <2>2. CASE _sim_event_schedule(out, 0)
    BY <2>2, <1>t, ScheduleClock
  <2> QED
    BY <2>1, <2>2
<1>2. ASSUME NEW i \in DOMAIN heap'
      PROVE  heap'[i] = [time |-> now, ev |-> out] \/ \E j \in DOMAIN heap : heap'[i] = heap[j]
  BY <1>t, <1>2, ScheduleEntries
<1>3. made[out] = NULL => \A j \in DOMAIN heap : heap[j].ev # out
  BY <1>t DEF IInv, QueuedOnce, Queued
<1>4. ASSUME NEW i \in DOMAIN heap', heap'[i].ev \in Addr, made'[heap'[i].ev] # NULL
      PROVE  heap'[i].time = now'
  <2>1. CASE heap'[i] = [time |-> now, ev |-> out]
    BY <2>1
  <2>2. ASSUME NEW j \in DOMAIN heap, heap'[i] = heap[j] PROVE heap'[i].time = now
    BY <1>3, <1>4, <2>2 DEF Clocked, Timely
  <2> QED
    BY <1>2, <2>1, <2>2
<1> QED
  BY <1>1, <1>4 DEF Clocked, Timely

(* A callback triggers no event but that of a condition that was made.     *)
LEMMA CondCbTriggers ==
  ASSUME CondInv, cond_cb
  PROVE  /\ ctx = "dispatch" /\ current \in Addr
         /\ \E out \in Addr :
              /\ made[out] # NULL
              /\ \/ UNCHANGED <<state, heap>>
                 \/ /\ state[out] = "pending"
                    /\ state' = [state EXCEPT ![out] = "triggered"]
                    /\ _sim_event_schedule(out, 0)
<1>i. IInv /\ CondOK
  BY DEF CondInv
<1>1. PICK out \in Addr :
        /\ ctx = "dispatch" /\ current \in Addr
        /\ rest # <<>> /\ Head(rest) = Cond(out)
        /\ \/ UNCHANGED <<state, heap>>
           \/ /\ state[out] = "pending" /\ state' = [state EXCEPT ![out] = "triggered"]
              /\ _sim_event_schedule(out, 0)
  BY <1>i, CondCbEffect
<1>2. made[out] # NULL
  <2>1. rest \in Seq(Callback)
    BY <1>i DEF IInv, TypeOK
  <2>2. Cardinality(Calls(rest, out)) >= 1
    BY <1>1, <2>1, CallsTail
  <2>3. Calls(rest, out) # {}
    BY <2>1, <2>2, CallsFinite
  <2> QED
    BY <2>3, <1>i DEF CondOK, Sound, Idle
<1> QED
  BY <1>1, <1>2

(* Every step.                                                             *)
LEMMA NextClocked ==
  ASSUME "strict" \in RtModes => "until" \notin RunModes,
         CondInv, Clocked, [CondNext]_<<vars, condVars>>
  PROVE  Clocked'
<1>i. IInv /\ CondTypeOK /\ CondOK /\ state \in [Ev -> {"fresh", "pending", "triggered", "processed"}]
  BY DEF CondInv, IInv, TypeOK
<1>1. ASSUME [Next]_vars, UNCHANGED made PROVE Clocked'
  BY <1>1, KernelClocked
<1>2. ASSUME NEW out \in Addr, NEW evs \in Inputs, NEW any \in BOOLEAN,
             make_cond(out, evs, any)
      PROVE  Clocked'
  <2>1. _sim_event_alloc(out) /\ (UNCHANGED heap \/ _sim_event_schedule(out, 0))
    BY <1>2, <1>i, MakeEffect
  <2>2. made' = [made EXCEPT ![out] = [any |-> any, n |-> Len(evs),
                                       left |-> Restrict(evs, Waiting(evs))]]
    BY <1>2, <1>i, MakeEffect
  <2>3. \A c \in Addr \ {out} : made[c] = NULL <=> made'[c] = NULL
    BY <2>2, <1>i DEF CondTypeOK
  <2>4. now' = now /\ state[out] # "triggered"
    BY <1>2, <1>i, <2>1, AllocEffect DEF make_cond
  <2> QED
    BY <1>i, <2>1, <2>3, <2>4, TriggerClocked
<1>3. CASE cond_cb
  <2>1. PICK out \in Addr :
          /\ made[out] # NULL
          /\ UNCHANGED heap \/ _sim_event_schedule(out, 0)
    BY <1>3, CondCbTriggers
  <2>2. UNCHANGED <<now, made>>
    BY <1>3 DEF cond_cb
  <2> QED
    BY <1>i, <2>1, <2>2, TriggerClocked
<1>4. CASE sim_step /\ made' = Noted(current') /\ UNCHANGED cond
  <2>1. \A c \in Addr : made[c] = NULL <=> made'[c] = NULL
    <3>1. \A c \in Addr : made[c] # NULL => Noted(current')[c] # NULL
      BY <1>i, NotedEffect
    <3>2. \A c \in Addr : made[c] = NULL => Noted(current')[c] = NULL
      BY DEF Noted
    <3> QED
      BY <1>4, <3>1, <3>2
  <2> QED
    BY <1>4, <2>1, KernelClocked DEF Next, Library
<1> QED
  BY <1>1, <1>2, <1>3, <1>4 DEF CondNext, Run, Next, Library, condVars

(* With no input left to be counted, a condition stands as its inputs do.  *)
LEMMA SoundIsMet ==
  ASSUME CondInv, rest = <<>>, NEW c \in Addr, made[c] # NULL
  PROVE  state[c] # "pending" <=> Met(made[c])
<1>1. Sound(c) /\ CondTypeOK
  BY DEF CondInv, CondOK
<1> DEFINE m == made[c]
           l == Cardinality(DOMAIN m.left)
<1>2. /\ m.any \in BOOLEAN /\ m.n \in Nat /\ l \in Nat
      /\ l = 0 <=> DOMAIN m.left = {}
      /\ l = m.n <=> DOMAIN m.left = 1..m.n
  BY <1>1, MadeTypes
<1>3. Awaited(c) = l
  <2>1. Calls(rest, c) = {}
    BY <1>1 DEF Calls
  <2>2. Cardinality(Calls(rest, c)) = 0
    BY <2>1, FS_EmptySet
  <2> HIDE DEF l
  <2> QED
    BY <1>2, <2>2 DEF Awaited, l
<1>4. CASE Subscribed(c)
  <2>1. l <= m.n /\ (state[c] = "pending" <=> m.n - l < IF m.any THEN 1 ELSE m.n)
    BY <1>3, <1>4 DEF Subscribed
  <2> HIDE DEF m, l
  <2>2. state[c] # "pending" <=> IF m.any THEN l # m.n ELSE l = 0
    BY <1>2, <2>1
  <2> QED
    BY <1>2, <2>2 DEF Met, m
<1>5. CASE DoneEarly(c)
  BY <1>5 DEF DoneEarly, Met
<1> QED
  BY <1>1, <1>4, <1>5 DEF Sound

(* AllOf fires once all listed events are processed and AnyOf once at      *)
(* least one is, without letting time pass; under the condition that no    *)
(* run with an end time is aborted by strict real time.                    *)
THEOREM Firing ==
  ASSUME "strict" \in RtModes => "until" \notin RunModes
  PROVE  CondSpec => []FiresWhenMet
<1>1. Init /\ CondInit => Clocked
  BY DEF Init, CondInit, Clocked, ResumeAtOnce, InTimeOrder, Timely
<1>2. CondInv /\ Clocked /\ [CondNext]_<<vars, condVars>> => Clocked'
  BY NextClocked
<1>3. CondInv /\ Clocked => FiresWhenMet
  BY SoundIsMet DEF FiresWhenMet, Clocked, Timely, CondInv, IInv, ControlOK
<1> QED
  BY <1>1, <1>2, <1>3, CondInductive, PTL DEF CondSpec

-----------------------------------------------------------------------------
(* How long the state of a condition lives.                                *)

(* Counted event by event, the callbacks registered for a condition are as *)
(* many as the inputs it waits for.                                        *)
LEMMA SameNumber ==
  ASSUME CondTypeOK, TypeOK, NEW c \in Addr, made[c] # NULL, Subscribed(c)
  PROVE  Cardinality(Registered(c)) = Cardinality(DOMAIN made[c].left)
<1> DEFINE L == DOMAIN made[c].left
           in(i) == made[c].left[i]
           g(e) == CHOOSE b : b \in Bijection(Places(c, e), Calls(cbs[e], c))
           f == [i \in L |-> <<in(i), g(in(i))[i]>>]
<1>1. IsFiniteSet(L) /\ \A i \in L : in(i) \in Addr
  BY MadeTypes
<1>2. ASSUME NEW e \in Addr
      PROVE  g(e) \in Bijection(Places(c, e), Calls(cbs[e], c))
  <2>1. IsFiniteSet(Places(c, e)) /\ IsFiniteSet(Calls(cbs[e], c))
    <3>1. cbs[e] \in Seq(Callback)
      BY DEF TypeOK, Ev
    <3> QED
      BY <3>1, MadeTypes, CallsFinite
  <2>2. Cardinality(Places(c, e)) = Cardinality(Calls(cbs[e], c))
    BY DEF Subscribed
  <2>3. \E b : b \in Bijection(Places(c, e), Calls(cbs[e], c))
    BY <2>1, <2>2, FS_SameCardinalityBij DEF ExistsBijection
  <2> QED
    BY <2>3
<1>3. ASSUME NEW e \in Addr
      PROVE  /\ \A i \in Places(c, e) : g(e)[i] \in Calls(cbs[e], c)
             /\ \A i, j \in Places(c, e) : g(e)[i] = g(e)[j] => i = j
             /\ \A k \in Calls(cbs[e], c) : \E i \in Places(c, e) : g(e)[i] = k
  BY <1>2 DEF Bijection, Injection, IsInjective, Surjection
<1> HIDE DEF g
<1>4. /\ \A i \in L : i \in Places(c, in(i))
      /\ \A e : \A i \in Places(c, e) : i \in L /\ in(i) = e
  BY DEF Places
<1>5. \A x : x \in Registered(c) <=>
                \E e \in Addr : \E k \in Calls(cbs[e], c) : x = <<e, k>>
  BY DEF Registered, Calls
<1> HIDE DEF L, in
<1>6. f \in [L -> Registered(c)]
  BY <1>1, <1>3, <1>4, <1>5
<1>7. ASSUME NEW i \in L, NEW j \in L, f[i] = f[j] PROVE i = j
  <2>1. in(i) = in(j) /\ g(in(i))[i] = g(in(j))[j]
    BY <1>7
  <2> QED
    BY <1>1, <1>3, <1>4, <2>1
<1>8. ASSUME NEW x \in Registered(c) PROVE \E i \in L : f[i] = x
  <2>0. PICK e \in Addr : \E k \in Calls(cbs[e], c) : x = <<e, k>>
    BY <1>5
  <2>1. PICK k \in Calls(cbs[e], c) : x = <<e, k>>
    BY <2>0
  <2>2. PICK i \in Places(c, e) : g(e)[i] = k
    BY <1>3
  <2> QED
    BY <1>4, <2>1, <2>2
<1>9. f \in Bijection(L, Registered(c))
  <2> HIDE DEF f
  <2> QED
    BY <1>6, <1>7, <1>8 DEF Bijection, Injection, IsInjective, Surjection
<1> QED
  BY <1>1, <1>9, FS_Bijection DEF ExistsBijection, L

(* The state of a condition lives exactly as long as callbacks may use it, *)
(* save those of two kinds, which are never freed: of one that was done    *)
(* when it was made, with inputs outstanding, and of an AnyOf of no        *)
(* inputs, which is never done.                                            *)
THEOREM Lifetime == CondSpec => []StateLifetime
<1>1. CondInv => StateLifetime
  <2> SUFFICES ASSUME CondInv, NEW c \in Addr
               PROVE  IF cond[c] = NULL THEN Outstanding(c) = 0
                      ELSE \/ /\ Outstanding(c) = cond[c].n_total - cond[c].n_fired
                              /\ Outstanding(c) > 0 \/ NeverFires(cond[c])
                           \/ Outstanding(c) = 0 /\ cond[c].any /\ cond[c].n_fired >= 1
    BY DEF StateLifetime
  <2>1. CondTypeOK /\ TypeOK /\ Sound(c)
    BY DEF CondInv, CondOK, IInv
  <2>2. Outstanding(c) = Cardinality(Registered(c)) + Cardinality(Calls(rest, c))
    BY DEF Outstanding, InProgress, Calls
  <2>3. CASE made[c] = NULL \/ DoneEarly(c)
    <3>1. Registered(c) = {} /\ Calls(rest, c) = {}
      BY <2>1, <2>3 DEF Sound, DoneEarly, Idle, Registered, Calls
    <3>2. Outstanding(c) = 0
      BY <2>2, <3>1, FS_EmptySet
    <3>3. made[c] = NULL => cond[c] = NULL
      BY <2>1 DEF Sound
    <3> QED
      BY <2>3, <3>2, <3>3 DEF DoneEarly
  <2>4. CASE made[c] # NULL /\ Subscribed(c)
    <3>1. Outstanding(c) = Awaited(c)
      BY <2>1, <2>2, <2>4, SameNumber DEF Awaited
    <3> DEFINE n == made[c].n
               a == Awaited(c)
    <3>2. n \in Nat /\ a \in Nat /\ a <= n
      <4>1. Cardinality(Calls(rest, c)) \in Nat
        BY <2>1, CallsFinite DEF TypeOK
      <4> QED
        BY <2>1, <2>4, <4>1, MadeTypes DEF Awaited, Subscribed
    <3> DEFINE none == made[c].any /\ n = 0
    <3>3. cond[c] = IF a = 0 /\ ~none THEN NULL
                    ELSE [any |-> made[c].any, n_total |-> n, n_fired |-> n - a]
      BY <2>4 DEF Subscribed
    <3>4. none => NeverFires([any |-> made[c].any, n_total |-> n, n_fired |-> n - a])
      BY DEF NeverFires
    <3> HIDE DEF n, a, none
    <3>5. CASE a = 0 /\ ~none
      BY <3>1, <3>3, <3>5 DEF a
    <3>6. CASE a # 0 \/ none
      <4>1. cond[c].n_total = n /\ cond[c].n_fired = n - a
        BY <3>3, <3>6
      <4>3. a > 0 \/ NeverFires(cond[c])
        BY <3>2, <3>3, <3>4, <3>6
      <4>2. cond[c] # NULL
        <5>1. n \in 0..MaxInputs /\ n - a \in 0..MaxInputs /\ made[c].any \in BOOLEAN
          <6>1. n \in 0..MaxInputs /\ made[c].any \in BOOLEAN
            BY <2>1, <2>4, MadeTypes DEF n
          <6> QED
            BY <3>2, <6>1, InputsAreBounded
        <5>2. cond[c] \in cond_state_t
          BY <3>3, <3>6, <5>1 DEF cond_state_t
        <5> QED
          BY <5>2, NullIsNoRecord
      <4> QED
        BY <3>1, <3>2, <4>1, <4>2, <4>3 DEF a
    <3> QED
      BY <3>5, <3>6
  <2> QED
    BY <2>1, <2>3, <2>4 DEF Sound, DoneEarly
<1> QED
  BY <1>1, CondInductive, PTL

-----------------------------------------------------------------------------
(* The theorems of KernelProofs and KernelSafety beside conditions.        *)

(* A step is one of the kernel, or one of the two of the conditions.       *)
LEMMA CondSteps ==
  ASSUME [CondNext]_<<vars, condVars>>
  PROVE  \/ [Next]_vars
         \/ \E out \in Addr, evs \in Inputs, any \in BOOLEAN : make_cond(out, evs, any)
         \/ cond_cb
BY DEF CondNext, Run, Next, Library

(* Neither of them concerns a process or what is being dispatched.         *)
LEMMA MakeUntouched ==
  ASSUME IInv, NEW out \in Addr, NEW evs \in Inputs, NEW any \in BOOLEAN,
         make_cond(out, evs, any)
  PROVE  /\ InClient /\ UNCHANGED <<now, current, rest, ctx>>
         /\ \A q \in Proc : Untouched(q)
<1>i. /\ state \in [Ev -> {"fresh", "pending", "triggered", "processed"}]
      /\ Addr \subseteq Ev /\ Proc \subseteq Ev
  BY DEF IInv, TypeOK, Ev
<1>1. \A q \in Proc : state'[q] = state[q]
  <2>1. \A q \in Proc : q # out
    BY AddressesDiffer
  <2>2. state' = [state EXCEPT ![out] = "triggered"] \/ state' = [state EXCEPT ![out] = "pending"]
    BY MakeEffect
  <2> QED
    BY <1>i, <2>1, <2>2
<1>2. \A q \in Proc : cbs'[q] = cbs[q]
  BY <1>i, MakeCallbacks
<1>3. /\ InClient
      /\ UNCHANGED <<now, current, rest, ctx, pstate, yielded, waitOn, interrupt_pending,
                     resume_value>>
  BY DEF make_cond, ctlVars, procVars, intVars, ghosts
<1> QED
  BY <1>1, <1>2, <1>3 DEF Untouched

LEMMA CondCbUntouched ==
  ASSUME CondInv, cond_cb
  PROVE  /\ ctx = "dispatch" /\ current \in Addr
         /\ UNCHANGED <<now, current, ctx>> /\ \A q \in Proc : Untouched(q)
<1>i. /\ state \in [Ev -> {"fresh", "pending", "triggered", "processed"}]
      /\ Addr \subseteq Ev /\ Proc \subseteq Ev
  BY DEF CondInv, IInv, TypeOK, Ev
<1>1. PICK out \in Addr :
        /\ ctx = "dispatch" /\ current \in Addr
        /\ state' = state \/ state' = [state EXCEPT ![out] = "triggered"]
  BY CondCbTriggers
<1>2. \A q \in Proc : state'[q] = state[q]
  BY <1>i, <1>1, AddressesDiffer
<1>3. UNCHANGED <<now, current, ctx, cbs, pstate, yielded, waitOn, interrupt_pending,
                  resume_value>>
  BY DEF cond_cb, procVars, intVars, ghosts
<1> QED
  BY <1>1, <1>2, <1>3 DEF Untouched

(* Code of the program keeps the reasons of every process it leaves alone. *)
LEMMA ClientReasons ==
  ASSUME IInv, Reasons, InClient, UNCHANGED <<current, rest>>, ctx' \in {ctx, "dispatch"},
         \A q \in Proc : ReasonOK(q)' \/ Untouched(q)
  PROVE  Reasons'
BY ClientDispatch, UntouchedReason DEF Reasons

LEMMA NextCondReasons ==
  CondInv /\ Reasons /\ [CondNext]_<<vars, condVars>> => Reasons'
<1> SUFFICES ASSUME CondInv, Reasons, [CondNext]_<<vars, condVars>>
             PROVE  Reasons'
  OBVIOUS
<1>i. IInv
  BY DEF CondInv
<1>1. CASE [Next]_vars
  BY <1>1, <1>i, NextReasons
<1>2. ASSUME NEW out \in Addr, NEW evs \in Inputs, NEW any \in BOOLEAN,
             make_cond(out, evs, any)
      PROVE  Reasons'
  BY <1>2, <1>i, MakeUntouched, ClientReasons
<1>3. CASE cond_cb
  <2>1. /\ ctx = "dispatch" /\ current \in Addr
        /\ UNCHANGED <<current, ctx>> /\ \A q \in Proc : Untouched(q)
    BY <1>3, CondCbUntouched
  <2>2. DispatchOK' /\ \A q \in Proc : ~ResumeDue(q)'
    BY <2>1, AddressesDiffer DEF DispatchOK, ResumeDue
  <2> QED
    BY <2>1, <2>2, UntouchedReason DEF Reasons
<1> QED
  BY <1>1, <1>2, <1>3, CondSteps

(* sim_yield returns for a reason beside conditions, too.                  *)
THEOREM CondWakings == CondSpec => []NoSpuriousWakeup
<1>1. Init => Reasons
  BY AddressesDiffer DEF Init, Reasons, DispatchOK, ReasonOK
<1>2. CondInv /\ Reasons /\ [CondNext]_<<vars, condVars>> => Reasons'
  BY NextCondReasons
<1>3. Reasons => NoSpuriousWakeup
  BY ReasonsWake
<1> QED
  BY <1>1, <1>2, <1>3, CondInductive, PTL DEF CondSpec

(* Time does not pass between an event and the processes it wakes, and the *)
(* clock never goes back; the condition is that of Instants.               *)
THEOREM CondInstants ==
  ASSUME "strict" \in RtModes => "until" \notin RunModes
  PROVE  CondSpec => []ResumeAtOnce
<1>1. Init /\ CondInit => Clocked
  BY DEF Init, CondInit, Clocked, ResumeAtOnce, InTimeOrder, Timely
<1>2. CondInv /\ Clocked /\ [CondNext]_<<vars, condVars>> => Clocked'
  BY NextClocked
<1>3. Clocked => ResumeAtOnce
  BY DEF Clocked
<1> QED
  BY <1>1, <1>2, <1>3, CondInductive, PTL DEF CondSpec

THEOREM CondClock ==
  ASSUME "strict" \in RtModes => "until" \notin RunModes
  PROVE  CondSpec => ClockMonotonic
<1>1. ASSUME CondInv, ResumeAtOnce, [CondNext]_<<vars, condVars>>
      PROVE  [now' >= now]_vars
  <2>i. IInv /\ now \in Nat
    BY <1>1 DEF CondInv, IInv, TypeOK
  <2>1. CASE [Next]_vars
    BY <1>1, <2>1, <2>i, NextClock
  <2>2. CASE UNCHANGED now
    BY <2>2, <2>i
  <2> QED
    BY <1>1, <2>1, <2>2, <2>i, CondSteps, MakeUntouched, CondCbUntouched
<1>2. CondInv /\ ResumeAtOnce /\ [CondNext]_<<vars, condVars>> => [now' >= now]_vars
  BY <1>1
<1> QED
  BY <1>2, CondInductive, CondInstants, PTL DEF CondSpec, ClockMonotonic

(* An interrupt is delivered at once; the condition is that of Interrupts. *)
THEOREM CondInterrupts ==
  ASSUME ~InterruptNew
  PROVE  CondSpec => []InterruptPrompt
<1>1. Init => Reasons /\ PromptOK
  BY AddressesDiffer
     DEF Init, Reasons, DispatchOK, ReasonOK, PromptOK, Prompt
<1>2. CondInv /\ Reasons /\ [CondNext]_<<vars, condVars>> => Reasons'
  BY NextCondReasons
<1>3. ASSUME CondInv, Reasons, PromptOK, [CondNext]_<<vars, condVars>>
      PROVE  PromptOK'
  <2>i. IInv
    BY <1>3 DEF CondInv
  <2>1. CASE [Next]_vars
    BY <1>3, <2>1, <2>i, NextPrompt
  <2>2. ASSUME NEW out \in Addr, NEW evs \in Inputs, NEW any \in BOOLEAN,
               make_cond(out, evs, any)
        PROVE  PromptOK'
    <3>1. \A q \in Proc : Untouched(q) /\ (ResumeDue(q) => ResumeDue(q)')
      BY <2>2, <2>i, MakeUntouched DEF ResumeDue
    <3> QED
      BY <1>3, <3>1, UntouchedPrompt DEF PromptOK
  <2>3. CASE cond_cb
    <3>1. \A q \in Proc : Untouched(q) /\ ~ResumeDue(q)
      BY <1>3, <2>3, CondCbUntouched, AddressesDiffer DEF ResumeDue
    <3> QED
      BY <1>3, <3>1, UntouchedPrompt DEF PromptOK
  <2> QED
    BY <1>3, <2>1, <2>2, <2>3, CondSteps
<1>4. CondInv /\ Reasons /\ PromptOK /\ [CondNext]_<<vars, condVars>> => PromptOK'
  BY <1>3
<1>5. PromptOK => InterruptPrompt
  BY DEF PromptOK, Prompt, InterruptPrompt, Suspended
<1> QED
  BY <1>1, <1>2, <1>4, <1>5, CondInductive, PTL DEF CondSpec

(* An interrupt reaches only the process it was sent to; the condition is  *)
(* that of Addressees.                                                     *)
THEOREM CondAddressees ==
  ASSUME ~StaleHandles
  PROVE  CondSpec => []InterruptReachesAddressee
<1>1. Init => InterruptReachesAddressee
  BY DEF Init, InterruptReachesAddressee
<1>2. ASSUME CondInv, InterruptReachesAddressee, [CondNext]_<<vars, condVars>>
      PROVE  InterruptReachesAddressee'
  <2>1. CASE [Next]_vars
    BY <1>2, <2>1, NextAddressee DEF CondInv, IInv
  <2>2. CASE UNCHANGED <<interrupt_pending, interrupt_cause, gen>>
    BY <1>2, <2>2 DEF InterruptReachesAddressee
  <2>3. ASSUME NEW out \in Addr, NEW evs \in Inputs, NEW any \in BOOLEAN,
               make_cond(out, evs, any)
        PROVE  UNCHANGED <<interrupt_pending, interrupt_cause, gen>>
    BY <2>3 DEF make_cond, intVars, procVars
  <2>4. cond_cb => UNCHANGED <<interrupt_pending, interrupt_cause, gen>>
    BY DEF cond_cb, intVars, procVars
  <2> QED
    BY <1>2, <2>1, <2>2, <2>3, <2>4, CondSteps
<1>3. CondInv /\ InterruptReachesAddressee /\ [CondNext]_<<vars, condVars>>
        => InterruptReachesAddressee'
  BY <1>2
<1> QED
  BY <1>1, <1>3, CondInductive, PTL DEF CondSpec

(* make_cond takes an event from the pool, and cond_cb none.               *)
LEMMA NextCondRecyclable ==
  CondInv /\ PoolRecyclable /\ [CondNext]_<<vars, condVars>> => PoolRecyclable'
<1> SUFFICES ASSUME CondInv, PoolRecyclable, [CondNext]_<<vars, condVars>>
             PROVE  PoolRecyclable'
  OBVIOUS
<1>i. IInv
  BY DEF CondInv
<1>1. CASE [Next]_vars
  BY <1>1, <1>i, NextRecyclable
<1>2. ASSUME NEW out \in Addr, NEW evs \in Inputs, NEW any \in BOOLEAN,
             make_cond(out, evs, any)
      PROVE  PoolRecyclable'
  <2>1. _sim_event_alloc(out) /\ recyclable' = [recyclable EXCEPT ![out] = FALSE]
    BY <1>2, <1>i, MakeEffect
  <2> QED
    BY <1>i, <2>1, AllocRecyclable
<1>3. CASE cond_cb
  BY <1>3 DEF cond_cb, PoolRecyclable
<1> QED
  BY <1>1, <1>2, <1>3, CondSteps

(* Conditions are made of events nobody relies on, and leave the pools in  *)
(* order.                                                                  *)
THEOREM CondReuse == CondSpec => [](TypeOK /\ PoolIsFree /\ PooledAreDead)
<1>1. Init => PoolRecyclable
  BY DEF Init, PoolRecyclable
<1>2. CondInv /\ PoolRecyclable /\ [CondNext]_<<vars, condVars>> => PoolRecyclable'
  BY NextCondRecyclable
<1>3. CondInv /\ PoolRecyclable => TypeOK /\ PoolIsFree /\ PooledAreDead
  BY DEF CondInv, IInv, PoolIsFree
<1> QED
  BY <1>1, <1>2, <1>3, CondInductive, PTL DEF CondSpec

(* A done event is no condition: neither becomes the other.                *)
WatchesApart == \A w \in watches : made[w.event] = NULL

LEMMA NextApart ==
  CondInv /\ PoolRecyclable /\ WatchesOK /\ WatchesApart /\ [CondNext]_<<vars, condVars>>
    => WatchesApart'
<1> SUFFICES ASSUME CondInv, PoolRecyclable, WatchesOK, WatchesApart,
                    [CondNext]_<<vars, condVars>>
             PROVE  WatchesApart'
  OBVIOUS
<1>i. /\ IInv /\ CondOK /\ CondTypeOK
      /\ watches \subseteq [proc : Proc, gen : Nat, event : Addr]
      /\ done \in [Proc -> Addr \cup {NULL}]
  BY DEF CondInv, IInv, TypeOK
<1>1. CASE UNCHANGED watches /\ \A c \in Addr : made[c] = NULL => made'[c] = NULL
  BY <1>1, <1>i DEF WatchesApart
<1>2. ASSUME NEW p \in Proc, NEW g \in 1..MaxGen, sim_process_event(p, g), UNCHANGED made
      PROVE  WatchesApart'
  <2>1. PICK e \in Addr :
          /\ watches' = watches \cup {[proc |-> p, gen |-> g, event |-> e]}
          /\ done[p] = e \/ _sim_event_alloc(e)
    BY <1>2, <1>i DEF sim_process_event, Allocated
  <2>2. made[e] = NULL
    BY <1>i, <2>1, AllocatedIsNoCondition DEF CondOK, Sound
  <2> QED
    BY <1>2, <2>1, <2>2 DEF WatchesApart
<1>3. ASSUME NEW out \in Addr, NEW evs \in Inputs, NEW any \in BOOLEAN,
             make_cond(out, evs, any)
      PROVE  WatchesApart'
  <2>1. /\ _sim_event_alloc(out) /\ recyclable' = [recyclable EXCEPT ![out] = FALSE]
        /\ made' = [made EXCEPT ![out] = [any |-> any, n |-> Len(evs),
                                          left |-> Restrict(evs, Waiting(evs))]]
    BY <1>3, <1>i, MakeEffect
  <2>2. UNCHANGED watches
    BY <1>3 DEF make_cond, ghosts
  <2>3. state[out] = "fresh" \/ recyclable[out]
    BY <1>i, <2>1, AllocRecyclable
  <2>4. \A w \in watches : w.event # out /\ w.event \in Addr
    BY <1>i, <2>3 DEF WatchesOK
  <2> QED
    BY <1>i, <2>1, <2>2, <2>4 DEF WatchesApart, CondTypeOK
<1>4. CASE sim_step /\ (made' = Noted(current') \/ UNCHANGED made)
  BY <1>1, <1>4 DEF sim_step, Noted, ghosts
<1>5. CASE cond_cb
  BY <1>1, <1>5 DEF cond_cb, ghosts
<1>6. CASE /\ Next /\ UNCHANGED made /\ ~sim_step
           /\ ~\E p \in Proc : \E g \in 1..MaxGen : sim_process_event(p, g)
  <2>1. UNCHANGED watches
    BY <1>6 DEF Next, Program, Body, Library, sim_event, sim_timeout, sim_event_succeed,
       sim_event_on, sim_process, sim_process_interrupt, sim_env_set_realtime, sim_yield,
       process_entry_end, StartSomeRun, StartRun, FinishRun, LagAbort, Return, waiter_cb,
       user_cb, user_cb_return, EndDispatch, resume_cb_dead, resume_cb_start,
       resume_cb_return, ghosts
  <2> QED
    BY <1>1, <1>6, <2>1
<1>7. CASE UNCHANGED <<vars, condVars>>
  BY <1>1, <1>7 DEF vars, ghosts, condVars
<1>8. \/ sim_step /\ made' = Noted(current')
      \/ cond_cb \/ UNCHANGED <<vars, condVars>>
      \/ \E out \in Addr, evs \in Inputs, any \in BOOLEAN : make_cond(out, evs, any)
      \/ Next /\ UNCHANGED made
  BY DEF CondNext, Run, Next, Library, condVars
<1>9. CASE Next /\ UNCHANGED made
  BY <1>2, <1>4, <1>6, <1>9
<1> QED
  BY <1>3, <1>4, <1>5, <1>7, <1>8, <1>9

LEMMA NextCondWatches ==
  ASSUME ~StaleHandles, CondInv, PoolRecyclable, WatchesOK, WatchesApart,
         DoneMeansFinished, [CondNext]_<<vars, condVars>>
  PROVE  WatchesOK' /\ DoneMeansFinished'
<1>i. /\ IInv /\ watches \subseteq [proc : Proc, gen : Nat, event : Addr]
      /\ state \in [Ev -> {"fresh", "pending", "triggered", "processed"}]
      /\ recyclable \in [Ev -> BOOLEAN] /\ Addr \subseteq Ev
  BY DEF CondInv, IInv, TypeOK, Ev
<1>1. CASE [Next]_vars
  BY <1>1, <1>i, NextWatches
<1>2. ASSUME NEW out \in Addr, NEW evs \in Inputs, NEW any \in BOOLEAN,
             make_cond(out, evs, any)
      PROVE  WatchesOK' /\ DoneMeansFinished'
  <2>1. /\ _sim_event_alloc(out) /\ recyclable' = [recyclable EXCEPT ![out] = FALSE]
        /\ \/ state' = [state EXCEPT ![out] = "triggered"]
           \/ state' = [state EXCEPT ![out] = "pending"]
    BY <1>2, <1>i, MakeEffect
  <2>2. state[out] = "fresh" \/ recyclable[out]
    BY <1>i, <2>1, AllocRecyclable
  <2>3. \A w \in watches : /\ w.event # out /\ w.event \in Ev
                           /\ state'[w.event] = state[w.event]
                           /\ recyclable'[w.event] = recyclable[w.event]
    BY <1>i, <2>1, <2>2 DEF WatchesOK
  <2>4. UNCHANGED <<gen, done, watches, pstate>>
    BY <1>2 DEF make_cond, procVars, ghosts
  <2> QED
    BY <1>i, <2>3, <2>4, SameWatches DEF WatchesOK
<1>3. CASE cond_cb
  <2>1. PICK out \in Addr : /\ made[out] # NULL
                            /\ state' = state \/ state' = [state EXCEPT ![out] = "triggered"]
    BY <1>3, CondCbTriggers
  <2>2. \A w \in watches : w.event # out /\ w.event \in Ev /\ state'[w.event] = state[w.event]
    BY <1>i, <2>1 DEF WatchesApart
  <2>3. UNCHANGED <<gen, done, watches, pstate, recyclable>>
    BY <1>3 DEF cond_cb, procVars, ghosts
  <2> QED
    BY <1>i, <2>2, <2>3, SameWatches DEF WatchesOK
<1> QED
  BY <1>1, <1>2, <1>3, CondSteps

(* The done event of a process is triggered exactly when it has finished,  *)
(* whatever conditions fire; the hypothesis is that of DoneEvents.         *)
THEOREM CondDoneEvents ==
  ASSUME ~StaleHandles
  PROVE  CondSpec => []DoneMeansFinished
<1>1. Init => PoolRecyclable /\ WatchesOK /\ WatchesApart /\ DoneMeansFinished
  BY DEF Init, PoolRecyclable, WatchesOK, WatchesApart, DoneMeansFinished
<1>2. CondInv /\ PoolRecyclable /\ [CondNext]_<<vars, condVars>> => PoolRecyclable'
  BY NextCondRecyclable
<1>3. CondInv /\ PoolRecyclable /\ WatchesOK /\ WatchesApart /\ [CondNext]_<<vars, condVars>>
        => WatchesApart'
  BY NextApart
<1>4. CondInv /\ PoolRecyclable /\ WatchesOK /\ WatchesApart /\ DoneMeansFinished
        /\ [CondNext]_<<vars, condVars>> => WatchesOK' /\ DoneMeansFinished'
  BY NextCondWatches
<1> QED
  BY <1>1, <1>2, <1>3, <1>4, CondInductive, PTL DEF CondSpec

=============================================================================
