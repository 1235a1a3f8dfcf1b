----------------------------- MODULE Conditions -----------------------------
(***************************************************************************)
(* The conditions of cond.c on top of the kernel: an event that fires when *)
(* any or all of its inputs have been processed.  A condition is named by  *)
(* its event, which is never recycled; its state is the user argument of   *)
(* the callbacks cond_cb that its inputs run.                              *)
(***************************************************************************)
EXTENDS Kernel

CONSTANT MaxInputs    \* bound: inputs of one condition
ASSUME InputsAreBounded == MaxInputs \in Nat

VARIABLES
  cond,   \* the cond_state_t of a condition, NULL before and after its life
  made    \* history: of a condition, its kind, its number of inputs, and
          \* those of them not processed yet

condVars == <<cond, made>>
kernelVars == vars

cond_state_t == [any : BOOLEAN, n_total : 0..MaxInputs, n_fired : 0..MaxInputs]

(* The inputs not processed yet, by their places among all the inputs.     *)
Unprocessed == UNION {[I -> Addr] : I \in SUBSET (1..MaxInputs)}
Condition == [any : BOOLEAN, n : 0..MaxInputs, left : Unprocessed]

ASSUME NullIsNoRecord == NULL \notin cond_state_t /\ NULL \notin Condition

CondInit ==
  /\ cond = [e \in Addr |-> NULL]
  /\ made = [e \in Addr |-> NULL]

(* Mutant: an AnyOf waits for all, too.                                    *)
Done_all(s) == s.n_fired >= s.n_total

Done(s) == s.n_fired >= IF s.any THEN 1 ELSE s.n_total

(* Mutant: a done condition is triggered again by its other inputs.        *)
Due_again(out, s) == Done(s)

(* Mutant: the state is freed when the condition fires.                    *)
Kept_untilDone(s) == IF Done(s) THEN NULL ELSE s

(* Mutant: the last input does not free the state.                         *)
Kept_offByOne(s) == IF s.n_fired > s.n_total THEN NULL ELSE s

(* The state s as it is kept: freed once all its inputs have fired.        *)
Kept(s) == IF s.n_fired >= s.n_total THEN NULL ELSE s

(* Is it for this callback to trigger the condition?                       *)
Due(out, s) == state[out] = "pending" /\ Done(s)

cond_cb ==
  /\ NextCallback("cond")
  /\ LET out == Head(rest).user
         s   == [cond[out] EXCEPT !.n_fired = @ + 1]
     IN  /\ cond' = [cond EXCEPT ![out] = Kept(s)]
         /\ IF Due(out, s)
            THEN /\ state' = [state EXCEPT ![out] = "triggered"]
                 /\ _sim_event_schedule(out, 0)
            ELSE UNCHANGED <<state, heap>>
  /\ UNCHANGED <<now, cbs, recyclable, event_pool, ctx, running, until, current,
                 made, envVars, intVars, procVars, ghosts>>

(* Mutant: inputs processed earlier are not counted.                       *)
Fired_none(evs, out) == {}

(* The inputs processed before the call; that is looked up after the event *)
(* of the condition was allocated.                                         *)
Fired(evs, out) == {i \in DOMAIN evs : evs[i] # out /\ state[evs[i]] = "processed"}

(* Where the event e stands among the inputs that have not fired.          *)
Left(evs, fired, e) == {i \in DOMAIN evs \ fired : evs[i] = e}

make_cond(out, evs, any) ==
  /\ InClient
  /\ LET fired == Fired(evs, out)
         s == [any |-> any, n_total |-> Len(evs), n_fired |-> Cardinality(fired)]
         Calls(e) == [k \in 1..Cardinality(Left(evs, fired, e)) |-> Cond(out)]
     IN  /\ IF Done(s)
            THEN /\ Allocated(out, "triggered", FALSE)
                 /\ _sim_event_schedule(out, 0)
                 /\ cond' = [cond EXCEPT ![out] = Kept(s)]
            ELSE /\ _sim_event_alloc(out)
                 /\ state' = [state EXCEPT ![out] = "pending"]
                 /\ recyclable' = [recyclable EXCEPT ![out] = FALSE]
                 /\ cbs' = [e \in Ev |->
                              (IF e = out THEN <<>> ELSE cbs[e]) \o Calls(e)]
                 /\ cond' = [cond EXCEPT ![out] = s]
                 /\ UNCHANGED heap
         /\ made' = [made EXCEPT ![out] =
              [any |-> any, n |-> Len(evs),
               left |-> Restrict(evs, {i \in DOMAIN evs : state[evs[i]] # "processed"})]]
  /\ UNCHANGED <<now, envVars, intVars, procVars, ctlVars, ghosts>>

-----------------------------------------------------------------------------
(* Any program on the kernel that makes conditions, too.                   *)

(* The handles a program may use: "Recyclable event handles must not be    *)
(* touched after sim_yield", which is when they may be in the pool.        *)
Handles == {e \in Addr : state[e] # "fresh"} \ ToSet(event_pool)

Inputs == UNION {[1..n -> Handles] : n \in 0..MaxInputs}

(* The program leaves the event of a condition to the library.             *)
LeavesConditions == \A c \in Addr : made[c] # NULL => ~sim_event_succeed(c)

(* What the history notes when an event is processed.                      *)
Noted(e) ==
  [c \in Addr |->
     IF made[c] = NULL THEN NULL
     ELSE [made[c] EXCEPT !.left = Restrict(@, {i \in DOMAIN @ : @[i] # e})]]

(* The library at work.                                                    *)
Run ==
  \/ sim_step /\ made' = Noted(current') /\ UNCHANGED cond
  \/ cond_cb
  \/ /\ \/ FinishRun \/ LagAbort \/ waiter_cb \/ user_cb \/ EndDispatch
        \/ resume_cb_dead \/ resume_cb_start \/ resume_cb_return
     /\ UNCHANGED condVars

CondNext ==
  \/ /\ Program \/ Body \/ StartSomeRun \/ user_cb_return
     /\ LeavesConditions
     /\ UNCHANGED condVars
  \/ \E out \in Addr, evs \in Inputs, any \in BOOLEAN : make_cond(out, evs, any)
  \/ Run

CondSpec == Init /\ CondInit /\ [][CondNext]_<<vars, condVars>>

-----------------------------------------------------------------------------
(* Properties.                                                             *)

(* An AnyOf of no inputs: nothing will ever fire it, nor free its state.   *)
NeverFires(s) == s.any /\ s.n_total = 0

(* Types: nothing but its inputs makes a condition count, and but for that *)
(* of an AnyOf without inputs a state is kept only while some of them are  *)
(* outstanding.                                                            *)
CondTypeOK ==
  /\ cond \in [Addr -> cond_state_t \cup {NULL}]
  /\ \A c \in Addr :
       cond[c] # NULL => cond[c].n_fired < cond[c].n_total \/ NeverFires(cond[c])
  /\ made \in [Addr -> Condition \cup {NULL}]
  /\ \A c \in Addr : made[c] # NULL => DOMAIN made[c].left \subseteq 1..made[c].n

(* Has every input been processed, or one of them?                         *)
Met(m) == IF m.any THEN DOMAIN m.left # 1..m.n ELSE DOMAIN m.left = {}

(* "AllOf: fires once all listed events are processed.  AnyOf: once at     *)
(* least one is", counting those processed before the call and an event    *)
(* listed twice, and without letting time pass.                            *)
FiresWhenMet ==
  /\ ctx \in {"main", "loop"} =>
       \A c \in Addr : made[c] # NULL => (state[c] # "pending" <=> Met(made[c]))
  /\ \A i \in DOMAIN heap :
       heap[i].ev \in Addr /\ made[heap[i].ev] # NULL => heap[i].time = now

(* The callbacks still to be run for condition c: those registered with an *)
(* event that is not processed yet, and those left of the current one.     *)
Registered(c) ==
  UNION {{e} \X {k \in DOMAIN cbs[e] : cbs[e][k] = Cond(c)} : e \in Addr}
InProgress(c) == {k \in DOMAIN rest : rest[k] = Cond(c)}
Outstanding(c) == Cardinality(Registered(c)) + Cardinality(InProgress(c))

(* No callback finds its state freed, and a state lives until the last of  *)
(* them ("The state struct is freed only when all inputs have fired").     *)
(* Two states are lost, with no callback left to free them: that of an     *)
(* AnyOf that was done when it was made, with inputs outstanding, and that *)
(* of an AnyOf of no inputs, which is never done.                          *)
StateLifetime ==
  \A c \in Addr :
    IF cond[c] = NULL THEN Outstanding(c) = 0
    ELSE \/ /\ Outstanding(c) = cond[c].n_total - cond[c].n_fired
            /\ Outstanding(c) > 0 \/ NeverFires(cond[c])
         \/ Outstanding(c) = 0 /\ cond[c].any /\ cond[c].n_fired >= 1
=============================================================================
