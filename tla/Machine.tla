------------------------------ MODULE Machine ------------------------------
(***************************************************************************)
(* The workers of tests/test_extra.c (pre_worker) on the library: each     *)
(* comes after some time, asks for the machine (a preemptive resource),    *)
(* works, and may be evicted by a more urgent worker, which interrupts it  *)
(* whatever it is doing.                                                   *)
(***************************************************************************)
EXTENDS Application, Lines

CONSTANTS
  N_WORKERS,
  Priorities   \* of the workers

(* The lines of the program.                                               *)
MachineStages ==
  {"new", "come", "request", "wait", "granted", "work", "worked", "leave"}

ASSUME WorkersHavePriorities == N_WORKERS \in Nat /\ Priorities \subseteq Int
ASSUME NullIsNoMachineStage == NULL \notin MachineStages

VARIABLES holders, waiters   \* see module PreemptiveResource

MachineInit == AppInit /\ holders = <<>> /\ waiters = <<>>

worker_main ==
  /\ ctx = "main"
  /\ IF Cardinality({p \in Proc : pstate[p] # "unborn"}) < N_WORKERS
     THEN Start("new", NULL)
     ELSE main_run

-----------------------------------------------------------------------------
(* The preemptive resource; every request may preempt.                     *)

CanEvict(n) ==
  holders # <<>> /\ holders[find_weakest(holders)].priority > n.priority

Grant(n) ==
  /\ in_use < capacity
  /\ in_use' = in_use + 1 /\ holders' = <<n>> \o holders
  /\ Allocated(n.event, "triggered", FALSE) /\ _sim_event_schedule(n.event, 0)
  /\ UNCHANGED <<waiters, intVars, procVars>>

(* The request is granted, then sim_process_interrupt is called for the    *)
(* owner of the victim.                                                    *)
Evict(n) ==
  /\ in_use >= capacity /\ CanEvict(n)
  /\ LET k == find_weakest(holders)
         q == holders[k].owner
         told == pstate[q] # "dead" /\ ~interrupt_pending[q]
         woken == IF told /\ state[q] # "triggered" THEN {q} ELSE {}
         granted == Insert(heap, now, n.event)
     IN  /\ holders' = <<n>> \o RemoveAt(holders, k)
         /\ _sim_event_alloc(n.event)
         /\ recyclable' = [recyclable EXCEPT ![n.event] = FALSE]
         /\ state' = [e \in Ev |-> IF e \in {n.event} \cup woken
                                   THEN "triggered" ELSE state[e]]
         /\ cbs' = [e \in Ev |-> IF e = n.event THEN <<>>
                                 ELSE IF e \in woken THEN Append(cbs[e], Resume(e))
                                 ELSE cbs[e]]
         /\ heap' = IF woken = {} THEN granted ELSE Insert(granted, now, q)
         /\ IF told
            THEN /\ interrupt_pending' = [interrupt_pending EXCEPT ![q] = TRUE]
                 /\ interrupt_cause' = [interrupt_cause EXCEPT ![q] = gen[q]]
                 /\ yielded' = [yielded EXCEPT ![q] = NULL]
                 /\ resume_value' = [resume_value EXCEPT ![q] = NULL]
            ELSE UNCHANGED <<interrupt_pending, interrupt_cause, yielded, resume_value>>
  /\ UNCHANGED <<in_use, waiters, was_interrupted, pstate, done, process_pool, gen>>

Wait(n) ==
  /\ in_use >= capacity /\ ~CanEvict(n)
  /\ waiters' = insert_sorted(waiters, n)
  /\ Allocated(n.event, "pending", FALSE)
  /\ UNCHANGED <<heap, in_use, holders, intVars, procVars>>

worker_request(p) ==
  /\ At(p, "request")
  /\ \E priority \in Priorities :
       LET n == [event |-> New, owner |-> p, priority |-> priority]
       IN  Grant(n) \/ Evict(n) \/ Wait(n)
  /\ req' = [req EXCEPT ![p] = New]
  /\ pc' = [pc EXCEPT ![p] = "wait"]
  /\ UNCHANGED <<now, envVars, ctlVars, ghosts, condVars, ev, limit>>

(* Mutant: a freed slot is left to the next request.                       *)
Follows_nobody(used) == FALSE

(* Does the head of the line get a slot when used are taken?               *)
Follows(used) == used < capacity /\ waiters # <<>>

(* A request that is not a holder any more was evicted, and frees none.    *)
worker_release(p) ==
  /\ LET k == SelectInSeq(holders, LAMBDA h : h.event = req[p])
         others == IF k = 0 THEN holders ELSE RemoveAt(holders, k)
         used == IF k = 0 THEN in_use ELSE in_use - 1
         next == Head(waiters)
     IN  IF Follows(used)
         THEN /\ waiters' = Tail(waiters) /\ holders' = <<next>> \o others
              /\ in_use' = used + 1
              /\ state' = [state EXCEPT ![next.event] = "triggered"]
              /\ _sim_event_schedule(next.event, 0)
         ELSE /\ holders' = others /\ in_use' = used
              /\ UNCHANGED <<waiters, state, heap>>
  /\ event_pool' = IF state[req[p]] = "processed" THEN <<req[p]>> \o event_pool
                                                  ELSE event_pool
  /\ pc' = [pc EXCEPT ![p] = "leave"]
  /\ UNCHANGED <<now, cbs, recyclable, envVars, intVars, procVars, ctlVars, ghosts,
                 condVars, req, ev, limit>>

-----------------------------------------------------------------------------
(* pre_worker.                                                             *)

(* Mutant: the worker does not ask whether it was interrupted while it     *)
(* waited (as that of benchmarking/c/factory.c).                           *)
Evicted_unasked(p) == FALSE

(* Did the worker lose the machine before it was told that it had it?      *)
Evicted(p) == was_interrupted[p]

worker(p) ==
  \/ /\ \/ Timeout(p, "new", Gaps, "come")
        \/ Yield(p, "come", ev[p], "request")
        \/ Yield(p, "wait", req[p], "granted")
        \/ Timeout(p, "granted", Services, "work") /\ ~Evicted(p)
        \/ Yield(p, "work", ev[p], "worked")
        \/ End(p, "leave")
     /\ UNCHANGED <<in_use, holders, waiters>>
  \/ worker_request(p)
  \/ At(p, "granted") /\ Evicted(p) /\ worker_release(p)
  \/ At(p, "worked") /\ worker_release(p)

MachineNext ==
  \/ worker_main /\ UNCHANGED <<in_use, holders, waiters>>
  \/ \E p \in Proc : worker(p)
  \/ Run /\ UNCHANGED <<appVars, in_use, holders, waiters>>

MachineSpec ==
  /\ MachineInit /\ [][MachineNext]_<<allVars, in_use, holders, waiters>>
  /\ WF_<<allVars, in_use, holders, waiters>>(MachineNext)

-----------------------------------------------------------------------------
(* Properties.                                                             *)

(* Has p been told, or is it about to be told, that it was interrupted?    *)
Told(p) == interrupt_pending[p] \/ (ctx = p /\ was_interrupted[p])

(* Whoever works, and has not been told otherwise, has the machine, and is *)
(* done only when its time is over.                                        *)
WorksWithMachine ==
  \A p \in Proc :
    pc[p] \in {"work", "worked"} /\ ~Told(p) =>
      /\ \E h \in ToSet(holders) : h.event = req[p] /\ h.owner = p
      /\ ctx = p /\ pc[p] = "worked" => now = limit[p]

(* All workers have come and gone, and the machine is nobody's.            *)
ShiftOver ==
  /\ Cardinality({p \in Proc : pstate[p] = "dead"}) = N_WORKERS
  /\ in_use = 0 /\ holders = <<>> /\ waiters = <<>>
=============================================================================
