------------------------------ MODULE Requests ------------------------------
(***************************************************************************)
(* What the resources of resource.c, priority_resource.c and               *)
(* preemptive_resource.c share: the life of a request event.  It is        *)
(* allocated by the request call, triggered when the request is granted,   *)
(* processed by the kernel, and given back to the event pool by the        *)
(* release call, not by the kernel as other events are.  A program         *)
(* releases a request once; it may do so before the kernel has processed   *)
(* the event (a process interrupted in between), and the event is then     *)
(* never recycled.                                                         *)
(***************************************************************************)
EXTENDS Lines, FiniteSets

CONSTANTS Event, capacity
ASSUME CapacityIsNatural == capacity \in Nat

VARIABLES
  in_use,
  triggered,  \* granted requests the kernel has not processed yet
  processed,  \* granted requests it has processed, not released
  early,      \* history: requests released before they were processed
  event_pool  \* the part of the environment's pool that holds old requests

events == <<triggered, processed, early, event_pool>>

Init ==
  /\ in_use = 0
  /\ triggered = <<>> /\ processed = {} /\ early = {} /\ event_pool = <<>>

Known == ToSet(triggered) \cup processed \cup early

(* _sim_event_alloc: the head of the pool, else new memory.                *)
_sim_event_alloc(e, waiting) ==
  /\ IF event_pool # <<>>
     THEN e = Head(event_pool) /\ event_pool' = Tail(event_pool)
     ELSE e \notin Known \cup waiting /\ UNCHANGED event_pool
  /\ UNCHANGED <<processed, early>>

sim_event_succeed(e) == triggered' = Append(triggered, e)

(* Mutant: the request is recycled whether it was processed or not.        *)
recycle_always(e) ==
  /\ event_pool' = <<e>> \o event_pool
  /\ processed' = processed \ {e}
  /\ UNCHANGED early

(* Only a processed request goes back to the pool.                         *)
recycle(e) ==
  /\ processed' = processed \ {e}
  /\ IF e \in processed
     THEN event_pool' = <<e>> \o event_pool /\ UNCHANGED early
     ELSE early' = early \cup {e} /\ UNCHANGED event_pool

(* The kernel processes a granted request.                                 *)
process ==
  /\ triggered # <<>> /\ triggered' = Tail(triggered)
  /\ processed' = processed \cup ({Head(triggered)} \ early)
  /\ UNCHANGED <<in_use, early, event_pool>>

(* Granted and not released.                                               *)
Granted == Known \ early

TypeOK ==
  /\ in_use \in 0..capacity
  /\ triggered \in Seq(Event) /\ event_pool \in Seq(Event)
  /\ processed \subseteq Event /\ early \subseteq Event

(* A request of the pool is in it once, and nobody waits for it, holds it  *)
(* or will see it processed; no request waits twice or after its grant.    *)
PoolIsFree(waiting) ==
  /\ IsInjective(event_pool) /\ IsInjective(waiting \o triggered)
  /\ ToSet(event_pool) \cap (ToSet(waiting) \cup Known) = {}
=============================================================================
