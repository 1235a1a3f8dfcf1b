------------------------- MODULE PreemptiveResource -------------------------
(***************************************************************************)
(* The resource of preemptive_resource.c: a sorted waiting line as in      *)
(* module PriorityResource, and holders that a more urgent request may     *)
(* evict, which interrupts their process.  A program releases a request    *)
(* once, but it may do so while the request still waits (a process that    *)
(* was interrupted and leaves, as pre_worker of tests/test_extra.c) or     *)
(* after it was evicted.                                                   *)
(***************************************************************************)
EXTENDS Requests

CONSTANTS Priorities, Proc, NULL

VARIABLES
  holders,    \* newest first
  waiters,    \* head first
  interrupt,  \* the cause of the interrupt pending for a process, or NULL
  unaware,    \* history: evicted requests whose process has not run since
  gaveUp      \* history: requests released while they waited

lists == <<holders, waiters>>
vars == <<in_use, events, lists, interrupt, unaware, gaveUp>>

(* The flags "preempted" of holder_t and "preempt" of pwait_t are never    *)
(* read by the code; the latter is kept for the property NoInversion.      *)
holder_t == [event : Event, owner : Proc \cup {NULL}, priority : Priorities]
pwait_t == [event : Event, owner : Proc \cup {NULL}, priority : Priorities,
            preempt : BOOLEAN]

sim_preemptive_resource_create ==
  /\ Init
  /\ holders = <<>> /\ waiters = <<>>
  /\ interrupt = [p \in Proc |-> NULL] /\ unaware = {} /\ gaveUp = {}

(* n becomes a holder among the others.                                    *)
add_holder(n, others) ==
  /\ holders' =
       <<[event |-> n.event, owner |-> n.owner, priority |-> n.priority]>> \o others
  /\ sim_event_succeed(n.event)

(* sim_process_interrupt of process.c, as far as it is seen from here: it  *)
(* is dropped if another one is pending.                                   *)
sim_process_interrupt(p, cause) ==
  interrupt' = IF p = NULL \/ interrupt[p] # NULL THEN interrupt
               ELSE [interrupt EXCEPT ![p] = cause]

Grant(n) ==
  /\ in_use < capacity
  /\ in_use' = in_use + 1 /\ add_holder(n, holders)
  /\ UNCHANGED <<waiters, interrupt, unaware>>

Weakest == find_weakest(holders)

(* Is there a holder strictly less urgent than n?                          *)
CanEvict(n) ==
  n.preempt /\ holders # <<>> /\ holders[Weakest].priority > n.priority

(* Mutant: the process of the newcomer is interrupted.                     *)
vowner_newcomer(victim, n) == n.owner

(* Who is interrupted when n takes the slot of victim.                     *)
vowner(victim, n) == victim.owner

Evict(n) ==
  /\ in_use >= capacity /\ CanEvict(n)
  /\ LET victim == holders[Weakest] IN
       /\ add_holder(n, RemoveAt(holders, Weakest))
       /\ sim_process_interrupt(vowner(victim, n), n.event)
       /\ unaware' = unaware \cup {victim}
  /\ UNCHANGED <<in_use, waiters>>

Wait(n) ==
  /\ in_use >= capacity /\ ~CanEvict(n)
  /\ waiters' = insert_sorted(waiters, n)
  /\ UNCHANGED <<in_use, holders, triggered, interrupt, unaware>>

sim_preemptive_resource_request(n) ==
  /\ _sim_event_alloc(n.event, ToSet(EventsOf(waiters)))
  /\ Grant(n) \/ Evict(n) \/ Wait(n)
  /\ UNCHANGED gaveUp

(* Mutant: only a holder whose request was processed is looked for.        *)
Holds_processed(e) == e \in ToSet(EventsOf(holders)) \cap processed

Holds(e) == e \in ToSet(EventsOf(holders))

(* A freed slot goes to the head of the line; a request that is not a      *)
(* holder (it waits, or was evicted) frees none.                           *)
sim_preemptive_resource_release(e) ==
  /\ e \in (Known \cup ToSet(EventsOf(waiters))) \ early
  /\ LET k == SelectInSeq(holders, LAMBDA h : h.event = e)
         left == IF Holds(e) THEN RemoveAt(holders, k) ELSE holders
         used == IF Holds(e) THEN in_use - 1 ELSE in_use
     IN  IF used < capacity /\ waiters # <<>>
         THEN /\ waiters' = Tail(waiters)
              /\ add_holder(Head(waiters), left)
              /\ in_use' = used + 1
         ELSE /\ holders' = left /\ in_use' = used
              /\ UNCHANGED <<waiters, triggered>>
  /\ recycle(e)
  /\ unaware' = {h \in unaware : h.event # e}
  /\ gaveUp' = gaveUp \cup (ToSet(EventsOf(waiters)) \cap {e})
  /\ UNCHANGED interrupt

(* Some other code interrupts p.                                           *)
interrupt_other(p) ==
  /\ sim_process_interrupt(p, "other") /\ interrupt' # interrupt
  /\ UNCHANGED <<in_use, events, lists, unaware, gaveUp>>

(* The interrupt pending for p is delivered: its sim_yield returns.        *)
sim_yield_return(p) ==
  /\ interrupt[p] # NULL
  /\ interrupt' = [interrupt EXCEPT ![p] = NULL]
  /\ unaware' = {h \in unaware : h.owner # p}
  /\ UNCHANGED <<in_use, events, lists, gaveUp>>

Next ==
  \/ \E n \in pwait_t : sim_preemptive_resource_request(n)
  \/ \E e \in Event : sim_preemptive_resource_release(e)
  \/ \E p \in Proc : interrupt_other(p) \/ sim_yield_return(p)
  \/ process /\ UNCHANGED <<lists, interrupt, unaware, gaveUp>>

Spec == sim_preemptive_resource_create /\ [][Next]_vars

-----------------------------------------------------------------------------
(* Properties.                                                             *)

(* The slots are the holders, each request in one place once.              *)
InUseCountsHolders ==
  /\ in_use = Len(holders)
  /\ IsInjective(EventsOf(holders \o waiters))
  /\ ToSet(EventsOf(holders)) \subseteq Known

(* Whoever waits, waits for a reason: no slot is free, and no holder is    *)
(* less urgent than one who would have evicted it.                         *)
NoInversion ==
  \A w \in ToSet(waiters) :
    /\ in_use = capacity
    /\ w.preempt => \A h \in ToSet(holders) : h.priority <= w.priority

(* Until the process of an evicted request runs again, an interrupt is     *)
(* pending for it, from the eviction or an earlier one.                    *)
EvictedIsInterrupted ==
  \A h \in unaware : h.owner # NULL => interrupt[h.owner] # NULL

(* A released request keeps a slot (nobody will ever free it) only if it   *)
(* was given up while it waited, and the slot was granted to it later.     *)
ReleaseFreesSlot ==
  \A h \in ToSet(holders) : h.event \in early => h.event \in gaveUp
=============================================================================
