---------------------------- MODULE MCResources ----------------------------
(***************************************************************************)
(* The three resources for TLC, side by side: which of them a behaviour is *)
(* about is chosen once, by the constructor the program calls.             *)
(***************************************************************************)
EXTENDS Requests, TLC

CONSTANTS Kinds, Priorities, Proc, NULL
ASSUME PrioritiesAreIntegers == Priorities \subseteq Int
ASSUME NullIsNoCause == NULL \notin Event \cup {"other"}

VARIABLES kind, queue, holders, waiters, interrupt, unaware, gaveUp

preemptive == <<holders, waiters, interrupt, unaware, gaveUp>>

R == INSTANCE Resource
P == INSTANCE PriorityResource
E == INSTANCE PreemptiveResource

MCInit ==
  /\ kind \in Kinds
  /\ queue = <<>> /\ E!sim_preemptive_resource_create

MCNext ==
  /\ UNCHANGED kind
  /\ \/ kind = "fifo" /\ R!Next /\ UNCHANGED preemptive
     \/ kind = "priority" /\ P!Next /\ UNCHANGED preemptive
     \/ kind = "preemptive" /\ E!Next /\ UNCHANGED queue

MCSpec == MCInit /\ [][MCNext]_<<kind, queue, in_use, events, preemptive>>

Symmetry == Permutations(Event)

-----------------------------------------------------------------------------
(* Properties: those of the resource the behaviour is about.               *)

Line ==
  CASE kind = "fifo" -> queue
    [] kind = "priority" -> EventsOf(queue)
    [] OTHER -> EventsOf(waiters)

(* A request in the pool is free; no request waits twice, or for a second  *)
(* grant.                                                                  *)
RequestsRecycled == PoolIsFree(Line)

(* in_use, which is all that resource.c and priority_resource.c keep,      *)
(* counts the requests granted and not released (a slot handed on is       *)
(* counted once); preemptive_resource.c keeps the holders, too.            *)
InUseCountsHolders ==
  IF kind = "preemptive" THEN E!InUseCountsHolders
                         ELSE R!InUseCountsHolders

(* The FIFO resource grants in the order of the requests.  This is         *)
(* Resource!ImplementsSemaphore for the behaviours of kind "fifo".         *)
ImplementsSemaphore ==
  /\ kind = "fifo" => R!Abstract!Init
  /\ [][kind = "fifo" => R!Abstract!Next]_(R!Abstract!vars)

(* The priority resource grants to the oldest of the most urgent.  This is *)
(* PriorityResource!ImplementsSemaphore for those of kind "priority".      *)
ImplementsPrioritySemaphore ==
  /\ kind = "priority" => P!Abstract!Init
  /\ [][kind = "priority" => P!Abstract!Next]_(P!Abstract!vars)

(* See module PreemptiveResource.                                          *)
NoInversion == E!NoInversion
EvictedIsInterrupted == E!EvictedIsInterrupted
ReleaseFreesSlot == E!ReleaseFreesSlot
=============================================================================
