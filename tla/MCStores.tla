------------------------------ MODULE MCStores ------------------------------
(***************************************************************************)
(* The three stores and the container for TLC, side by side: which of them *)
(* a behaviour is about is chosen once, by the constructor the program     *)
(* calls.  They share the queues of waiting puts and gets.                 *)
(***************************************************************************)
EXTENDS Container, TLC

CONSTANTS Kinds, Item, Priorities, Capacities, MaxItems
ASSUME CapacitiesAreIntegers == Capacities \subseteq Int
ASSUME PrioritiesAreIntegers == Priorities \subseteq Int

VARIABLES
  kind,
  room, items, answered, accepted   \* those of a store; room is its capacity

(* Each item alone, and the NULL filter.                                   *)
OneOrAny == {{item} : item \in Item} \cup {Item}

S == INSTANCE Store WITH capacity <- room
F == INSTANCE FilterStore WITH capacity <- room, Filters <- OneOrAny
P == INSTANCE PriorityStore WITH capacity <- room

MCInit == kind \in Kinds /\ Init /\ S!Init

MCNext ==
  /\ UNCHANGED kind
  /\ \/ /\ \/ kind = "store" /\ S!Next
           \/ kind = "filter" /\ F!Next
           \/ kind = "priority" /\ P!Next
        /\ UNCHANGED <<level, fired, pc>>
     \/ kind = "container" /\ Next /\ UNCHANGED <<room, items, answered, accepted>>

MCSpec == MCInit /\ [][MCNext]_<<kind, vars, S!vars>>

Symmetry == Permutations(Event) \cup Permutations(Item)

-----------------------------------------------------------------------------
(* Properties: those of the store the behaviour is about.                  *)

(* Types, every event in use is in one place once, and the level of a      *)
(* container stays in its range while several waiters are woken in a row.  *)
TypesKept ==
  CASE kind = "store" -> S!TypeOK
    [] kind = "filter" -> F!TypeOK
    [] kind = "priority" -> P!TypeOK
    [] OTHER -> TypeOK

(* A get waits only while there is nothing to get: in a plain and in a     *)
(* priority store neither in the buffer nor in the hands of a waiting put, *)
(* in a filter store nothing that its filter accepts in the buffer.        *)
GetsWaitForItems ==
  CASE kind = "store" -> S!GetsWaitForItems
    [] kind = "filter" -> F!GetsUnmatched
    [] kind = "priority" -> P!GetsWaitForItems
    [] OTHER -> TRUE

(* No buffer is ever overfull, although a get lets a waiting put in        *)
(* without testing the capacity; in a plain and in a priority store a put  *)
(* waits only while the buffer is full.                                    *)
PutsWaitForRoom ==
  CASE kind = "store" -> S!PutsWaitForRoom
    [] kind = "filter" -> F!WithinCapacity
    [] kind = "priority" -> P!PutsWaitForRoom
    [] OTHER -> TRUE

(* The plain store: the k-th get is answered with the k-th item put.  This *)
(* is Store!ImplementsChannel for the behaviours of kind "store".          *)
ImplementsChannel ==
  /\ kind = "store" => S!Channel!Init
  /\ [][kind = "store" => S!Channel!Next]_(S!Channel!vars)

(* The priority store: every get is answered with the oldest of the most   *)
(* urgent items.  This is PriorityStore!ImplementsPriorityChannel for the  *)
(* behaviours of kind "priority".                                          *)
ImplementsPriorityChannel ==
  /\ kind = "priority" => P!Channel!Init
  /\ [][kind = "priority" => P!Channel!Next]_(P!Channel!vars)

(* The filter store: no item passes by a get that waits for it to one that *)
(* came later.                                                             *)
EarliestTaker == [][kind = "filter" => F!PassesNobody]_(F!vars)

(* The container: nobody waits who could be served, no request overtakes   *)
(* one of its kind, and two queues that wait for each other wait for ever. *)
ServedWhenPossible == kind = "container" => FirstDoesNotFit
OvertakesNobody == [][kind = "container" => ServesFirst]_vars
BlockedForEver == [][kind = "container" => StaysBlocked]_vars

(* The filter store: a plain get waits only while there is nothing to get. *)
PlainGetsWaitForItems == kind = "filter" => F!PlainGetsWaitForItems
=============================================================================
