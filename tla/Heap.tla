-------------------------------- MODULE Heap --------------------------------
(***************************************************************************)
(* The event heap of heap.c: a binary heap in an array, indexed from 0.    *)
(* One step is one iteration of a sift loop, so that the array is seen     *)
(* while the order is broken at one place; the kernel only calls between   *)
(* two operations (pc = "idle").                                           *)
(***************************************************************************)
EXTENDS Integers, FiniteSets

CONSTANTS
  Times, Priorities,
  MaxSeq,     \* bound: the number of pushes
  FirstCap    \* room of the first array, 32 in the code
ASSUME KeysAreNaturals ==
  Times \subseteq Nat /\ Priorities \subseteq Nat /\ MaxSeq \in Nat
ASSUME PrioritiesAreFinite == IsFiniteSet(Priorities)   \* int in the code
ASSUME SomeRoom == FirstCap \in Nat \ {0}

VARIABLES
  data,       \* the array, as far as it is in use
  len, cap,   \* entries in use, and room for
  next_seq,
  pc, i       \* the operation in progress and its position

vars == <<data, len, cap, next_seq, pc, i>>

heap_entry == [time : Times, priority : Priorities, seq : 0..(MaxSeq - 1)]

(* Mutant: among equals the youngest entry is the least.                   *)
entry_lt_youngest(a, b) ==
  \/ a.time < b.time
  \/ a.time = b.time /\ a.priority < b.priority
  \/ a.time = b.time /\ a.priority = b.priority /\ a.seq > b.seq

entry_lt(a, b) ==
  \/ a.time < b.time
  \/ a.time = b.time /\ a.priority < b.priority
  \/ a.time = b.time /\ a.priority = b.priority /\ a.seq < b.seq

Parent(j) == (j - 1) \div 2

Swapped(a, j, k) == [a EXCEPT ![j] = a[k], ![k] = a[j]]

Init ==
  /\ data = [j \in {} |-> 0]
  /\ len = 0 /\ cap = 0 /\ next_seq = 0
  /\ pc = "idle" /\ i = 0

(* Mutant: the array grows when it has overflowed.                         *)
IsFull_late == len > cap

IsFull == len = cap

heap_grow == cap' = IF cap = 0 THEN FirstCap ELSE 2 * cap

(* heap_push up to the sift; the caller numbers the entry.                 *)
heap_push(t, p) ==
  /\ pc = "idle"
  /\ next_seq < MaxSeq
  /\ next_seq' = next_seq + 1
  /\ IF IsFull THEN heap_grow ELSE UNCHANGED cap
  /\ data' = [j \in 0..len |->
                IF j = len THEN [time |-> t, priority |-> p, seq |-> next_seq]
                           ELSE data[j]]
  /\ pc' = "up" /\ i' = len
  /\ UNCHANGED len

(* One round of sift_up; after the last one heap_push counts the entry.    *)
sift_up ==
  /\ pc = "up"
  /\ IF i > 0 /\ entry_lt(data[i], data[Parent(i)])
     THEN /\ data' = Swapped(data, i, Parent(i))
          /\ i' = Parent(i)
          /\ UNCHANGED <<len, pc>>
     ELSE /\ len' = len + 1
          /\ pc' = "idle" /\ i' = 0
          /\ UNCHANGED data
  /\ UNCHANGED <<cap, next_seq>>

(* heap_pop up to the sift: the root is handed out, the last entry takes   *)
(* its place.                                                              *)
heap_pop ==
  /\ pc = "idle"
  /\ len > 0
  /\ len' = len - 1
  /\ data' = [j \in 0..(len - 2) |-> IF j = 0 THEN data[len - 1] ELSE data[j]]
  /\ pc' = IF len > 1 THEN "down" ELSE "idle"
  /\ i' = 0
  /\ UNCHANGED <<cap, next_seq>>

(* Mutant: the second child is overlooked when it is the last entry.       *)
Best_offByOne(j) ==
  LET better(c, b) == IF c < len - 1 /\ entry_lt(data[c], data[b]) THEN c ELSE b
  IN  better(2 * j + 2, better(2 * j + 1, j))

(* The least of position j and its children.                               *)
Best(j) ==
  LET better(c, b) == IF c < len /\ entry_lt(data[c], data[b]) THEN c ELSE b
  IN  better(2 * j + 2, better(2 * j + 1, j))

(* One round of sift_down.                                                 *)
sift_down ==
  /\ pc = "down"
  /\ IF Best(i) # i
     THEN /\ data' = Swapped(data, i, Best(i))
          /\ i' = Best(i)
          /\ UNCHANGED pc
     ELSE /\ pc' = "idle" /\ i' = 0
          /\ UNCHANGED data
  /\ UNCHANGED <<len, cap, next_seq>>

Next ==
  \/ \E t \in Times, p \in Priorities : heap_push(t, p)
  \/ heap_pop
  \/ sift_up
  \/ sift_down

Spec == Init /\ [][Next]_vars

-----------------------------------------------------------------------------
(* Properties.                                                             *)

(* Types; the array is written only where there is room.                   *)
TypeOK ==
  /\ len \in Nat /\ cap \in Nat /\ next_seq \in 0..MaxSeq
  /\ \A j \in DOMAIN data : j < cap
  /\ pc \in {"idle", "up", "down"}
  /\ data \in [0..(IF pc = "up" THEN len ELSE len - 1) -> heap_entry]
  /\ i \in Nat /\ (pc # "idle" => i \in DOMAIN data)

(* Order everywhere but at the position being sifted, whose own children   *)
(* are in order with its parent: what makes one more round enough.         *)
Broken(j) ==
  \/ pc = "up" /\ j = i
  \/ pc = "down" /\ Parent(j) = i
HeapOrder ==
  \A j \in DOMAIN data \ {0} :
    /\ ~Broken(j) => ~entry_lt(data[j], data[Parent(j)])
    /\ pc # "idle" /\ i > 0 /\ Parent(j) = i =>
         ~entry_lt(data[j], data[Parent(i)])

(* The heap implements the queue of module EventQueue, in which entries    *)
(* lie in the order of their keys and, for equal keys, of their arrival: a *)
(* push takes effect when the entry is stored, a pop when the root is      *)
(* read.  The time and priority of an entry count as one key; the kernel   *)
(* only pushes one priority, so that there the key is the time.            *)
Rank(t, p) ==
  Cardinality({k \in Times \X Priorities : k[1] < t \/ (k[1] = t /\ k[2] < p)})
Place(S, a) == Cardinality({b \in S : entry_lt(b, a)}) + 1
Listed(S) ==
  [k \in 1..Cardinality(S) |->
     LET a == CHOOSE x \in S : Place(S, x) = k
     IN  [time |-> Rank(a.time, a.priority), ev |-> a.seq]]
Contents == Listed({data[j] : j \in DOMAIN data})
Queue == INSTANCE EventQueue WITH
  queue <- Contents,
  Times <- {Rank(k[1], k[2]) : k \in Times \X Priorities}
ImplementsQueue == Queue!Spec
=============================================================================
