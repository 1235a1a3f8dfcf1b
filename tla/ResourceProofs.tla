--------------------------- MODULE ResourceProofs ---------------------------
(***************************************************************************)
(* The safety theorems of the three resources, for any capacity, requests, *)
(* priorities and processes.                                               *)
(***************************************************************************)
EXTENDS MCResources, SequenceLemmas, FiniteSetTheorems

-----------------------------------------------------------------------------
(* The life of a request event, as a relation between the line of those    *)
(* that wait, those triggered, those processed, those released early and   *)
(* the pool: everything is in one place, but for what was given up early.  *)

LifeOf(line, trig, proc, gone, pool) ==
  /\ line \in Seq(Event) /\ trig \in Seq(Event) /\ pool \in Seq(Event)
  /\ proc \subseteq Event /\ gone \subseteq Event
  /\ IsInjective(line) /\ IsInjective(trig) /\ IsInjective(pool)
  /\ ToSet(line) \cap ToSet(trig) = {}
  /\ ToSet(pool) \cap (ToSet(line) \cup ToSet(trig) \cup proc \cup gone) = {}
  /\ proc \cap (ToSet(line) \cup ToSet(trig) \cup gone) = {}

KnownOf(trig, proc, gone) == ToSet(trig) \cup proc \cup gone

(* An allocation returns an event that nobody waits for or holds           *)
(* (_sim_event_alloc).                                                     *)
LEMMA LifeAlloc ==
  ASSUME NEW l, NEW t, NEW p, NEW g, NEW q, LifeOf(l, t, p, g, q),
         NEW e \in Event, NEW r,
         IF q # <<>> THEN e = Head(q) /\ r = Tail(q)
                     ELSE e \notin KnownOf(t, p, g) \cup ToSet(l) /\ r = q
  PROVE  /\ LifeOf(l, t, p, g, r)
         /\ e \notin ToSet(l) \cup KnownOf(t, p, g) \cup ToSet(r)
<1>1. CASE q # <<>>
  <2>1. /\ Tail(q) \in Seq(Event) /\ ToSet(q) = {Head(q)} \cup ToSet(Tail(q))
        /\ IsInjective(Tail(q)) /\ Head(q) \notin ToSet(Tail(q))
    BY <1>1, TailElements DEF LifeOf
  <2> QED
    BY <1>1, <2>1 DEF LifeOf, KnownOf
<1>2. CASE q = <<>>
  BY <1>2, EmptyElements DEF LifeOf, KnownOf
<1> QED
  BY <1>1, <1>2

(* One more request in a queue of distinct ones.                           *)
LEMMA Appended ==
  ASSUME NEW s \in Seq(Event), NEW e \in Event, IsInjective(s), e \notin ToSet(s)
  PROVE  /\ Append(s, e) \in Seq(Event) /\ ToSet(Append(s, e)) = ToSet(s) \cup {e}
         /\ IsInjective(Append(s, e))
BY AppendElements

(* A new request is granted at once.                                       *)
LEMMA LifeGrantNew ==
  ASSUME NEW l, NEW t, NEW p, NEW g, NEW q, LifeOf(l, t, p, g, q),
         NEW e \in Event, e \notin ToSet(l) \cup KnownOf(t, p, g) \cup ToSet(q)
  PROVE  /\ LifeOf(l, Append(t, e), p, g, q)
         /\ KnownOf(Append(t, e), p, g) = KnownOf(t, p, g) \cup {e}
<1>1. /\ Append(t, e) \in Seq(Event) /\ ToSet(Append(t, e)) = ToSet(t) \cup {e}
      /\ IsInjective(Append(t, e))
  <2>1. t \in Seq(Event) /\ IsInjective(t) /\ e \notin ToSet(t)
    BY DEF LifeOf, KnownOf
  <2> QED
    BY <2>1, Appended
<1> QED
  BY <1>1 DEF LifeOf, KnownOf

(* A new request waits.                                                    *)
LEMMA LifeWait ==
  ASSUME NEW l, NEW t, NEW p, NEW g, NEW q, LifeOf(l, t, p, g, q),
         NEW e \in Event, e \notin ToSet(l) \cup KnownOf(t, p, g) \cup ToSet(q),
         NEW m \in Seq(Event), ToSet(m) = ToSet(l) \cup {e}, IsInjective(m)
  PROVE  LifeOf(m, t, p, g, q)
BY DEF LifeOf, KnownOf

(* The first in line is granted.                                           *)
LEMMA LifeGrantFirst ==
  ASSUME NEW l, NEW t, NEW p, NEW g, NEW q, LifeOf(l, t, p, g, q), l # <<>>
  PROVE  /\ Head(l) \in Event
         /\ ToSet(l) = {Head(l)} \cup ToSet(Tail(l)) /\ Head(l) \notin ToSet(Tail(l))
         /\ LifeOf(Tail(l), Append(t, Head(l)), p, g, q)
         /\ KnownOf(Append(t, Head(l)), p, g) = KnownOf(t, p, g) \cup {Head(l)}
         /\ Head(l) \notin ToSet(t) \cup p
<1>1. /\ Head(l) \in Event /\ Tail(l) \in Seq(Event)
      /\ ToSet(l) = {Head(l)} \cup ToSet(Tail(l))
      /\ IsInjective(Tail(l)) /\ Head(l) \notin ToSet(Tail(l))
  BY TailElements DEF LifeOf
<1>2. Head(l) \notin ToSet(t) \cup p
  BY <1>1 DEF LifeOf
<1>3. /\ Append(t, Head(l)) \in Seq(Event)
      /\ ToSet(Append(t, Head(l))) = ToSet(t) \cup {Head(l)}
      /\ IsInjective(Append(t, Head(l)))
  <2>1. t \in Seq(Event) /\ IsInjective(t)
    BY DEF LifeOf
  <2>2. Head(l) \notin ToSet(t)
    BY <1>2
  <2> QED
    BY <2>1, <2>2, <1>1, Appended, Zenon
<1> QED
  BY <1>1, <1>2, <1>3 DEF LifeOf, KnownOf

(* A request is released: a processed one goes back to the pool.           *)
LEMMA LifeRecycle ==
  ASSUME NEW l, NEW t, NEW p, NEW g, NEW q, LifeOf(l, t, p, g, q),
         NEW e \in Event, e \in ToSet(l) \cup KnownOf(t, p, g),
         NEW p1, NEW g1, NEW q1, p1 = p \ {e},
         IF e \in p THEN q1 = <<e>> \o q /\ g1 = g ELSE g1 = g \cup {e} /\ q1 = q
  PROVE  LifeOf(l, t, p1, g1, q1)
<1>1. e \notin ToSet(q)
  BY DEF LifeOf, KnownOf
<1>2. CASE e \in p
  <2>1. /\ q1 \in Seq(Event) /\ ToSet(q1) = {e} \cup ToSet(q) /\ IsInjective(q1)
    <3>1. q \in Seq(Event) /\ IsInjective(q) /\ q1 = <<e>> \o q
      BY <1>2 DEF LifeOf
    <3> QED
      BY <3>1, <1>1, PrependElements
  <2> QED
    BY <1>2, <2>1 DEF LifeOf
<1>3. CASE e \notin p
  BY <1>1, <1>3 DEF LifeOf
<1> QED
  BY <1>2, <1>3

(* The kernel processes a granted request.                                 *)
LEMMA LifeProcess ==
  ASSUME NEW l, NEW t, NEW p, NEW g, NEW q, LifeOf(l, t, p, g, q), t # <<>>
  PROVE  /\ LifeOf(l, Tail(t), p \cup ({Head(t)} \ g), g, q)
         /\ KnownOf(Tail(t), p \cup ({Head(t)} \ g), g) = KnownOf(t, p, g)
<1>1. /\ Head(t) \in Event /\ Tail(t) \in Seq(Event)
      /\ ToSet(t) = {Head(t)} \cup ToSet(Tail(t))
      /\ IsInjective(Tail(t)) /\ Head(t) \notin ToSet(Tail(t))
  BY TailElements DEF LifeOf
<1> QED
  BY <1>1 DEF LifeOf, KnownOf

-----------------------------------------------------------------------------
(* The FIFO and the priority resource keep only the number of the slots    *)
(* taken: it is that of the requests granted and not released.             *)

GrantedOf(trig, proc, gone) == (ToSet(trig) \cup proc) \ gone

CountOf(n, line, trig, proc, gone) ==
  /\ n \in 0..capacity
  /\ IsFiniteSet(GrantedOf(trig, proc, gone))
  /\ n = Cardinality(GrantedOf(trig, proc, gone))
  /\ ToSet(line) \cap gone = {}

(* A new request is granted.                                               *)
LEMMA CountGrantNew ==
  ASSUME NEW l, NEW t, NEW p, NEW g, NEW q, LifeOf(l, t, p, g, q),
         NEW n, CountOf(n, l, t, p, g), n < capacity,
         NEW e \in Event, e \notin ToSet(l) \cup KnownOf(t, p, g)
  PROVE  /\ GrantedOf(Append(t, e), p, g) = GrantedOf(t, p, g) \cup {e}
         /\ CountOf(n + 1, l, Append(t, e), p, g)
<1> DEFINE G == GrantedOf(t, p, g)
<1>1. ToSet(Append(t, e)) = ToSet(t) \cup {e}
  <2>1. t \in Seq(Event)
    BY DEF LifeOf
  <2> QED
    BY <2>1, AppendElements
<1>2. GrantedOf(Append(t, e), p, g) = G \cup {e} /\ e \notin G
  BY <1>1 DEF GrantedOf, KnownOf
<1>3. IsFiniteSet(G \cup {e}) /\ Cardinality(G \cup {e}) = n + 1
  <2>1. IsFiniteSet(G) /\ n = Cardinality(G)
    BY DEF CountOf
  <2> HIDE DEF G
  <2> QED
    BY <1>2, <2>1, FS_AddElement
<1>4. n + 1 \in 0..capacity /\ ToSet(l) \cap g = {}
  BY CapacityIsNatural DEF CountOf
<1> QED
  BY <1>2, <1>3, <1>4 DEF CountOf

(* A granted request is released (recycle).                                *)
ReleasedOf(e, trig, proc, gone, proc1, gone1) ==
  /\ e \in GrantedOf(trig, proc, gone)
  /\ proc1 = proc \ {e}
  /\ gone1 = IF e \in proc THEN gone ELSE gone \cup {e}

(* What is granted after a release (recycle).                              *)
LEMMA GrantedRecycle ==
  ASSUME NEW l, NEW t, NEW p, NEW g, NEW q, LifeOf(l, t, p, g, q),
         NEW e, NEW p1, NEW g1, ReleasedOf(e, t, p, g, p1, g1)
  PROVE  /\ GrantedOf(t, p1, g1) = GrantedOf(t, p, g) \ {e}
         /\ e \notin ToSet(l) /\ e \in Event /\ e \in KnownOf(t, p, g)
<1>1. /\ p \cap ToSet(t) = {} /\ p \cap ToSet(l) = {} /\ ToSet(l) \cap ToSet(t) = {}
      /\ p \subseteq Event /\ ToSet(t) \subseteq Event
  BY Elements DEF LifeOf
<1> QED
  BY <1>1 DEF GrantedOf, KnownOf, ReleasedOf

(* A slot is handed on to the first in line: what is granted then.         *)
LEMMA GrantedHandOn ==
  ASSUME NEW l, NEW t, NEW p, NEW g, NEW q, LifeOf(l, t, p, g, q), l # <<>>,
         NEW n, CountOf(n, l, t, p, g),
         NEW e, NEW p1, NEW g1, ReleasedOf(e, t, p, g, p1, g1)
  PROVE  /\ GrantedOf(Append(t, Head(l)), p1, g1) =
              (GrantedOf(t, p, g) \ {e}) \cup {Head(l)}
         /\ Head(l) \notin GrantedOf(t, p, g)
         /\ ToSet(Tail(l)) \cap g1 = {}
<1> DEFINE G == GrantedOf(t, p, g)
           h == Head(l)
<1>1. /\ h \in Event /\ h \in ToSet(l) /\ ToSet(Tail(l)) \subseteq ToSet(l)
      /\ h \notin ToSet(t) \cup p
  BY LifeGrantFirst
<1>2. GrantedOf(t, p1, g1) = G \ {e} /\ e \notin ToSet(l)
  <2> HIDE DEF G, h
  <2>1. GrantedOf(t, p1, g1) = GrantedOf(t, p, g) \ {e}
    BY GrantedRecycle
  <2>2. e \notin ToSet(l)
    BY GrantedRecycle
  <2> QED
    BY <2>1, <2>2 DEF G
<1>3. h # e /\ h \notin g /\ h \notin g1 /\ h \notin G
  BY <1>1, <1>2 DEF CountOf, GrantedOf, ReleasedOf
<1>4. ToSet(Append(t, h)) = ToSet(t) \cup {h}
  <2>1. t \in Seq(Event)
    BY DEF LifeOf
  <2> HIDE DEF h
  <2> QED
    BY <1>1, <2>1, AppendElements
<1> HIDE DEF h
<1>5. GrantedOf(Append(t, h), p1, g1) = (G \ {e}) \cup {h}
  BY <1>2, <1>3, <1>4 DEF GrantedOf
<1>6. ToSet(Tail(l)) \cap g1 = {}
  BY <1>1, <1>2 DEF CountOf, ReleasedOf
<1> QED
  BY <1>3, <1>5, <1>6 DEF h

(* A slot is handed on to the first in line.                               *)
LEMMA CountHandOn ==
  ASSUME NEW l, NEW t, NEW p, NEW g, NEW q, LifeOf(l, t, p, g, q), l # <<>>,
         NEW n, CountOf(n, l, t, p, g),
         NEW e, NEW p1, NEW g1, ReleasedOf(e, t, p, g, p1, g1)
  PROVE  CountOf(n, Tail(l), Append(t, Head(l)), p1, g1)
<1> DEFINE G == GrantedOf(t, p, g)
           h == Head(l)
<1>1. /\ GrantedOf(Append(t, h), p1, g1) = (G \ {e}) \cup {h}
      /\ h \notin G /\ ToSet(Tail(l)) \cap g1 = {}
  BY GrantedHandOn, Zenon
<1>2. n \in 0..capacity
  BY DEF CountOf
<1> HIDE DEF h
<1>3. IsFiniteSet((G \ {e}) \cup {h}) /\ Cardinality((G \ {e}) \cup {h}) = n
  <2>1. IsFiniteSet(G) /\ n = Cardinality(G) /\ n \in Nat /\ e \in G
    BY CapacityIsNatural DEF CountOf, ReleasedOf
  <2> HIDE DEF G
  <2>2. IsFiniteSet(G \ {e}) /\ Cardinality(G \ {e}) = n - 1
    BY <2>1, FS_RemoveElement
  <2> DEFINE D == G \ {e}
  <2>3. h \notin D
    BY <1>1
  <2>4. IsFiniteSet(D) /\ Cardinality(D) = n - 1
    BY <2>2
  <2> HIDE DEF D
  <2>5. IsFiniteSet(D \cup {h}) /\ Cardinality(D \cup {h}) = (n - 1) + 1
    BY <2>3, <2>4, FS_AddElement
  <2> QED
    BY <2>1, <2>5 DEF D
<1> QED
  BY <1>1, <1>2, <1>3 DEF CountOf, h

(* A slot becomes free.                                                    *)
LEMMA CountFree ==
  ASSUME NEW l, NEW t, NEW p, NEW g, NEW q, LifeOf(l, t, p, g, q),
         NEW n, CountOf(n, l, t, p, g),
         NEW e, NEW p1, NEW g1, ReleasedOf(e, t, p, g, p1, g1)
  PROVE  /\ GrantedOf(t, p1, g1) = GrantedOf(t, p, g) \ {e}
         /\ CountOf(n - 1, l, t, p1, g1)
<1> DEFINE G == GrantedOf(t, p, g)
<1>1. GrantedOf(t, p1, g1) = G \ {e} /\ e \notin ToSet(l)
  BY GrantedRecycle
<1>2. /\ IsFiniteSet(G \ {e}) /\ Cardinality(G \ {e}) = n - 1 /\ n - 1 \in 0..capacity
  <2>1. IsFiniteSet(G) /\ n = Cardinality(G) /\ n \in 0..capacity /\ e \in G
    BY DEF CountOf, ReleasedOf
  <2> HIDE DEF G
  <2>2. IsFiniteSet(G \ {e}) /\ Cardinality(G \ {e}) = n - 1
    BY <2>1, FS_RemoveElement
  <2>3. Cardinality(G \ {e}) \in Nat
    BY <2>2, FS_CardinalityType
  <2> QED
    BY <2>1, <2>2, <2>3, CapacityIsNatural
<1>3. ToSet(l) \cap g1 = {}
  BY <1>1 DEF CountOf, ReleasedOf
<1> QED
  BY <1>1, <1>2, <1>3 DEF CountOf

(* Processing a granted request changes nothing of that.                   *)
LEMMA GrantedProcess ==
  ASSUME NEW t \in Seq(Event), t # <<>>, NEW p, NEW g
  PROVE  GrantedOf(Tail(t), p \cup ({Head(t)} \ g), g) = GrantedOf(t, p, g)
<1>1. ToSet(t) = {Head(t)} \cup ToSet(Tail(t))
  BY TailElements
<1> QED
  BY <1>1 DEF GrantedOf

LEMMA CountProcess ==
  ASSUME NEW l, NEW t \in Seq(Event), NEW p, NEW g, t # <<>>,
         NEW n, CountOf(n, l, t, p, g)
  PROVE  CountOf(n, l, Tail(t), p \cup ({Head(t)} \ g), g)
<1>1. GrantedOf(Tail(t), p \cup ({Head(t)} \ g), g) = GrantedOf(t, p, g)
  BY GrantedProcess
<1> QED
  BY <1>1 DEF CountOf

-----------------------------------------------------------------------------
(* The inductive invariant.                                                *)

Life == LifeOf(Line, triggered, processed, early, event_pool)

SlotsCounted == CountOf(in_use, Line, triggered, processed, early)

(* What the preemptive resource keeps besides: its slots are the holders   *)
(* hs, and whoever waits in ws has a reason to.                            *)
ReasonToWait(n, hs, ws) ==
  \A w \in ToSet(ws) :
    /\ n = capacity
    /\ w.preempt => \A h \in ToSet(hs) : h.priority <= w.priority

SlotsOf(n, hs, ws) ==
  /\ n \in 0..capacity /\ n = Len(hs)
  /\ hs \in Seq(E!holder_t) /\ ws \in Seq(E!pwait_t)
  /\ IsInjective(Events(hs)) /\ IsInjective(Events(ws))
  /\ ToSet(Events(hs)) \cap ToSet(Events(ws)) = {}
  /\ SortedByPriority(ws)
  /\ ReasonToWait(n, hs, ws)

(* The evicted, and the interrupts that tell them.                         *)
EvictedOf(gone, intr) ==
  /\ gone \subseteq E!holder_t
  /\ intr \in [Proc -> Event \cup {"other", NULL}]
  /\ \A h \in gone : h.owner # NULL => intr[h.owner] # NULL

(* A request that was given up early is known in gaveUp before it is       *)
(* granted.                                                                *)
HoldersInv ==
  /\ SlotsOf(in_use, holders, waiters)
  /\ ToSet(Events(holders)) \subseteq KnownOf(triggered, processed, early)
  /\ EvictedOf(unaware, interrupt)
  /\ \A e \in ToSet(Events(holders)) \cup ToSet(Events(waiters)) :
       e \in early => e \in gaveUp

(* The variables of the preemptive resource when it is not the one.        *)
NoHolders == holders = <<>> /\ waiters = <<>> /\ unaware = {}

IInv ==
  /\ kind = "fifo" => queue \in Seq(Event)
  /\ kind = "priority" => queue \in Seq(P!pr_node) /\ SortedByPriority(queue)
  /\ Life
  /\ kind = "preemptive" => HoldersInv
  /\ kind # "preemptive" => SlotsCounted /\ NoHolders

(* The line, and what is in it.                                            *)
LEMMA LineOf ==
  /\ kind = "fifo" => Line = queue
  /\ kind = "priority" => Line = Events(queue)
  /\ kind \notin {"fifo", "priority"} => Line = Events(waiters)
BY DEF Line, EventsOf, Events

LEMMA InitIInv == MCInit => IInv
<1> SUFFICES ASSUME MCInit PROVE IInv
  OBVIOUS
<1>1. /\ queue = <<>> /\ in_use = 0 /\ triggered = <<>> /\ processed = {}
      /\ early = {} /\ event_pool = <<>> /\ holders = <<>> /\ waiters = <<>>
      /\ unaware = {} /\ interrupt = [p \in Proc |-> NULL]
  BY DEF MCInit, E!sim_preemptive_resource_create, E!Init
<1>2. Events(<<>>) = <<>>
  BY DEF Events
<1>3. Line = <<>>
  BY <1>1, <1>2, LineOf
<1>4. Life
  BY <1>1, <1>3, EmptyElements DEF Life, LifeOf
<1>5. SlotsCounted /\ NoHolders
  <2>1. GrantedOf(<<>>, {}, {}) = {}
    BY EmptyElements DEF GrantedOf
  <2> QED
    BY <1>1, <1>3, <2>1, EmptyElements, FS_EmptySet, CapacityIsNatural
    DEF SlotsCounted, CountOf, NoHolders
<1>6. HoldersInv
  <2>1. SlotsOf(in_use, holders, waiters)
    BY <1>1, <1>2, EmptyElements, CapacityIsNatural
    DEF SlotsOf, SortedByPriority, ReasonToWait
  <2>2. EvictedOf(unaware, interrupt)
    BY <1>1 DEF EvictedOf
  <2> QED
    BY <1>1, <1>2, <2>1, <2>2, EmptyElements DEF HoldersInv
<1>7. queue \in Seq(Event) /\ queue \in Seq(P!pr_node) /\ SortedByPriority(queue)
  BY <1>1 DEF SortedByPriority
<1> QED
  BY <1>4, <1>5, <1>6, <1>7 DEF IInv

-----------------------------------------------------------------------------
(* The FIFO resource and the priority resource.                            *)

LEMMA FifoRequest ==
  ASSUME NEW e, R!sim_resource_request(e)
  PROVE  /\ _sim_event_alloc(e, ToSet(queue))
         /\ IF in_use < capacity
            THEN in_use' = in_use + 1 /\ sim_event_succeed(e) /\ UNCHANGED queue
            ELSE queue' = Append(queue, e) /\ UNCHANGED <<in_use, triggered>>
BY DEF R!sim_resource_request, R!_sim_event_alloc, R!sim_event_succeed, R!HasSlot,
   R!Known, R!ToSet, _sim_event_alloc, sim_event_succeed, Known, ToSet

LEMMA FifoRelease ==
  ASSUME NEW e, R!sim_resource_release(e)
  PROVE  /\ e \in Granted /\ in_use # 0
         /\ IF queue # <<>>
            THEN queue' = Tail(queue) /\ sim_event_succeed(Head(queue)) /\ UNCHANGED in_use
            ELSE in_use' = in_use - 1 /\ UNCHANGED <<queue, triggered>>
         /\ recycle(e)
BY DEF R!sim_resource_release, R!hand_on, R!sim_event_succeed, R!recycle,
   R!Granted, R!Known, R!ToSet, sim_event_succeed, recycle, Granted, Known, ToSet

(* insert_sorted of the two modules is Placed.                             *)
LEMMA PriorityInsert ==
  ASSUME NEW S, NEW s \in Seq(S), NEW n
  PROVE  /\ P!insert_sorted(s, n) = Placed(s, n)
         /\ E!insert_sorted(s, n) = Placed(s, n)
<1> DEFINE T == {k \in 1..Len(s) : n.priority < s[k].priority}
           k == IF T # {} THEN Min(T) ELSE 0
<1>1. /\ P!insert_sorted(s, n) = IF k = 0 THEN Append(s, n) ELSE InsertAt(s, k, n)
      /\ E!insert_sorted(s, n) = IF k = 0 THEN Append(s, n) ELSE InsertAt(s, k, n)
  BY Zenon DEF P!insert_sorted, P!SelectInSeq, P!Min, P!InsertAt, E!insert_sorted,
     E!SelectInSeq, E!Min, E!InsertAt, Min, InsertAt
<1>2. T # {} => Min(T) # 0
  <2>1. T \subseteq Nat /\ 0 \notin T
    OBVIOUS
  <2> HIDE DEF T
  <2> QED
    BY <2>1, MinLeast
<1>3. Placed(s, n) = IF T = {} THEN Append(s, n) ELSE InsertAt(s, Min(T), n)
  BY Zenon DEF Placed
<1>4. CASE T = {}
  <2>1. k = 0 /\ Placed(s, n) = Append(s, n)
    BY <1>3, <1>4, Zenon
  <2> HIDE DEF k
  <2> QED
    BY <1>1, <2>1, Zenon
<1>5. CASE T # {}
  <2>1. k = Min(T) /\ k # 0 /\ Placed(s, n) = InsertAt(s, Min(T), n)
    BY <1>2, <1>3, <1>5, Zenon
  <2> HIDE DEF k, T
  <2> QED
    BY <1>1, <2>1, Zenon
<1> QED
  BY <1>4, <1>5

LEMMA PriorityRequest ==
  ASSUME NEW e, NEW p, P!sim_priority_resource_request(e, p), queue \in Seq(P!pr_node)
  PROVE  /\ _sim_event_alloc(e, ToSet(Events(queue)))
         /\ IF in_use < capacity
            THEN in_use' = in_use + 1 /\ sim_event_succeed(e) /\ UNCHANGED queue
            ELSE /\ queue' = Placed(queue, [event |-> e, priority |-> p])
                 /\ UNCHANGED <<in_use, triggered>>
BY PriorityInsert DEF P!sim_priority_resource_request, P!_sim_event_alloc,
   P!sim_event_succeed, P!EventsOf, P!Known, P!ToSet, _sim_event_alloc,
   sim_event_succeed, Known, ToSet, Events

LEMMA PriorityRelease ==
  ASSUME NEW e, P!sim_priority_resource_release(e)
  PROVE  /\ e \in Granted /\ in_use # 0
         /\ IF queue # <<>>
            THEN /\ queue' = Tail(queue) /\ sim_event_succeed(Head(queue).event)
                 /\ UNCHANGED in_use
            ELSE in_use' = in_use - 1 /\ UNCHANGED <<queue, triggered>>
         /\ recycle(e)
BY DEF P!sim_priority_resource_release, P!sim_event_succeed, P!recycle,
   P!Granted, P!Known, P!ToSet, sim_event_succeed, recycle, Granted, Known, ToSet

(* A request is allocated.                                                 *)
LEMMA Allocated ==
  ASSUME NEW l, LifeOf(l, triggered, processed, early, event_pool),
         NEW e \in Event, _sim_event_alloc(e, ToSet(l))
  PROVE  /\ processed' = processed /\ early' = early
         /\ LifeOf(l, triggered, processed, early, event_pool')
         /\ e \notin ToSet(l) \cup KnownOf(triggered, processed, early)
         /\ e \notin ToSet(event_pool')
<1>1. /\ processed' = processed /\ early' = early
      /\ IF event_pool # <<>>
         THEN e = Head(event_pool) /\ event_pool' = Tail(event_pool)
         ELSE /\ e \notin KnownOf(triggered, processed, early) \cup ToSet(l)
              /\ event_pool' = event_pool
  BY DEF _sim_event_alloc, Known, KnownOf
<1> DEFINE r == event_pool'
<1>2. IF event_pool # <<>>
      THEN e = Head(event_pool) /\ r = Tail(event_pool)
      ELSE e \notin KnownOf(triggered, processed, early) \cup ToSet(l) /\ r = event_pool
  BY <1>1
<1> HIDE DEF r
<1>3. /\ LifeOf(l, triggered, processed, early, r)
      /\ e \notin ToSet(l) \cup KnownOf(triggered, processed, early) \cup ToSet(r)
  BY <1>2, LifeAlloc
<1> QED
  BY <1>1, <1>3 DEF r

(* A request of either resource: it is granted, or joins the line.         *)
LEMMA SimpleRequest ==
  ASSUME NEW l, NEW m, LifeOf(l, triggered, processed, early, event_pool),
         CountOf(in_use, l, triggered, processed, early),
         NEW e \in Event, _sim_event_alloc(e, ToSet(l)),
         \/ in_use < capacity /\ in_use' = in_use + 1 /\ sim_event_succeed(e) /\ m = l
         \/ /\ ~(in_use < capacity) /\ UNCHANGED <<in_use, triggered>>
            /\ m \in Seq(Event) /\ ToSet(m) = ToSet(l) \cup {e}
            /\ IsInjective(l) /\ e \notin ToSet(l) => IsInjective(m)
  PROVE  /\ LifeOf(m, triggered', processed', early', event_pool')
         /\ CountOf(in_use', m, triggered', processed', early')
         /\ e \notin ToSet(l) \cup KnownOf(triggered, processed, early)
         /\ GrantedOf(triggered', processed', early') =
              IF in_use < capacity
              THEN GrantedOf(triggered, processed, early) \cup {e}
              ELSE GrantedOf(triggered, processed, early)
<1>1. processed' = processed /\ early' = early
  BY Allocated
<1>2. /\ LifeOf(l, triggered, processed, early, event_pool')
      /\ e \notin ToSet(l) \cup KnownOf(triggered, processed, early) \cup ToSet(event_pool')
  BY Allocated
<1>3. CASE in_use < capacity
  <2>1. triggered' = Append(triggered, e) /\ in_use' = in_use + 1 /\ m = l
    BY <1>3 DEF sim_event_succeed
  <2>2. LifeOf(l, Append(triggered, e), processed, early, event_pool')
    BY <1>2, LifeGrantNew
  <2>3. /\ CountOf(in_use + 1, l, Append(triggered, e), processed, early)
        /\ GrantedOf(Append(triggered, e), processed, early) =
             GrantedOf(triggered, processed, early) \cup {e}
    BY <1>2, <1>3, CountGrantNew
  <2> QED
    BY <1>1, <1>2, <1>3, <2>1, <2>2, <2>3, Zenon
<1>4. CASE ~(in_use < capacity)
  <2>1. /\ in_use' = in_use /\ triggered' = triggered
        /\ m \in Seq(Event) /\ ToSet(m) = ToSet(l) \cup {e} /\ IsInjective(m)
    BY <1>2, <1>4 DEF LifeOf
  <2>2. LifeOf(m, triggered, processed, early, event_pool')
    BY <1>2, <2>1, LifeWait, Zenon
  <2>3. CountOf(in_use, m, triggered, processed, early)
    BY <1>2, <2>1 DEF CountOf, KnownOf
  <2> QED
    BY <1>1, <1>2, <1>4, <2>1, <2>2, <2>3, Zenon
<1> QED
  BY <1>3, <1>4

(* A release of either resource: the slot goes to the first in line or is  *)
(* free.                                                                   *)
LEMMA SimpleRelease ==
  ASSUME NEW l, NEW m, LifeOf(l, triggered, processed, early, event_pool),
         CountOf(in_use, l, triggered, processed, early),
         NEW e \in Granted, recycle(e),
         \/ /\ l # <<>> /\ m = Tail(l) /\ sim_event_succeed(Head(l)) /\ UNCHANGED in_use
         \/ l = <<>> /\ m = l /\ in_use' = in_use - 1 /\ UNCHANGED triggered
  PROVE  /\ LifeOf(m, triggered', processed', early', event_pool')
         /\ CountOf(in_use', m, triggered', processed', early')
         /\ e \in GrantedOf(triggered, processed, early)
         /\ GrantedOf(triggered', processed', early') =
              IF l # <<>>
              THEN (GrantedOf(triggered, processed, early) \ {e}) \cup {Head(l)}
              ELSE GrantedOf(triggered, processed, early) \ {e}
<1>1. /\ ReleasedOf(e, triggered, processed, early, processed', early')
      /\ processed' = processed \ {e}
      /\ IF e \in processed THEN event_pool' = <<e>> \o event_pool /\ early' = early
                            ELSE early' = early \cup {e} /\ event_pool' = event_pool
      /\ e \in GrantedOf(triggered, processed, early)
  BY DEF recycle, Granted, Known, GrantedOf, ReleasedOf
<1>2. /\ e \in Event /\ e \in KnownOf(triggered, processed, early)
  <2>1. triggered \in Seq(Event) /\ processed \subseteq Event
    BY DEF LifeOf
  <2> QED
    BY <1>1, <2>1, Elements DEF GrantedOf, KnownOf
<1>3. CASE l # <<>>
  <2>1. m = Tail(l) /\ triggered' = Append(triggered, Head(l)) /\ in_use' = in_use
    BY <1>3 DEF sim_event_succeed
  <2>2. /\ LifeOf(Tail(l), Append(triggered, Head(l)), processed, early, event_pool)
        /\ KnownOf(Append(triggered, Head(l)), processed, early) =
             KnownOf(triggered, processed, early) \cup {Head(l)}
    BY <1>3, LifeGrantFirst
  <2>3. LifeOf(m, triggered', processed, early, event_pool)
        /\ KnownOf(triggered', processed, early) =
             KnownOf(triggered, processed, early) \cup {Head(l)}
    BY <2>1, <2>2, Zenon
  <2>4. LifeOf(m, triggered', processed', early', event_pool')
    BY <1>1, <1>2, <2>3, LifeRecycle
  <2>5. /\ GrantedOf(Append(triggered, Head(l)), processed', early') =
              (GrantedOf(triggered, processed, early) \ {e}) \cup {Head(l)}
        /\ CountOf(in_use, Tail(l), Append(triggered, Head(l)), processed', early')
    BY <1>1, <1>3, GrantedHandOn, CountHandOn
  <2> QED
    BY <1>1, <1>3, <2>1, <2>4, <2>5, Zenon
<1>4. CASE l = <<>>
  <2>1. m = l /\ triggered' = triggered /\ in_use' = in_use - 1
    BY <1>4
  <2>2. LifeOf(l, triggered, processed', early', event_pool')
    BY <1>1, <1>2, LifeRecycle
  <2>3. /\ GrantedOf(triggered, processed', early') =
             GrantedOf(triggered, processed, early) \ {e}
        /\ CountOf(in_use - 1, l, triggered, processed', early')
    BY <1>1, CountFree
  <2> QED
    BY <1>1, <1>4, <2>1, <2>2, <2>3, Zenon
<1> QED
  BY <1>3, <1>4

(* The kernel processes a granted request of either resource.              *)
LEMMA SimpleProcess ==
  ASSUME NEW l, LifeOf(l, triggered, processed, early, event_pool),
         CountOf(in_use, l, triggered, processed, early), process
  PROVE  /\ LifeOf(l, triggered', processed', early', event_pool')
         /\ CountOf(in_use', l, triggered', processed', early')
         /\ GrantedOf(triggered', processed', early') =
              GrantedOf(triggered, processed, early)
<1>1. /\ triggered # <<>> /\ triggered' = Tail(triggered)
      /\ processed' = processed \cup ({Head(triggered)} \ early)
      /\ in_use' = in_use /\ early' = early /\ event_pool' = event_pool
  BY DEF process
<1>2. triggered \in Seq(Event)
  BY DEF LifeOf
<1> QED
  <2>1. LifeOf(l, Tail(triggered), processed \cup ({Head(triggered)} \ early),
               early, event_pool)
    BY <1>1, LifeProcess
  <2>2. CountOf(in_use, l, Tail(triggered),
                processed \cup ({Head(triggered)} \ early), early)
    BY <1>1, <1>2, CountProcess
  <2>3. GrantedOf(Tail(triggered), processed \cup ({Head(triggered)} \ early), early)
          = GrantedOf(triggered, processed, early)
    BY <1>1, <1>2, GrantedProcess
  <2> QED
    BY <1>1, <2>1, <2>2, <2>3, Zenon

LEMMA ProcessOf ==
  /\ R!process => process
  /\ P!process => process
  /\ E!process => process
BY DEF R!process, P!process, E!process, process

(* The steps of the FIFO resource.                                         *)
LEMMA FifoHyp ==
  ASSUME IInv, kind = "fifo"
  PROVE  /\ LifeOf(queue, triggered, processed, early, event_pool)
         /\ CountOf(in_use, queue, triggered, processed, early)
         /\ NoHolders /\ queue \in Seq(Event)
BY LineOf DEF IInv, Life, SlotsCounted

LEMMA FifoRequestStep ==
  ASSUME IInv, kind = "fifo", NEW e \in Event, R!sim_resource_request(e)
  PROVE  /\ LifeOf(queue', triggered', processed', early', event_pool')
         /\ CountOf(in_use', queue', triggered', processed', early')
         /\ e \notin ToSet(queue) \cup KnownOf(triggered, processed, early)
         /\ GrantedOf(triggered', processed', early') =
              IF in_use < capacity
              THEN GrantedOf(triggered, processed, early) \cup {e}
              ELSE GrantedOf(triggered, processed, early)
         /\ queue' = IF in_use < capacity THEN queue ELSE Append(queue, e)
<1>1. /\ LifeOf(queue, triggered, processed, early, event_pool)
      /\ CountOf(in_use, queue, triggered, processed, early)
      /\ queue \in Seq(Event)
  BY FifoHyp
<1>2. \/ /\ in_use < capacity /\ in_use' = in_use + 1 /\ sim_event_succeed(e)
         /\ queue' = queue
      \/ /\ ~(in_use < capacity) /\ UNCHANGED <<in_use, triggered>>
         /\ queue' = Append(queue, e)
  BY FifoRequest
<1>3. _sim_event_alloc(e, ToSet(queue))
  BY FifoRequest
<1>4. \/ /\ in_use < capacity /\ in_use' = in_use + 1 /\ sim_event_succeed(e)
         /\ queue' = queue
      \/ /\ ~(in_use < capacity) /\ UNCHANGED <<in_use, triggered>>
         /\ queue' \in Seq(Event) /\ ToSet(queue') = ToSet(queue) \cup {e}
         /\ IsInjective(queue) /\ e \notin ToSet(queue) => IsInjective(queue')
  <2>1. /\ Append(queue, e) \in Seq(Event)
        /\ ToSet(Append(queue, e)) = ToSet(queue) \cup {e}
        /\ IsInjective(queue) /\ e \notin ToSet(queue) => IsInjective(Append(queue, e))
    BY <1>1, AppendElements
  <2> QED
    BY <1>2, <2>1, Zenon
<1>5. queue' = IF in_use < capacity THEN queue ELSE Append(queue, e)
  BY <1>2, Zenon
<1> DEFINE m == queue'
<1> HIDE DEF m
<1>6. /\ LifeOf(m, triggered', processed', early', event_pool')
      /\ CountOf(in_use', m, triggered', processed', early')
      /\ e \notin ToSet(queue) \cup KnownOf(triggered, processed, early)
      /\ GrantedOf(triggered', processed', early') =
           IF in_use < capacity
           THEN GrantedOf(triggered, processed, early) \cup {e}
           ELSE GrantedOf(triggered, processed, early)
  <2>1. \/ in_use < capacity /\ in_use' = in_use + 1 /\ sim_event_succeed(e) /\ m = queue
        \/ /\ ~(in_use < capacity) /\ UNCHANGED <<in_use, triggered>>
           /\ m \in Seq(Event) /\ ToSet(m) = ToSet(queue) \cup {e}
           /\ IsInjective(queue) /\ e \notin ToSet(queue) => IsInjective(m)
    BY <1>4, Zenon DEF m
  <2> QED
    BY <1>1, <1>3, <2>1, SimpleRequest, Zenon
<1> QED
  BY <1>5, <1>6, Zenon DEF m

LEMMA FifoReleaseStep ==
  ASSUME IInv, kind = "fifo", NEW e, R!sim_resource_release(e)
  PROVE  /\ LifeOf(queue', triggered', processed', early', event_pool')
         /\ CountOf(in_use', queue', triggered', processed', early')
         /\ e \in GrantedOf(triggered, processed, early)
         /\ GrantedOf(triggered', processed', early') =
              IF queue # <<>>
              THEN (GrantedOf(triggered, processed, early) \ {e}) \cup {Head(queue)}
              ELSE GrantedOf(triggered, processed, early) \ {e}
         /\ queue' = IF queue # <<>> THEN Tail(queue) ELSE queue
<1>1. /\ LifeOf(queue, triggered, processed, early, event_pool)
      /\ CountOf(in_use, queue, triggered, processed, early)
  BY FifoHyp
<1>2. /\ e \in Granted /\ recycle(e)
      /\ \/ /\ queue # <<>> /\ queue' = Tail(queue) /\ sim_event_succeed(Head(queue))
            /\ UNCHANGED in_use
         \/ /\ queue = <<>> /\ queue' = queue /\ in_use' = in_use - 1
            /\ UNCHANGED triggered
  BY FifoRelease
<1>3. queue' = IF queue # <<>> THEN Tail(queue) ELSE queue
  BY <1>2, Zenon
<1> DEFINE m == queue'
<1> HIDE DEF m
<1>4. /\ LifeOf(m, triggered', processed', early', event_pool')
      /\ CountOf(in_use', m, triggered', processed', early')
      /\ e \in GrantedOf(triggered, processed, early)
      /\ GrantedOf(triggered', processed', early') =
           IF queue # <<>>
           THEN (GrantedOf(triggered, processed, early) \ {e}) \cup {Head(queue)}
           ELSE GrantedOf(triggered, processed, early) \ {e}
  <2>1. \/ /\ queue # <<>> /\ m = Tail(queue) /\ sim_event_succeed(Head(queue))
           /\ UNCHANGED in_use
        \/ queue = <<>> /\ m = queue /\ in_use' = in_use - 1 /\ UNCHANGED triggered
    BY <1>2, Zenon DEF m
  <2> QED
    BY <1>1, <1>2, <2>1, SimpleRelease, Zenon
<1> QED
  BY <1>3, <1>4, Zenon DEF m

LEMMA FifoStep ==
  ASSUME IInv, kind = "fifo", UNCHANGED <<kind, preemptive>>, R!Next
  PROVE  IInv'
<1>1. /\ LifeOf(queue, triggered, processed, early, event_pool)
      /\ CountOf(in_use, queue, triggered, processed, early) /\ NoHolders
  BY FifoHyp
<1>2. ASSUME /\ LifeOf(queue', triggered', processed', early', event_pool')
             /\ CountOf(in_use', queue', triggered', processed', early')
      PROVE  IInv'
  <2>1. kind' = "fifo" /\ Line' = queue'
    BY DEF Line
  <2>2. queue' \in Seq(Event) /\ NoHolders'
    BY <1>1, <1>2 DEF LifeOf, NoHolders, preemptive
  <2> QED
    BY <1>2, <2>1, <2>2 DEF IInv, Life, SlotsCounted
<1>3. ASSUME NEW e \in Event, R!sim_resource_request(e) PROVE IInv'
  BY <1>2, <1>3, FifoRequestStep
<1>4. ASSUME NEW e \in Event, R!sim_resource_release(e) PROVE IInv'
  BY <1>2, <1>4, FifoReleaseStep
<1>5. ASSUME R!process, UNCHANGED queue PROVE IInv'
  BY <1>1, <1>2, <1>5, ProcessOf, SimpleProcess
<1> QED
  BY <1>3, <1>4, <1>5 DEF R!Next

-----------------------------------------------------------------------------
(* The priority resource: the line in the order of the queue.              *)

(* One more in a sorted line of requests.                                  *)
LEMMA PlacedEvents ==
  ASSUME NEW S, NEW s \in Seq(S), NEW n \in S,
         \A x \in S : x.priority \in Int /\ x.event \in Event
  PROVE  /\ Placed(s, n) \in Seq(S) /\ ToSet(Placed(s, n)) = ToSet(s) \cup {n}
         /\ Events(Placed(s, n)) \in Seq(Event)
         /\ ToSet(Events(Placed(s, n))) = ToSet(Events(s)) \cup {n.event}
         /\ IsInjective(Events(s)) /\ n.event \notin ToSet(Events(s)) =>
              IsInjective(Events(Placed(s, n)))
<1>1. /\ n.event \in Event /\ Events(s) \in Seq(Event) /\ Len(Events(s)) = Len(s)
      /\ Len(s) \in Nat
  BY EventsPositions, EventsType
<1>2. CASE Placed(s, n) = Append(s, n)
  <2>1. /\ Append(s, n) \in Seq(S) /\ ToSet(Append(s, n)) = ToSet(s) \cup {n}
    BY AppendElements
  <2>2. Events(Append(s, n)) = Append(Events(s), n.event)
    BY EventsAppend
  <2>3. /\ Append(Events(s), n.event) \in Seq(Event)
        /\ ToSet(Append(Events(s), n.event)) = ToSet(Events(s)) \cup {n.event}
        /\ IsInjective(Append(Events(s), n.event)) <=>
             IsInjective(Events(s)) /\ n.event \notin ToSet(Events(s))
    <3> HIDE DEF Events
    <3> QED
      BY <1>1, AppendElements
  <2> QED
    BY <1>2, <2>1, <2>2, <2>3, Zenon
<1>3. ASSUME NEW k \in 1..Len(s), Placed(s, n) = InsertAt(s, k, n)
      PROVE  /\ Placed(s, n) \in Seq(S) /\ ToSet(Placed(s, n)) = ToSet(s) \cup {n}
             /\ Events(Placed(s, n)) \in Seq(Event)
             /\ ToSet(Events(Placed(s, n))) = ToSet(Events(s)) \cup {n.event}
             /\ IsInjective(Events(s)) /\ n.event \notin ToSet(Events(s)) =>
                  IsInjective(Events(Placed(s, n)))
  <2>1. k \in 1..(Len(s) + 1) /\ k \in 1..(Len(Events(s)) + 1)
    BY <1>1
  <2>2. /\ InsertAt(s, k, n) \in Seq(S) /\ ToSet(InsertAt(s, k, n)) = ToSet(s) \cup {n}
    BY <2>1, InsertElements
  <2>3. Events(InsertAt(s, k, n)) = InsertAt(Events(s), k, n.event)
    BY <2>1, EventsInsert
  <2> DEFINE a == InsertAt(Events(s), k, n.event)
  <2>4. /\ a \in Seq(Event) /\ ToSet(a) = ToSet(Events(s)) \cup {n.event}
        /\ IsInjective(a) <=> IsInjective(Events(s)) /\ n.event \notin ToSet(Events(s))
    <3> DEFINE d == Events(s)
               v == n.event
    <3>1. /\ d \in Seq(Event) /\ v \in Event /\ k \in 1..(Len(d) + 1)
          /\ a = InsertAt(d, k, v)
      BY <1>1, <2>1
    <3> HIDE DEF a, d, v
    <3>2. /\ a \in Seq(Event) /\ ToSet(a) = ToSet(d) \cup {v}
          /\ IsInjective(a) <=> IsInjective(d) /\ v \notin ToSet(d)
      BY <3>1, InsertElements
    <3> QED
      BY <3>2 DEF d, v
  <2> QED
    BY <1>3, <2>2, <2>3, <2>4, Zenon
<1> QED
  BY <1>2, <1>3, PlacedSorted

(* The steps of the priority resource.                                     *)
LEMMA PriorityHyp ==
  ASSUME IInv, kind = "priority"
  PROVE  /\ LifeOf(Events(queue), triggered, processed, early, event_pool)
         /\ CountOf(in_use, Events(queue), triggered, processed, early)
         /\ NoHolders /\ queue \in Seq(P!pr_node) /\ SortedByPriority(queue)
         /\ \A x \in P!pr_node : /\ x.priority \in Priorities /\ x.priority \in Int
                                 /\ x.event \in Event
<1>1. \A x \in P!pr_node : /\ x.priority \in Priorities /\ x.priority \in Int
                           /\ x.event \in Event
  BY PrioritiesAreIntegers DEF P!pr_node
<1> QED
  BY <1>1, LineOf DEF IInv, Life, SlotsCounted

LEMMA PriorityRequestStep ==
  ASSUME IInv, kind = "priority", NEW e \in Event, NEW p \in Priorities,
         P!sim_priority_resource_request(e, p)
  PROVE  /\ LifeOf(Events(queue)', triggered', processed', early', event_pool')
         /\ CountOf(in_use', Events(queue)', triggered', processed', early')
         /\ queue' \in Seq(P!pr_node) /\ SortedByPriority(queue')
         /\ e \notin ToSet(Events(queue)) \cup KnownOf(triggered, processed, early)
         /\ GrantedOf(triggered', processed', early') =
              IF in_use < capacity
              THEN GrantedOf(triggered, processed, early) \cup {e}
              ELSE GrantedOf(triggered, processed, early)
         /\ queue' = IF in_use < capacity
                     THEN queue ELSE Placed(queue, [event |-> e, priority |-> p])
<1> DEFINE n == [event |-> e, priority |-> p]
<1>1. /\ LifeOf(Events(queue), triggered, processed, early, event_pool)
      /\ CountOf(in_use, Events(queue), triggered, processed, early)
      /\ queue \in Seq(P!pr_node) /\ SortedByPriority(queue)
      /\ \A x \in P!pr_node : x.priority \in Int /\ x.event \in Event
  BY PriorityHyp
<1>2. \/ /\ in_use < capacity /\ in_use' = in_use + 1 /\ sim_event_succeed(e)
         /\ queue' = queue
      \/ /\ ~(in_use < capacity) /\ UNCHANGED <<in_use, triggered>>
         /\ queue' = Placed(queue, n)
  BY <1>1, PriorityRequest
<1>3. _sim_event_alloc(e, ToSet(Events(queue)))
  BY <1>1, PriorityRequest
<1>4. n \in P!pr_node /\ n.event = e
  BY DEF P!pr_node
<1> HIDE DEF n
<1>5. /\ Placed(queue, n) \in Seq(P!pr_node)
      /\ Events(Placed(queue, n)) \in Seq(Event)
      /\ ToSet(Events(Placed(queue, n))) = ToSet(Events(queue)) \cup {e}
      /\ IsInjective(Events(queue)) /\ e \notin ToSet(Events(queue)) =>
           IsInjective(Events(Placed(queue, n)))
  BY <1>1, <1>4, PlacedEvents
<1>6. \/ /\ in_use < capacity /\ in_use' = in_use + 1 /\ sim_event_succeed(e)
         /\ Events(queue)' = Events(queue)
      \/ /\ ~(in_use < capacity) /\ UNCHANGED <<in_use, triggered>>
         /\ Events(queue)' \in Seq(Event)
         /\ ToSet(Events(queue)') = ToSet(Events(queue)) \cup {e}
         /\ IsInjective(Events(queue)) /\ e \notin ToSet(Events(queue)) =>
              IsInjective(Events(queue)')
  BY <1>2, <1>5, Zenon
<1>7. queue' \in Seq(P!pr_node) /\ SortedByPriority(queue')
  <2>1. SortedByPriority(Placed(queue, n))
    BY <1>1, <1>4, PlacedSorted
  <2> QED
    BY <1>1, <1>2, <1>5, <2>1, Zenon
<1>8. /\ LifeOf(Events(queue)', triggered', processed', early', event_pool')
      /\ CountOf(in_use', Events(queue)', triggered', processed', early')
      /\ e \notin ToSet(Events(queue)) \cup KnownOf(triggered, processed, early)
      /\ GrantedOf(triggered', processed', early') =
           IF in_use < capacity
           THEN GrantedOf(triggered, processed, early) \cup {e}
           ELSE GrantedOf(triggered, processed, early)
  BY <1>1, <1>3, <1>6, SimpleRequest, Zenon
<1>9. queue' = IF in_use < capacity THEN queue ELSE Placed(queue, n)
  BY <1>2, Zenon
<1> QED
  BY <1>7, <1>8, <1>9, Zenon DEF n

LEMMA PriorityReleaseStep ==
  ASSUME IInv, kind = "priority", NEW e, P!sim_priority_resource_release(e)
  PROVE  /\ LifeOf(Events(queue)', triggered', processed', early', event_pool')
         /\ CountOf(in_use', Events(queue)', triggered', processed', early')
         /\ queue' \in Seq(P!pr_node) /\ SortedByPriority(queue')
         /\ e \in GrantedOf(triggered, processed, early)
         /\ GrantedOf(triggered', processed', early') =
              IF queue # <<>>
              THEN (GrantedOf(triggered, processed, early) \ {e}) \cup {Head(queue).event}
              ELSE GrantedOf(triggered, processed, early) \ {e}
         /\ queue' = IF queue # <<>> THEN Tail(queue) ELSE queue
<1>1. /\ LifeOf(Events(queue), triggered, processed, early, event_pool)
      /\ CountOf(in_use, Events(queue), triggered, processed, early)
      /\ queue \in Seq(P!pr_node) /\ SortedByPriority(queue)
  BY PriorityHyp
<1>2. /\ e \in Granted /\ recycle(e)
      /\ \/ /\ queue # <<>> /\ queue' = Tail(queue) /\ sim_event_succeed(Head(queue).event)
            /\ UNCHANGED in_use
         \/ /\ queue = <<>> /\ queue' = queue /\ in_use' = in_use - 1
            /\ UNCHANGED triggered
  BY PriorityRelease
<1>3. queue # <<>> =>
        /\ Tail(queue) \in Seq(P!pr_node) /\ Events(queue) # <<>>
        /\ Head(Events(queue)) = Head(queue).event
        /\ Events(Tail(queue)) = Tail(Events(queue))
        /\ SortedByPriority(Tail(queue))
  BY <1>1, EventsTail, SortedTail
<1>4. queue = <<>> => Events(queue) = <<>>
  BY DEF Events
<1>5. /\ \/ /\ Events(queue) # <<>> /\ Events(queue)' = Tail(Events(queue))
            /\ sim_event_succeed(Head(Events(queue))) /\ UNCHANGED in_use
         \/ /\ Events(queue) = <<>> /\ Events(queue)' = Events(queue)
            /\ in_use' = in_use - 1 /\ UNCHANGED triggered
      /\ queue' \in Seq(P!pr_node) /\ SortedByPriority(queue')
  BY <1>1, <1>2, <1>3, <1>4, Zenon
<1>6. /\ LifeOf(Events(queue)', triggered', processed', early', event_pool')
      /\ CountOf(in_use', Events(queue)', triggered', processed', early')
      /\ e \in GrantedOf(triggered, processed, early)
      /\ GrantedOf(triggered', processed', early') =
           IF Events(queue) # <<>>
           THEN (GrantedOf(triggered, processed, early) \ {e}) \cup {Head(Events(queue))}
           ELSE GrantedOf(triggered, processed, early) \ {e}
  BY <1>1, <1>2, <1>5, SimpleRelease, Zenon
<1>7. queue' = IF queue # <<>> THEN Tail(queue) ELSE queue
  BY <1>2, Zenon
<1> QED
  BY <1>3, <1>4, <1>5, <1>6, <1>7, Zenon

LEMMA PriorityStep ==
  ASSUME IInv, kind = "priority", UNCHANGED <<kind, preemptive>>, P!Next
  PROVE  IInv'
<1>1. ASSUME /\ LifeOf(Events(queue)', triggered', processed', early', event_pool')
             /\ CountOf(in_use', Events(queue)', triggered', processed', early')
             /\ queue' \in Seq(P!pr_node) /\ SortedByPriority(queue')
      PROVE  IInv'
  <2>1. kind' = "priority" /\ Line' = Events(queue)'
    BY DEF Line, EventsOf, Events
  <2>2. NoHolders'
    BY PriorityHyp DEF NoHolders, preemptive
  <2> QED
    BY <1>1, <2>1, <2>2 DEF IInv, Life, SlotsCounted
<1>2. ASSUME P!process, UNCHANGED queue PROVE IInv'
  <2>1. Events(queue)' = Events(queue)
    BY <1>2
  <2> QED
    BY <1>1, <1>2, <2>1, PriorityHyp, ProcessOf, SimpleProcess
<1> QED
  BY <1>1, <1>2, PriorityRequestStep, PriorityReleaseStep DEF P!Next

-----------------------------------------------------------------------------
(* The preemptive resource.                                                *)

HolderOf(n) == [event |-> n.event, owner |-> n.owner, priority |-> n.priority]

(* add_holder.                                                             *)
WithHolder(n, others) == <<HolderOf(n)>> \o others

LEMMA ListTypes ==
  /\ \A x \in E!holder_t : x.priority \in Int /\ x.event \in Event
  /\ \A x \in E!pwait_t : /\ x.priority \in Int /\ x.event \in Event
                          /\ HolderOf(x) \in E!holder_t
                          /\ HolderOf(x).event = x.event
                          /\ HolderOf(x).priority = x.priority
BY PrioritiesAreIntegers DEF E!holder_t, E!pwait_t, HolderOf

(* A new holder in front of others that stay (add_holder).                 *)
LEMMA HolderAdded ==
  ASSUME NEW hs \in Seq(E!holder_t), NEW x \in E!pwait_t,
         IsInjective(Events(hs)), x.event \notin ToSet(Events(hs)),
         NEW a, a = WithHolder(x, hs)
  PROVE  /\ a \in Seq(E!holder_t) /\ Len(a) = Len(hs) + 1
         /\ ToSet(a) = {HolderOf(x)} \cup ToSet(hs)
         /\ ToSet(Events(a)) = {x.event} \cup ToSet(Events(hs))
         /\ IsInjective(Events(a))
<1>1. HolderOf(x) \in E!holder_t /\ HolderOf(x).event = x.event
  BY ListTypes
<1> DEFINE h == HolderOf(x)
           o == <<h>>
<1>2. o \in Seq(E!holder_t) /\ Events(o) = <<x.event>>
  BY <1>1 DEF Events
<1>3. a \in Seq(E!holder_t) /\ Len(a) = Len(hs) + 1 /\ ToSet(a) = {h} \cup ToSet(hs)
  <2>1. /\ o \o hs \in Seq(E!holder_t) /\ Len(o \o hs) = Len(hs) + 1
        /\ ToSet(o \o hs) = {h} \cup ToSet(hs)
    BY <1>1, PrependElements
  <2> QED
    BY <2>1, Zenon DEF WithHolder
<1>5. Events(a) = <<x.event>> \o Events(hs)
  <2> HIDE DEF o
  <2>1. Events(o \o hs) = Events(o) \o Events(hs)
    BY <1>2, EventsConcat
  <2>2. a = o \o hs
    BY DEF o, WithHolder
  <2> QED
    BY <1>2, <2>1, <2>2, Zenon
<1>6. Events(hs) \in Seq(Event) /\ x.event \in Event
  BY ListTypes, EventsType
<1> DEFINE d == Events(hs)
           e == x.event
<1> HIDE DEF d
<1>7. /\ ToSet(<<e>> \o d) = {e} \cup ToSet(d)
      /\ IsInjective(<<e>> \o d)
  <2> HIDE DEF e
  <2>1. d \in Seq(Event) /\ e \in Event /\ IsInjective(d) /\ e \notin ToSet(d)
    BY <1>6 DEF d, e
  <2> QED
    BY <2>1, PrependElements
<1> QED
  BY <1>3, <1>5, <1>7, Zenon DEF d

(* A holder leaves.                                                        *)
LEMMA HolderLeft ==
  ASSUME NEW hs \in Seq(E!holder_t), IsInjective(Events(hs)),
         NEW k \in 1..Len(hs), NEW a, a = RemoveAt(hs, k)
  PROVE  /\ a \in Seq(E!holder_t) /\ Len(a) = Len(hs) - 1 /\ Len(hs) \in Nat
         /\ hs[k] \in ToSet(hs) /\ hs[k] \in E!holder_t
         /\ ToSet(a) \subseteq ToSet(hs)
         /\ ToSet(Events(hs)) = ToSet(Events(a)) \cup {hs[k].event}
         /\ hs[k].event \notin ToSet(Events(a))
         /\ IsInjective(Events(a))
<1>1. /\ a \in Seq(E!holder_t) /\ Len(a) = Len(hs) - 1 /\ hs[k] \in E!holder_t
      /\ ToSet(hs) = ToSet(a) \cup {hs[k]}
  BY RemoveElements
<1>2. /\ Events(hs) \in Seq(Event) /\ Len(Events(hs)) = Len(hs) /\ Len(hs) \in Nat
      /\ Events(hs)[k] = hs[k].event
  BY ListTypes, EventsType, EventsPositions
<1>3. Events(RemoveAt(hs, k)) = RemoveAt(Events(hs), k)
  BY EventsRemove
<1> DEFINE b == Events(a)
           d == Events(hs)
<1>4. b = RemoveAt(d, k) /\ k \in 1..Len(d) /\ d \in Seq(Event)
  BY <1>2, <1>3, Zenon
<1>5. /\ ToSet(d) = ToSet(b) \cup {d[k]}
      /\ IsInjective(d) <=> IsInjective(b) /\ d[k] \notin ToSet(b)
  <2> HIDE DEF b, d
  <2> QED
    BY <1>4, RemoveElements
<1>6. IsInjective(d) /\ d[k] = hs[k].event
  BY <1>2
<1> HIDE DEF b, d
<1>7. /\ ToSet(d) = ToSet(b) \cup {hs[k].event}
      /\ IsInjective(b) /\ hs[k].event \notin ToSet(b)
  BY <1>5, <1>6
<1> QED
  BY <1>1, <1>2, <1>7 DEF b, d

(* A request is granted a free slot (Grant).                               *)
LEMMA SlotsGrant ==
  ASSUME NEW n, NEW hs, NEW ws, SlotsOf(n, hs, ws), n < capacity,
         NEW x \in E!pwait_t, x.event \notin ToSet(Events(hs)) \cup ToSet(Events(ws)),
         NEW a, a = WithHolder(x, hs)
  PROVE  /\ SlotsOf(n + 1, a, ws)
         /\ ToSet(Events(a)) = {x.event} \cup ToSet(Events(hs))
<1>1. /\ a \in Seq(E!holder_t) /\ Len(a) = Len(hs) + 1
      /\ ToSet(Events(a)) = {x.event} \cup ToSet(Events(hs)) /\ IsInjective(Events(a))
  BY HolderAdded DEF SlotsOf
<1>2. ToSet(ws) = {}
  BY CapacityIsNatural DEF SlotsOf, ReasonToWait
<1>3. n + 1 \in 0..capacity
  BY CapacityIsNatural DEF SlotsOf
<1> QED
  BY <1>1, <1>2, <1>3 DEF SlotsOf, ReasonToWait

(* A holder leaves, and the head of the line follows (a release).          *)
LEMMA SlotsHandOn ==
  ASSUME NEW n, NEW hs, NEW ws, SlotsOf(n, hs, ws), ws # <<>>, NEW k \in 1..Len(hs),
         NEW b, b = RemoveAt(hs, k), NEW a, a = WithHolder(Head(ws), b)
  PROVE  /\ SlotsOf(n, a, Tail(ws)) /\ n > 0
         /\ ToSet(Events(a)) =
              (ToSet(Events(hs)) \ {hs[k].event}) \cup {Head(ws).event}
         /\ hs[k].event \in ToSet(Events(hs))
<1>t. hs \in Seq(E!holder_t) /\ ws \in Seq(E!pwait_t) /\ IsInjective(Events(hs))
  BY DEF SlotsOf
<1>1. /\ b \in Seq(E!holder_t) /\ Len(b) = Len(hs) - 1 /\ Len(hs) \in Nat
      /\ ToSet(b) \subseteq ToSet(hs)
      /\ ToSet(Events(hs)) = ToSet(Events(b)) \cup {hs[k].event}
      /\ hs[k].event \notin ToSet(Events(b)) /\ IsInjective(Events(b))
  BY <1>t, HolderLeft
<1> DEFINE x == Head(ws)
<1>2. /\ x \in E!pwait_t /\ Tail(ws) \in Seq(E!pwait_t)
      /\ Events(ws) # <<>> /\ Head(Events(ws)) = x.event
      /\ Events(Tail(ws)) = Tail(Events(ws)) /\ Events(ws) \in Seq(Event)
  BY <1>t, EventsTail, EventsType, ListTypes
<1>3. x.event \in ToSet(Events(ws)) /\ ToSet(Events(Tail(ws))) \subseteq ToSet(Events(ws))
  <2>1. ToSet(Events(ws)) = {Head(Events(ws))} \cup ToSet(Tail(Events(ws)))
    BY <1>2, TailElements
  <2> QED
    BY <1>2, <2>1
<1>4. ToSet(ws) = {x} \cup ToSet(Tail(ws))
  BY <1>t, TailElements
<1>5. x.event \notin ToSet(Events(b))
  BY <1>1, <1>3 DEF SlotsOf
<1>6. /\ a \in Seq(E!holder_t) /\ Len(a) = Len(b) + 1
      /\ ToSet(a) = {HolderOf(x)} \cup ToSet(b)
      /\ ToSet(Events(a)) = {x.event} \cup ToSet(Events(b)) /\ IsInjective(Events(a))
  <2> HIDE DEF x
  <2>1. a = WithHolder(x, b)
    BY DEF x
  <2> QED
    BY <1>1, <1>2, <1>5, <2>1, HolderAdded
<1>7. ToSet(Events(a)) \cap ToSet(Events(Tail(ws))) = {}
  <2>1. x.event \notin ToSet(Events(Tail(ws)))
    <3> DEFINE d == Events(ws)
    <3>1. IsInjective(d) /\ d \in Seq(Event) /\ d # <<>>
      BY <1>2 DEF SlotsOf
    <3>2. Head(d) = x.event /\ Tail(d) = Events(Tail(ws))
      BY <1>2, Zenon
    <3> HIDE DEF d
    <3>3. Head(d) \notin ToSet(Tail(d))
      BY <3>1, TailElements
    <3> QED
      BY <3>2, <3>3, Zenon
  <2> QED
    BY <1>1, <1>3, <1>6, <2>1 DEF SlotsOf
<1>8. ReasonToWait(n, a, Tail(ws)) /\ SortedByPriority(Tail(ws))
  <2>1. /\ SortedByPriority(Tail(ws))
        /\ \A w \in ToSet(Tail(ws)) : x.priority <= w.priority
    BY <1>t, SortedTail DEF SlotsOf
  <2>2. HolderOf(x).priority = x.priority
    BY <1>2, ListTypes
  <2>3. \A w \in ToSet(ws) :
          /\ n = capacity
          /\ w.preempt => \A h \in ToSet(hs) : h.priority <= w.priority
    BY DEF SlotsOf, ReasonToWait
  <2> HIDE DEF x
  <2>4. ASSUME NEW w \in ToSet(Tail(ws)), w.preempt, NEW h \in ToSet(a)
        PROVE  h.priority <= w.priority
    <3>1. h = HolderOf(x) \/ h \in ToSet(hs)
      BY <1>1, <1>6
    <3>2. w \in ToSet(ws)
      BY <1>4
    <3>3. CASE h = HolderOf(x)
      BY <2>1, <2>2, <3>3
    <3>4. CASE h \in ToSet(hs)
      BY <2>3, <2>4, <3>2, <3>4, Zenon
    <3> QED
      BY <3>1, <3>3, <3>4
  <2>6. \A w \in ToSet(Tail(ws)) : w \in ToSet(ws)
    BY <1>4
  <2>5. \A w \in ToSet(Tail(ws)) : n = capacity
    BY <2>3, <2>6, Zenon
  <2> QED
    BY <2>1, <2>4, <2>5, Zenon DEF ReasonToWait
<1>9. n \in 0..capacity /\ Len(a) = n /\ n > 0
  BY <1>1, <1>6 DEF SlotsOf
<1>10. IsInjective(Events(Tail(ws)))
  <2> DEFINE d == Events(ws)
  <2>1. IsInjective(d) /\ d \in Seq(Event) /\ d # <<>>
    BY <1>2 DEF SlotsOf
  <2>2. Tail(d) = Events(Tail(ws))
    BY <1>2, Zenon
  <2> HIDE DEF d
  <2>3. IsInjective(Tail(d))
    BY <2>1, TailElements
  <2> QED
    BY <2>2, <2>3, Zenon
<1>11. SlotsOf(n, a, Tail(ws))
  BY <1>2, <1>6, <1>7, <1>8, <1>9, <1>10 DEF SlotsOf
<1>12. ToSet(Events(a)) = (ToSet(Events(hs)) \ {hs[k].event}) \cup {Head(ws).event}
  BY <1>1, <1>6
<1> QED
  BY <1>1, <1>9, <1>11, <1>12


(* A holder leaves, and nobody waits (a release).                          *)
LEMMA SlotsFree ==
  ASSUME NEW n, NEW hs, NEW ws, SlotsOf(n, hs, ws), ws = <<>>, NEW k \in 1..Len(hs),
         NEW b, b = RemoveAt(hs, k)
  PROVE  /\ SlotsOf(n - 1, b, ws)
         /\ ToSet(Events(b)) = ToSet(Events(hs)) \ {hs[k].event}
         /\ hs[k].event \in ToSet(Events(hs))
<1>1. /\ b \in Seq(E!holder_t) /\ Len(b) = Len(hs) - 1 /\ Len(hs) \in Nat
      /\ ToSet(Events(hs)) = ToSet(Events(b)) \cup {hs[k].event}
      /\ hs[k].event \notin ToSet(Events(b)) /\ IsInjective(Events(b))
  <2>1. hs \in Seq(E!holder_t) /\ IsInjective(Events(hs))
    BY DEF SlotsOf
  <2> QED
    BY <2>1, HolderLeft
<1>2. n - 1 \in 0..capacity /\ Len(b) = n - 1
  <2>1. n \in 0..capacity /\ n = Len(hs) /\ k \in 1..Len(hs)
    BY DEF SlotsOf
  <2> QED
    BY <1>1, <2>1, CapacityIsNatural
<1>3. ReasonToWait(n - 1, b, ws)
  BY EmptyElements DEF ReasonToWait
<1> QED
  BY <1>1, <1>2, <1>3 DEF SlotsOf

(* The least urgent holder is evicted by a more urgent request (Evict).    *)
LEMMA SlotsEvict ==
  ASSUME NEW n, NEW hs, NEW ws, SlotsOf(n, hs, ws), hs # <<>>,
         NEW x \in E!pwait_t, x.event \notin ToSet(Events(hs)) \cup ToSet(Events(ws)),
         hs[find_weakest(hs)].priority > x.priority,
         NEW b, b = RemoveAt(hs, find_weakest(hs)), NEW a, a = WithHolder(x, b)
  PROVE  /\ SlotsOf(n, a, ws)
         /\ ToSet(Events(a)) \subseteq {x.event} \cup ToSet(Events(hs))
         /\ hs[find_weakest(hs)] \in E!holder_t
<1> DEFINE k == find_weakest(hs)
<1>t. /\ hs \in Seq(E!holder_t) /\ IsInjective(Events(hs))
      /\ \A y \in E!holder_t : y.priority \in Int
  BY ListTypes DEF SlotsOf
<1>k. k \in 1..Len(hs) /\ \A g \in ToSet(hs) : g.priority <= hs[k].priority
  BY <1>t, WeakestFound
<1> HIDE DEF k
<1>1. /\ b \in Seq(E!holder_t) /\ Len(b) = Len(hs) - 1 /\ Len(hs) \in Nat
      /\ hs[k] \in ToSet(hs) /\ hs[k] \in E!holder_t /\ ToSet(b) \subseteq ToSet(hs)
      /\ ToSet(Events(hs)) = ToSet(Events(b)) \cup {hs[k].event}
      /\ IsInjective(Events(b))
  <2>1. b = RemoveAt(hs, k)
    BY DEF k
  <2> QED
    BY <1>t, <1>k, <2>1, HolderLeft
<1>2. /\ a \in Seq(E!holder_t) /\ Len(a) = Len(b) + 1
      /\ ToSet(a) = {HolderOf(x)} \cup ToSet(b)
      /\ ToSet(Events(a)) = {x.event} \cup ToSet(Events(b)) /\ IsInjective(Events(a))
  <2>1. x.event \notin ToSet(Events(b))
    BY <1>1
  <2> QED
    BY <1>1, <2>1, HolderAdded
<1>3. ReasonToWait(n, a, ws)
  <2>1. ASSUME NEW w \in ToSet(ws), w.preempt, NEW h \in ToSet(a)
        PROVE  h.priority <= w.priority
    <3>1. \A g \in ToSet(hs) : g.priority <= w.priority
      BY <2>1 DEF SlotsOf, ReasonToWait
    <3>2. h = HolderOf(x) \/ h \in ToSet(hs)
      BY <1>1, <1>2
    <3>3. CASE h = HolderOf(x)
      <4>1. /\ h.priority = x.priority /\ x.priority \in Int
            /\ hs[k].priority \in Int /\ hs[k].priority > x.priority
            /\ hs[k].priority <= w.priority
        BY <1>1, <3>1, <3>3, ListTypes DEF k
      <4>2. w.priority \in Int
        <5>1. ws \in Seq(E!pwait_t)
          BY DEF SlotsOf
        <5> QED
          BY <5>1, Elements, ListTypes
      <4> QED
        BY <4>1, <4>2
    <3> QED
      BY <3>1, <3>2, <3>3
  <2> QED
    BY <2>1 DEF SlotsOf, ReasonToWait
<1>4. n \in 0..capacity /\ Len(a) = n
  BY <1>1, <1>2 DEF SlotsOf
<1>5. ToSet(Events(a)) \cap ToSet(Events(ws)) = {}
  BY <1>1, <1>2 DEF SlotsOf
<1> QED
  BY <1>1, <1>2, <1>3, <1>4, <1>5 DEF SlotsOf, k

(* A request waits (Wait).                                                 *)
LEMMA SlotsWait ==
  ASSUME NEW n, NEW hs, NEW ws, SlotsOf(n, hs, ws), ~(n < capacity),
         NEW x \in E!pwait_t, x.event \notin ToSet(Events(hs)) \cup ToSet(Events(ws)),
         ~(x.preempt /\ hs # <<>> /\ hs[find_weakest(hs)].priority > x.priority),
         NEW a, a = Placed(ws, x)
  PROVE  /\ SlotsOf(n, hs, a)
         /\ ToSet(Events(a)) = ToSet(Events(ws)) \cup {x.event}
         /\ Events(a) \in Seq(Event) /\ IsInjective(Events(a))
<1>t. /\ hs \in Seq(E!holder_t) /\ ws \in Seq(E!pwait_t) /\ IsInjective(Events(ws))
      /\ SortedByPriority(ws)
      /\ \A y \in E!holder_t : y.priority \in Int
      /\ \A y \in E!pwait_t : y.priority \in Int /\ y.event \in Event
  BY ListTypes DEF SlotsOf
<1>1. /\ Placed(ws, x) \in Seq(E!pwait_t) /\ ToSet(Placed(ws, x)) = ToSet(ws) \cup {x}
      /\ Events(Placed(ws, x)) \in Seq(Event)
      /\ ToSet(Events(Placed(ws, x))) = ToSet(Events(ws)) \cup {x.event}
      /\ IsInjective(Events(Placed(ws, x)))
  BY <1>t, PlacedEvents
<1>2. SortedByPriority(Placed(ws, x))
  BY <1>t, PlacedSorted
<1>3. n = capacity
  BY CapacityIsNatural DEF SlotsOf
<1>4. x.preempt => \A h \in ToSet(hs) : h.priority <= x.priority
  <2>1. ASSUME x.preempt, NEW h \in ToSet(hs) PROVE h.priority <= x.priority
    <3>1. hs # <<>>
      BY EmptyElements
    <3>2. /\ find_weakest(hs) \in 1..Len(hs)
          /\ h.priority <= hs[find_weakest(hs)].priority
      BY <1>t, <3>1, WeakestFound
    <3> DEFINE k == find_weakest(hs)
    <3>3. ~(hs[k].priority > x.priority)
      BY <2>1, <3>1
    <3> HIDE DEF k
    <3>4. hs[k] \in E!holder_t /\ h \in E!holder_t
      BY <1>t, <3>2, Elements DEF k
    <3>5. hs[k].priority \in Int /\ h.priority \in Int /\ x.priority \in Int
      BY <1>t, <3>4
    <3>6. h.priority <= hs[k].priority
      BY <3>2 DEF k
    <3> QED
      BY <3>3, <3>5, <3>6
  <2> QED
    BY <2>1
<1>5. ReasonToWait(n, hs, a)
  BY <1>1, <1>3, <1>4 DEF ReasonToWait, SlotsOf
<1> QED
  BY <1>1, <1>2, <1>5 DEF SlotsOf


-----------------------------------------------------------------------------
(* The operations of the preemptive resource.                              *)

LEMMA SameSearches ==
  /\ \A s : E!find_weakest(s) = find_weakest(s)
  /\ \A s, k : E!RemoveAt(s, k) = RemoveAt(s, k)
  /\ \A s : E!ToSet(s) = ToSet(s)
  /\ \A s : E!EventsOf(s) = Events(s)
<1>1. \A s : E!ToSet(s) = ToSet(s)
  BY DEF E!ToSet, ToSet
<1>2. \A s : E!find_weakest(s) = find_weakest(s)
  BY Zenon DEF E!find_weakest, find_weakest, E!SelectInSeq, SelectInSeq, E!Min, Min,
     E!ToSet, ToSet
<1>3. \A s, k : E!RemoveAt(s, k) = RemoveAt(s, k)
  BY Zenon DEF E!RemoveAt, RemoveAt
<1>4. \A s : E!EventsOf(s) = Events(s)
  BY Zenon DEF E!EventsOf, Events
<1> QED
  BY <1>1, <1>2, <1>3, <1>4, Zenon

LEMMA PreemptiveRequest ==
  ASSUME NEW n, E!sim_preemptive_resource_request(n), waiters \in Seq(E!pwait_t)
  PROVE  /\ _sim_event_alloc(n.event, ToSet(Events(waiters))) /\ gaveUp' = gaveUp
         /\ LET k == find_weakest(holders) IN
            \/ /\ in_use < capacity /\ in_use' = in_use + 1
               /\ holders' = WithHolder(n, holders) /\ sim_event_succeed(n.event)
               /\ UNCHANGED <<waiters, interrupt, unaware>>
            \/ /\ holders # <<>> /\ holders[k].priority > n.priority
               /\ holders' = WithHolder(n, RemoveAt(holders, k))
               /\ sim_event_succeed(n.event)
               /\ E!sim_process_interrupt(holders[k].owner, n.event)
               /\ unaware' = unaware \cup {holders[k]}
               /\ UNCHANGED <<in_use, waiters>>
            \/ /\ in_use >= capacity
               /\ ~(n.preempt /\ holders # <<>> /\ holders[k].priority > n.priority)
               /\ waiters' = Placed(waiters, n)
               /\ UNCHANGED <<in_use, holders, triggered, interrupt, unaware>>
<1>1. /\ _sim_event_alloc(n.event, ToSet(Events(waiters))) /\ gaveUp' = gaveUp
  BY SameSearches DEF E!sim_preemptive_resource_request, E!_sim_event_alloc, E!Known,
     _sim_event_alloc, Known
<1>2. CASE E!Grant(n)
  BY <1>1, <1>2 DEF E!Grant, E!add_holder, E!sim_event_succeed, sim_event_succeed,
     WithHolder, HolderOf
<1>3. CASE E!Evict(n)
  BY <1>1, <1>3, SameSearches, Zenon DEF E!Evict, E!CanEvict, E!Weakest, E!vowner,
     E!add_holder, E!sim_event_succeed, sim_event_succeed, WithHolder, HolderOf
<1>4. CASE E!Wait(n)
  BY <1>1, <1>4, SameSearches, PriorityInsert, Zenon DEF E!Wait, E!CanEvict, E!Weakest
<1> QED
  BY <1>2, <1>3, <1>4 DEF E!sim_preemptive_resource_request

LEMMA PreemptiveRelease ==
  ASSUME NEW e, E!sim_preemptive_resource_release(e)
  PROVE  LET k == SelectInSeq(holders, LAMBDA h : h.event = e)
             held == e \in ToSet(Events(holders))
             left == IF held THEN RemoveAt(holders, k) ELSE holders
             used == IF held THEN in_use - 1 ELSE in_use
         IN  /\ e \in (KnownOf(triggered, processed, early) \cup ToSet(Events(waiters)))
                        \ early
             /\ recycle(e) /\ UNCHANGED interrupt
             /\ unaware' = {h \in unaware : h.event # e}
             /\ gaveUp' = gaveUp \cup (ToSet(Events(waiters)) \cap {e})
             /\ IF used < capacity /\ waiters # <<>>
                THEN /\ waiters' = Tail(waiters)
                     /\ holders' = WithHolder(Head(waiters), left)
                     /\ sim_event_succeed(Head(waiters).event)
                     /\ in_use' = used + 1
                ELSE /\ holders' = left /\ in_use' = used
                     /\ UNCHANGED <<waiters, triggered>>
<1> DEFINE k == SelectInSeq(holders, LAMBDA h : h.event = e)
           held == e \in ToSet(Events(holders))
           left == IF held THEN RemoveAt(holders, k) ELSE holders
           used == IF held THEN in_use - 1 ELSE in_use
<1>1. /\ e \in (E!Known \cup E!ToSet(E!EventsOf(waiters))) \ early
      /\ E!recycle(e) /\ UNCHANGED interrupt
      /\ unaware' = {h \in unaware : h.event # e}
      /\ gaveUp' = gaveUp \cup (E!ToSet(E!EventsOf(waiters)) \cap {e})
  BY DEF E!sim_preemptive_resource_release
<1>6. E!SelectInSeq(holders, LAMBDA h : h.event = e) = k
  BY Zenon DEF E!SelectInSeq, SelectInSeq, E!Min, Min
<1>7. /\ E!ToSet(E!EventsOf(waiters)) = ToSet(Events(waiters))
      /\ E!ToSet(E!EventsOf(holders)) = ToSet(Events(holders))
  BY SameSearches, Zenon
<1>8. E!RemoveAt(holders, k) = RemoveAt(holders, k)
  BY SameSearches, Zenon
<1>2. /\ E!ToSet(E!EventsOf(waiters)) = ToSet(Events(waiters))
      /\ E!ToSet(E!EventsOf(holders)) = ToSet(Events(holders))
      /\ E!SelectInSeq(holders, LAMBDA h : h.event = e) = k
      /\ E!RemoveAt(holders, k) = RemoveAt(holders, k)
  BY <1>6, <1>7, <1>8
<1>3. E!Known = KnownOf(triggered, processed, early)
  BY SameSearches DEF E!Known, KnownOf
<1>4. recycle(e)
  BY <1>1 DEF E!recycle, recycle
<1>5. IF used < capacity /\ waiters # <<>>
      THEN /\ waiters' = Tail(waiters)
           /\ holders' = WithHolder(Head(waiters), left)
           /\ sim_event_succeed(Head(waiters).event)
           /\ in_use' = used + 1
      ELSE /\ holders' = left /\ in_use' = used
           /\ UNCHANGED <<waiters, triggered>>
  <2> HIDE DEF k
  <2> QED
    BY <1>2, Zenon DEF E!sim_preemptive_resource_release, E!Holds, E!add_holder,
       E!sim_event_succeed, sim_event_succeed, WithHolder, HolderOf
<1> QED
  BY <1>1, <1>2, <1>3, <1>4, <1>5, Zenon


(* An interrupt is pending for the process it was sent to, if any, and for *)
(* all those before.                                                       *)
LEMMA InterruptPending ==
  ASSUME EvictedOf(unaware, interrupt), NEW p \in Proc \cup {NULL},
         NEW c \in Event \cup {"other"}, E!sim_process_interrupt(p, c)
  PROVE  /\ EvictedOf(unaware, interrupt')
         /\ p # NULL => interrupt'[p] # NULL
<1>1. interrupt \in [Proc -> Event \cup {"other", NULL}] /\ c # NULL
  BY NullIsNoCause DEF EvictedOf
<1>2. CASE p = NULL \/ interrupt[p] # NULL
  <2>1. interrupt' = interrupt
    BY <1>2 DEF E!sim_process_interrupt
  <2> QED
    BY <1>2, <2>1
<1>3. CASE p # NULL /\ interrupt[p] = NULL
  <2>1. interrupt' = [interrupt EXCEPT ![p] = c] /\ p \in Proc
    BY <1>3 DEF E!sim_process_interrupt
  <2>2. /\ interrupt' \in [Proc -> Event \cup {"other", NULL}]
        /\ \A q \in Proc : interrupt[q] # NULL => interrupt'[q] # NULL
        /\ interrupt'[p] # NULL
    BY <1>1, <2>1
  <2>3. \A h \in unaware : h.owner # NULL => h.owner \in Proc
    BY DEF EvictedOf, E!holder_t
  <2> QED
    BY <2>2, <2>3 DEF EvictedOf
<1> QED
  BY <1>2, <1>3

(* What is left to show of a step.                                         *)
LEMMA PreemptiveGoal ==
  ASSUME kind = "preemptive", UNCHANGED kind,
         LifeOf(Events(waiters)', triggered', processed', early', event_pool'),
         SlotsOf(in_use', holders', waiters'),
         ToSet(Events(holders)') \subseteq KnownOf(triggered', processed', early'),
         EvictedOf(unaware', interrupt'),
         \A e \in ToSet(Events(holders)') \cup ToSet(Events(waiters)') :
           e \in early' => e \in gaveUp'
  PROVE  IInv'
<1>1. kind' = "preemptive" /\ Line' = Events(waiters)'
  BY DEF Line, EventsOf, Events
<1> QED
  BY <1>1 DEF IInv, Life, HoldersInv

LEMMA PreemptiveHyp ==
  ASSUME IInv, kind = "preemptive"
  PROVE  /\ LifeOf(Events(waiters), triggered, processed, early, event_pool)
         /\ HoldersInv
         /\ holders \in Seq(E!holder_t) /\ waiters \in Seq(E!pwait_t)
BY LineOf DEF IInv, Life, HoldersInv, SlotsOf

LEMMA PreemptiveRequestStep ==
  ASSUME IInv, kind = "preemptive", UNCHANGED <<kind, queue>>,
         NEW n \in E!pwait_t, E!sim_preemptive_resource_request(n)
  PROVE  IInv'
<1>1. /\ LifeOf(Events(waiters), triggered, processed, early, event_pool)
      /\ HoldersInv /\ holders \in Seq(E!holder_t) /\ waiters \in Seq(E!pwait_t)
  BY PreemptiveHyp
<1>n. n.event \in Event /\ n \in E!pwait_t
  BY ListTypes
<1>2. _sim_event_alloc(n.event, ToSet(Events(waiters))) /\ gaveUp' = gaveUp
  BY <1>1, PreemptiveRequest
<1>3. /\ processed' = processed /\ early' = early
      /\ LifeOf(Events(waiters), triggered, processed, early, event_pool')
      /\ n.event \notin ToSet(Events(waiters)) \cup KnownOf(triggered, processed, early)
      /\ n.event \notin ToSet(event_pool')
  BY <1>1, <1>n, <1>2, Allocated
<1>4. n.event \notin ToSet(Events(holders)) \cup ToSet(Events(waiters)) /\ n.event \notin early
  BY <1>1, <1>3 DEF HoldersInv, KnownOf
<1>5. sim_event_succeed(n.event) =>
        /\ LifeOf(Events(waiters), triggered', processed', early', event_pool')
        /\ KnownOf(triggered', processed', early') =
             KnownOf(triggered, processed, early) \cup {n.event}
  <2>1. /\ LifeOf(Events(waiters), Append(triggered, n.event), processed, early, event_pool')
        /\ KnownOf(Append(triggered, n.event), processed, early) =
             KnownOf(triggered, processed, early) \cup {n.event}
    <3> DEFINE e == n.event
    <3> HIDE DEF e
    <3>1. /\ LifeOf(Events(waiters), Append(triggered, e), processed, early, event_pool')
          /\ KnownOf(Append(triggered, e), processed, early) =
               KnownOf(triggered, processed, early) \cup {e}
      BY <1>3, <1>n, LifeGrantNew DEF e
    <3> QED
      BY <3>1 DEF e
  <2> QED
    BY <1>3, <2>1, Zenon DEF sim_event_succeed
<1> DEFINE k == find_weakest(holders)
<1>6. CASE /\ in_use < capacity /\ in_use' = in_use + 1
           /\ holders' = WithHolder(n, holders) /\ sim_event_succeed(n.event)
           /\ UNCHANGED <<waiters, interrupt, unaware>>
  <2>1. /\ SlotsOf(in_use', holders', waiters')
        /\ ToSet(Events(holders)') = {n.event} \cup ToSet(Events(holders))
    <3> DEFINE a == holders'
    <3>1. a = WithHolder(n, holders) /\ in_use' = in_use + 1 /\ waiters' = waiters
      BY <1>6
    <3> HIDE DEF a
    <3>2. /\ SlotsOf(in_use + 1, a, waiters)
          /\ ToSet(Events(a)) = {n.event} \cup ToSet(Events(holders))
      BY <1>1, <1>4, <1>6, <3>1, SlotsGrant DEF HoldersInv
    <3> QED
      BY <3>1, <3>2, Zenon DEF a
  <2>2. Events(waiters)' = Events(waiters) /\ UNCHANGED <<interrupt, unaware>>
    BY <1>6
  <2> QED
    BY <1>1, <1>2, <1>3, <1>4, <1>5, <1>6, <2>1, <2>2, PreemptiveGoal DEF HoldersInv
<1>7. CASE /\ holders # <<>> /\ holders[k].priority > n.priority
           /\ holders' = WithHolder(n, RemoveAt(holders, k))
           /\ sim_event_succeed(n.event)
           /\ E!sim_process_interrupt(holders[k].owner, n.event)
           /\ unaware' = unaware \cup {holders[k]}
           /\ UNCHANGED <<in_use, waiters>>
  <2>1. /\ SlotsOf(in_use', holders', waiters')
        /\ ToSet(Events(holders)') \subseteq {n.event} \cup ToSet(Events(holders))
        /\ holders[k] \in E!holder_t
    <3> DEFINE a == holders'
               b == RemoveAt(holders, k)
    <3>1. a = WithHolder(n, b) /\ in_use' = in_use /\ waiters' = waiters
      BY <1>7
    <3>2. b = RemoveAt(holders, k)
      OBVIOUS
    <3>3. SlotsOf(in_use, holders, waiters)
      BY <1>1 DEF HoldersInv
    <3> HIDE DEF a, b
    <3>4. /\ SlotsOf(in_use, a, waiters)
          /\ ToSet(Events(a)) \subseteq {n.event} \cup ToSet(Events(holders))
          /\ holders[k] \in E!holder_t
      BY <1>4, <1>7, <3>1, <3>2, <3>3, SlotsEvict
    <3> QED
      BY <3>1, <3>4, Zenon DEF a
  <2>2. Events(waiters)' = Events(waiters)
    BY <1>7
  <2> DEFINE v == holders[k]
  <2>3. EvictedOf(unaware', interrupt')
    <3>1. v \in E!holder_t /\ v.owner \in Proc \cup {NULL}
      BY <2>1 DEF E!holder_t
    <3>2. E!sim_process_interrupt(v.owner, n.event) /\ unaware' = unaware \cup {v}
      BY <1>7
    <3> HIDE DEF v
    <3>3. EvictedOf(unaware, interrupt') /\ (v.owner # NULL => interrupt'[v.owner] # NULL)
      BY <1>1, <1>n, <3>1, <3>2, InterruptPending DEF HoldersInv
    <3> QED
      BY <3>1, <3>2, <3>3 DEF EvictedOf
  <2> QED
    BY <1>1, <1>2, <1>3, <1>4, <1>5, <1>7, <2>1, <2>2, <2>3, PreemptiveGoal DEF HoldersInv
<1>8. CASE /\ in_use >= capacity
           /\ ~(n.preempt /\ holders # <<>> /\ holders[k].priority > n.priority)
           /\ waiters' = Placed(waiters, n)
           /\ UNCHANGED <<in_use, holders, triggered, interrupt, unaware>>
  <2> DEFINE a == waiters'
  <2>1. a = Placed(waiters, n) /\ in_use' = in_use /\ holders' = holders
    BY <1>8
  <2>2. ~(in_use < capacity) /\ SlotsOf(in_use, holders, waiters)
    BY <1>1, <1>8, CapacityIsNatural DEF HoldersInv, SlotsOf
  <2> HIDE DEF a
  <2>3. /\ SlotsOf(in_use, holders, a)
        /\ ToSet(Events(a)) = ToSet(Events(waiters)) \cup {n.event}
        /\ Events(a) \in Seq(Event) /\ IsInjective(Events(a))
    BY <1>4, <1>8, <2>1, <2>2, SlotsWait
  <2>4. LifeOf(Events(a), triggered, processed, early, event_pool')
    BY <1>n, <1>3, <2>3, LifeWait
  <2>5. /\ SlotsOf(in_use', holders', waiters')
        /\ ToSet(Events(waiters)') = ToSet(Events(waiters)) \cup {n.event}
        /\ LifeOf(Events(waiters)', triggered', processed', early', event_pool')
    BY <1>3, <1>8, <2>1, <2>3, <2>4, Zenon DEF a
  <2>6. Events(holders)' = Events(holders) /\ UNCHANGED <<triggered, interrupt, unaware>>
    BY <1>8
  <2> QED
    BY <1>1, <1>2, <1>3, <1>4, <2>5, <2>6, PreemptiveGoal DEF HoldersInv
<1> QED
  BY <1>1, <1>6, <1>7, <1>8, PreemptiveRequest


LEMMA PreemptiveReleaseStep ==
  ASSUME IInv, kind = "preemptive", UNCHANGED <<kind, queue>>,
         NEW e, E!sim_preemptive_resource_release(e)
  PROVE  IInv'
<1> DEFINE l == Events(waiters)
           k == SelectInSeq(holders, LAMBDA h : h.event = e)
           held == e \in ToSet(Events(holders))
           left == IF held THEN RemoveAt(holders, k) ELSE holders
           used == IF held THEN in_use - 1 ELSE in_use
<1>1. /\ LifeOf(l, triggered, processed, early, event_pool)
      /\ HoldersInv /\ SlotsOf(in_use, holders, waiters)
      /\ holders \in Seq(E!holder_t) /\ waiters \in Seq(E!pwait_t)
  BY PreemptiveHyp DEF HoldersInv
<1>2. /\ e \in (KnownOf(triggered, processed, early) \cup ToSet(l)) \ early
      /\ recycle(e) /\ UNCHANGED interrupt
      /\ unaware' = {h \in unaware : h.event # e}
      /\ gaveUp' = gaveUp \cup (ToSet(l) \cap {e})
      /\ IF used < capacity /\ waiters # <<>>
         THEN /\ waiters' = Tail(waiters)
              /\ holders' = WithHolder(Head(waiters), left)
              /\ sim_event_succeed(Head(waiters).event)
              /\ in_use' = used + 1
         ELSE /\ holders' = left /\ in_use' = used
              /\ UNCHANGED <<waiters, triggered>>
  BY PreemptiveRelease, Zenon
<1>3. held => k \in 1..Len(holders) /\ holders[k].event = e
  BY <1>1, HolderFound
<1> HIDE DEF k
<1>4. e \in Event
  BY <1>1, <1>2, Elements DEF LifeOf, KnownOf
<1>5. /\ processed' = processed \ {e}
      /\ IF e \in processed THEN event_pool' = <<e>> \o event_pool /\ early' = early
                            ELSE early' = early \cup {e} /\ event_pool' = event_pool
  BY <1>2 DEF recycle
<1>6. EvictedOf(unaware', interrupt')
  BY <1>1, <1>2 DEF HoldersInv, EvictedOf
(* Nobody waits for a slot that is free already.                           *)
<1>7. ~held => ~(used < capacity /\ waiters # <<>>)
  <2>1. ASSUME ~held, used < capacity, waiters # <<>> PROVE FALSE
    <3>1. in_use < capacity /\ Head(waiters) \in ToSet(waiters)
      BY <1>1, <2>1, TailElements
    <3> QED
      BY <1>1, <3>1, CapacityIsNatural DEF SlotsOf, ReasonToWait
  <2> QED
    BY <2>1
(* What is early then.                                                     *)
<1>8. \A x : x \in early' => x \in early \/ x = e
  BY <1>5
<1>9. CASE held /\ waiters # <<>>
  <2> DEFINE x == Head(waiters)
  <2>1. used < capacity
    BY <1>1, <1>9, CapacityIsNatural DEF SlotsOf
  <2>2. /\ waiters' = Tail(waiters) /\ holders' = WithHolder(x, RemoveAt(holders, k))
        /\ sim_event_succeed(x.event) /\ in_use' = in_use
    BY <1>1, <1>2, <1>9, <2>1 DEF SlotsOf
  <2>3. /\ SlotsOf(in_use', holders', waiters')
        /\ ToSet(Events(holders)') = (ToSet(Events(holders)) \ {e}) \cup {x.event}
    <3> DEFINE a == holders'
               b == RemoveAt(holders, k)
    <3>1. /\ a = WithHolder(Head(waiters), b) /\ b = RemoveAt(holders, k)
          /\ k \in 1..Len(holders) /\ holders[k].event = e /\ waiters # <<>>
      BY <1>3, <1>9, <2>2
    <3>2. waiters' = Tail(waiters) /\ in_use' = in_use
      BY <2>2
    <3> HIDE DEF a, b, x
    <3>3. /\ SlotsOf(in_use, a, Tail(waiters))
          /\ ToSet(Events(a)) =
               (ToSet(Events(holders)) \ {holders[k].event}) \cup {Head(waiters).event}
      BY <1>1, <3>1, SlotsHandOn
    <3> QED
      BY <3>1, <3>2, <3>3, Zenon DEF a, x
  <2>4. /\ Events(waiters) # <<>> /\ Head(l) = x.event
        /\ Events(waiters)' = Tail(l)
    BY <1>1, <1>9, <2>2, EventsTail
  <2>5. /\ LifeOf(Tail(l), Append(triggered, Head(l)), processed, early, event_pool)
        /\ KnownOf(Append(triggered, Head(l)), processed, early) =
             KnownOf(triggered, processed, early) \cup {Head(l)}
        /\ ToSet(l) = {Head(l)} \cup ToSet(Tail(l))
    <3>1. l # <<>> /\ LifeOf(l, triggered, processed, early, event_pool)
      BY <1>1, <2>4
    <3> HIDE DEF l
    <3> QED
      BY <3>1, LifeGrantFirst
  <2>6. /\ LifeOf(Events(waiters)', triggered', processed, early, event_pool)
        /\ KnownOf(triggered', processed, early) =
             KnownOf(triggered, processed, early) \cup {x.event}
        /\ ToSet(l) = {x.event} \cup ToSet(Events(waiters)')
    BY <2>2, <2>4, <2>5, Zenon DEF sim_event_succeed
  <2>7. LifeOf(Events(waiters)', triggered', processed', early', event_pool')
    BY <1>2, <1>4, <1>5, <2>6, LifeRecycle
  <2>8. ToSet(Events(holders)') \subseteq KnownOf(triggered', processed', early')
    <3>1. x.event # e
      BY <1>1, <1>9, <2>6 DEF SlotsOf
    <3>2. \A y : y \in KnownOf(triggered', processed, early) /\ y # e =>
                 y \in KnownOf(triggered', processed', early')
      BY <1>5 DEF KnownOf
    <3> QED
      BY <1>1, <2>3, <2>6, <3>1, <3>2 DEF HoldersInv
  <2>9. \A y \in ToSet(Events(holders)') \cup ToSet(Events(waiters)') :
          y \in early' => y \in gaveUp'
    <3>1. e \notin ToSet(l)
      BY <1>1, <1>9 DEF SlotsOf
    <3> QED
      BY <1>1, <1>2, <1>8, <2>3, <2>6, <3>1 DEF HoldersInv
  <2> QED
    BY <1>6, <2>3, <2>7, <2>8, <2>9, PreemptiveGoal
<1>10. CASE held /\ waiters = <<>>
  <2>1. /\ waiters' = waiters /\ holders' = RemoveAt(holders, k)
        /\ in_use' = in_use - 1 /\ triggered' = triggered
    BY <1>2, <1>10
  <2>2. /\ SlotsOf(in_use', holders', waiters')
        /\ ToSet(Events(holders)') = ToSet(Events(holders)) \ {e}
    <3> DEFINE b == holders'
    <3>1. /\ b = RemoveAt(holders, k) /\ waiters' = waiters /\ in_use' = in_use - 1
          /\ k \in 1..Len(holders) /\ holders[k].event = e /\ waiters = <<>>
      BY <1>3, <1>10, <2>1
    <3> HIDE DEF b
    <3>2. /\ SlotsOf(in_use - 1, b, waiters)
          /\ ToSet(Events(b)) = ToSet(Events(holders)) \ {holders[k].event}
      BY <1>1, <3>1, SlotsFree
    <3> QED
      BY <3>1, <3>2, Zenon DEF b
  <2>3. /\ Events(waiters)' = Events(waiters)
        /\ LifeOf(Events(waiters), triggered, processed', early', event_pool')
    BY <1>1, <1>2, <1>4, <1>5, <2>1, LifeRecycle
  <2>4. \A y : y \in KnownOf(triggered, processed, early) /\ y # e =>
               y \in KnownOf(triggered', processed', early')
    BY <1>5, <2>1 DEF KnownOf
  <2>5. e \notin ToSet(l)
    BY <1>1, <1>10 DEF SlotsOf
  <2> QED
    BY <1>1, <1>2, <1>6, <1>8, <2>1, <2>2, <2>3, <2>4, <2>5, PreemptiveGoal
    DEF HoldersInv
<1>11. CASE ~held
  <2>1. /\ waiters' = waiters /\ holders' = holders
        /\ in_use' = in_use /\ triggered' = triggered
    BY <1>2, <1>7, <1>11
  <2>2. /\ Events(waiters)' = Events(waiters) /\ Events(holders)' = Events(holders)
        /\ LifeOf(Events(waiters), triggered, processed', early', event_pool')
    BY <1>1, <1>2, <1>4, <1>5, <2>1, LifeRecycle
  <2>3. \A y : y \in KnownOf(triggered, processed, early) /\ y # e =>
               y \in KnownOf(triggered', processed', early')
    BY <1>5, <2>1 DEF KnownOf
  <2> QED
    BY <1>1, <1>2, <1>6, <1>8, <1>11, <2>1, <2>2, <2>3, PreemptiveGoal DEF HoldersInv
<1> QED
  BY <1>9, <1>10, <1>11

(* The rest: another interrupt, its delivery, and the kernel.              *)
LEMMA PreemptiveOtherStep ==
  ASSUME IInv, kind = "preemptive", UNCHANGED <<kind, queue>>,
         \/ \E p \in Proc : E!interrupt_other(p) \/ E!sim_yield_return(p)
         \/ E!process /\ UNCHANGED <<E!lists, interrupt, unaware, gaveUp>>
  PROVE  IInv'
<1>1. /\ LifeOf(Events(waiters), triggered, processed, early, event_pool)
      /\ HoldersInv
  BY PreemptiveHyp
<1>2. ASSUME /\ UNCHANGED <<in_use, events, holders, waiters, gaveUp>>
             /\ EvictedOf(unaware', interrupt')
      PROVE  IInv'
  <2>1. /\ Events(waiters)' = Events(waiters) /\ Events(holders)' = Events(holders)
        /\ UNCHANGED <<in_use, holders, waiters, gaveUp,
                       triggered, processed, early, event_pool>>
    BY <1>2 DEF events
  <2> QED
    BY <1>1, <1>2, <2>1, PreemptiveGoal DEF HoldersInv
<1>3. ASSUME NEW p \in Proc, E!interrupt_other(p) PROVE IInv'
  <2>1. /\ UNCHANGED <<in_use, events, holders, waiters, gaveUp, unaware>>
        /\ E!sim_process_interrupt(p, "other")
    BY <1>3 DEF E!interrupt_other, E!events, events, E!lists
  <2>2. EvictedOf(unaware, interrupt')
    BY <1>1, <2>1, InterruptPending DEF HoldersInv
  <2> QED
    BY <1>2, <2>1, <2>2
<1>4. ASSUME NEW p \in Proc, E!sim_yield_return(p) PROVE IInv'
  <2>1. /\ UNCHANGED <<in_use, events, holders, waiters, gaveUp>>
        /\ interrupt' = [interrupt EXCEPT ![p] = NULL]
        /\ unaware' = {h \in unaware : h.owner # p}
    BY <1>4 DEF E!sim_yield_return, E!events, events, E!lists
  <2>2. EvictedOf(unaware', interrupt')
    <3>1. EvictedOf(unaware, interrupt)
      BY <1>1 DEF HoldersInv
    <3>2. interrupt' \in [Proc -> Event \cup {"other", NULL}]
      BY <2>1, <3>1 DEF EvictedOf
    <3>3. ASSUME NEW h \in unaware', h.owner # NULL PROVE interrupt'[h.owner] # NULL
      <4>1. h \in unaware /\ h.owner # p /\ h.owner \in Proc
        BY <2>1, <3>1, <3>3 DEF EvictedOf, E!holder_t
      <4>2. interrupt'[h.owner] = interrupt[h.owner]
        BY <2>1, <3>1, <4>1 DEF EvictedOf
      <4> QED
        BY <3>1, <3>3, <4>1, <4>2 DEF EvictedOf
    <3> QED
      BY <2>1, <3>1, <3>2, <3>3 DEF EvictedOf
  <2> QED
    BY <1>2, <2>1, <2>2
<1>5. ASSUME E!process, UNCHANGED <<E!lists, interrupt, unaware, gaveUp>> PROVE IInv'
  <2>1. /\ triggered # <<>> /\ triggered' = Tail(triggered)
        /\ processed' = processed \cup ({Head(triggered)} \ early)
        /\ UNCHANGED <<in_use, early, event_pool, holders, waiters, interrupt, unaware,
                       gaveUp>>
    BY <1>5 DEF E!process, E!lists
  <2>2. /\ LifeOf(Events(waiters), Tail(triggered),
                  processed \cup ({Head(triggered)} \ early), early, event_pool)
        /\ KnownOf(Tail(triggered), processed \cup ({Head(triggered)} \ early), early)
             = KnownOf(triggered, processed, early)
    BY <1>1, <2>1, LifeProcess
  <2>3. /\ Events(waiters)' = Events(waiters) /\ Events(holders)' = Events(holders)
        /\ LifeOf(Events(waiters)', triggered', processed', early', event_pool')
        /\ KnownOf(triggered', processed', early') = KnownOf(triggered, processed, early)
    BY <2>1, <2>2, Zenon
  <2> QED
    BY <1>1, <2>1, <2>3, PreemptiveGoal DEF HoldersInv
<1> QED
  BY <1>3, <1>4, <1>5


-----------------------------------------------------------------------------
(* The theorems.                                                           *)

vars == <<kind, queue, in_use, events, preemptive>>

LEMMA NextIInv == IInv /\ [MCNext]_vars => IInv'
<1> SUFFICES ASSUME IInv, [MCNext]_vars PROVE IInv'
  OBVIOUS
<1>1. CASE kind = "fifo" /\ R!Next /\ UNCHANGED preemptive /\ UNCHANGED kind
  BY <1>1, FifoStep
<1>2. CASE kind = "priority" /\ P!Next /\ UNCHANGED preemptive /\ UNCHANGED kind
  BY <1>2, PriorityStep
<1>3. CASE kind = "preemptive" /\ E!Next /\ UNCHANGED queue /\ UNCHANGED kind
  BY <1>3, PreemptiveRequestStep, PreemptiveReleaseStep, PreemptiveOtherStep DEF E!Next
<1>4. CASE UNCHANGED vars
  <2>1. UNCHANGED <<kind, queue, in_use, triggered, processed, early, event_pool,
                    holders, waiters, interrupt, unaware, gaveUp>>
    BY <1>4 DEF vars, events, preemptive
  <2>2. Line' = Line
    BY <2>1 DEF Line, EventsOf
  <2>3. Life' = Life /\ SlotsCounted' = SlotsCounted
    BY <2>1, <2>2, Zenon DEF Life, SlotsCounted
  <2>4. HoldersInv' = HoldersInv /\ NoHolders' = NoHolders
    BY <2>1, Zenon DEF HoldersInv, NoHolders
  <2> QED
    BY <2>1, <2>3, <2>4, Zenon DEF IInv
<1> QED
  BY <1>1, <1>2, <1>3, <1>4 DEF MCNext

LEMMA Inductive == MCSpec => []IInv
BY InitIInv, NextIInv, PTL DEF MCSpec, vars

(* The fields of every resource keep their types, and no more slots are    *)
(* taken than there are.                                                   *)
THEOREM Typing == MCSpec => []TypeOK
<1>1. IInv => TypeOK
  BY DEF IInv, TypeOK, Life, LifeOf, SlotsCounted, CountOf, HoldersInv, SlotsOf
<1> QED
  BY <1>1, Inductive, PTL

(* A request that the release calls have put back in the event pool is in  *)
(* it once, and nobody waits for it, holds it or will see it processed.    *)
THEOREM Recycled == MCSpec => []RequestsRecycled
<1>1. ASSUME IInv PROVE RequestsRecycled
  <2>1. LifeOf(Line, triggered, processed, early, event_pool)
    BY <1>1 DEF IInv, Life
  <2>2. IsInjective(Line \o triggered)
    <3>1. /\ Line \in Seq(Event) /\ triggered \in Seq(Event)
          /\ IsInjective(Line) /\ IsInjective(triggered)
          /\ ToSet(Line) \cap ToSet(triggered) = {}
      BY <2>1 DEF LifeOf
    <3> HIDE DEF Line
    <3> QED
      BY <3>1, ConcatElements
  <2> QED
    BY <2>1, <2>2 DEF RequestsRecycled, PoolIsFree, LifeOf, Known
<1> QED
  BY <1>1, Inductive, PTL

(* in_use of resource.c and priority_resource.c is the number of requests  *)
(* granted and not released; that of preemptive_resource.c is the number   *)
(* of its holders, none of them in two places.                             *)
THEOREM Slots == MCSpec => []InUseCountsHolders
<1>1. ASSUME IInv, kind # "preemptive" PROVE InUseCountsHolders
  <2>1. in_use = Cardinality(GrantedOf(triggered, processed, early))
    BY <1>1 DEF IInv, SlotsCounted, CountOf
  <2>2. R!Granted = GrantedOf(triggered, processed, early)
    BY <1>1 DEF R!Granted, R!Known, R!ToSet, GrantedOf, ToSet, IInv, Life, LifeOf
  <2>3. \A S : R!Cardinality(S) = Cardinality(S)
    BY Zenon DEF R!Cardinality, Cardinality
  <2> QED
    BY <1>1, <2>1, <2>2, <2>3, Zenon DEF InUseCountsHolders, R!InUseCountsHolders
<1>2. ASSUME IInv, kind = "preemptive" PROVE InUseCountsHolders
  <2>1. /\ SlotsOf(in_use, holders, waiters)
        /\ ToSet(Events(holders)) \subseteq KnownOf(triggered, processed, early)
    BY <1>2 DEF IInv, HoldersInv
  <2>2. /\ holders \in Seq(E!holder_t) /\ waiters \in Seq(E!pwait_t)
        /\ IsInjective(Events(holders)) /\ IsInjective(Events(waiters))
        /\ ToSet(Events(holders)) \cap ToSet(Events(waiters)) = {}
    BY <2>1 DEF SlotsOf
  <2>3. /\ Events(holders) \in Seq(Event) /\ Events(waiters) \in Seq(Event)
    BY <2>2, EventsType, ListTypes
  <2>4. Events(holders \o waiters) = Events(holders) \o Events(waiters)
    <3> DEFINE S == E!holder_t \cup E!pwait_t
    <3>1. holders \in Seq(S) /\ waiters \in Seq(S)
      BY <2>2
    <3> HIDE DEF S
    <3> QED
      BY <3>1, EventsConcat
  <2>5. IsInjective(Events(holders) \o Events(waiters))
    <3> DEFINE a == Events(holders)
               b == Events(waiters)
    <3>1. /\ a \in Seq(Event) /\ b \in Seq(Event) /\ IsInjective(a) /\ IsInjective(b)
          /\ ToSet(a) \cap ToSet(b) = {}
      BY <2>2, <2>3
    <3> HIDE DEF a, b
    <3>2. IsInjective(a \o b)
      BY <3>1, ConcatElements
    <3> QED
      BY <3>2 DEF a, b
  <2>6. /\ E!EventsOf(holders \o waiters) = Events(holders \o waiters)
        /\ E!ToSet(E!EventsOf(holders)) = ToSet(Events(holders))
        /\ E!Known = KnownOf(triggered, processed, early)
    BY SameSearches DEF E!Known, KnownOf
  <2>7. \A s : E!IsInjective(s) <=> IsInjective(s)
    BY DEF E!IsInjective, IsInjective
  <2>8. in_use = Len(holders)
    BY <2>1 DEF SlotsOf
  <2>9. E!InUseCountsHolders
    BY <2>1, <2>4, <2>5, <2>6, <2>7, <2>8, Zenon DEF E!InUseCountsHolders
  <2> QED
    BY <1>2, <2>9 DEF InUseCountsHolders
<1>3. IInv => InUseCountsHolders
  BY <1>1, <1>2
<1> QED
  BY <1>3, Inductive, PTL

(* In the preemptive resource whoever waits has a reason: no slot is free, *)
(* and no holder is less urgent than one who would have evicted it.        *)
THEOREM Inversions == MCSpec => []NoInversion
<1>1. ASSUME IInv PROVE NoInversion
  <2>1. CASE kind = "preemptive"
    BY <1>1, <2>1, SameSearches DEF IInv, HoldersInv, SlotsOf, ReasonToWait, NoInversion,
       E!NoInversion
  <2>2. CASE kind # "preemptive"
    BY <1>1, <2>2, SameSearches, EmptyElements
    DEF IInv, NoHolders, NoInversion, E!NoInversion
  <2> QED
    BY <2>1, <2>2
<1> QED
  BY <1>1, Inductive, PTL

(* The process of an evicted request that has not run since has an         *)
(* interrupt pending.                                                      *)
THEOREM Evictions == MCSpec => []EvictedIsInterrupted
<1>1. IInv => EvictedIsInterrupted
  BY DEF IInv, HoldersInv, NoHolders, EvictedOf, EvictedIsInterrupted,
     E!EvictedIsInterrupted
<1> QED
  BY <1>1, Inductive, PTL

(* A request of the preemptive resource that was released keeps its slot   *)
(* only if it was given up while it waited, and granted later.             *)
THEOREM Leaks == MCSpec => []ReleaseFreesSlot
<1>1. ASSUME IInv PROVE ReleaseFreesSlot
  <2>1. CASE kind = "preemptive"
    <3>1. holders \in Seq(E!holder_t)
      BY <1>1, <2>1, PreemptiveHyp
    <3>2. \A h \in ToSet(holders) : h.event \in ToSet(Events(holders))
      BY <3>1, EventsPositions
    <3>3. \A e \in ToSet(Events(holders)) : e \in early => e \in gaveUp
      BY <1>1, <2>1, PreemptiveHyp DEF HoldersInv
    <3> QED
      BY <3>2, <3>3, SameSearches, Zenon DEF ReleaseFreesSlot, E!ReleaseFreesSlot
  <2>2. CASE kind # "preemptive"
    BY <1>1, <2>2, SameSearches, EmptyElements
    DEF IInv, NoHolders, ReleaseFreesSlot, E!ReleaseFreesSlot
  <2> QED
    BY <2>1, <2>2
<1> QED
  BY <1>1, Inductive, PTL


(* The FIFO resource implements the semaphore of module Semaphore: a new   *)
(* request enters or queues up, a release lets one leave and the oldest in *)
(* line follow.                                                            *)
LEMMA FifoMapping ==
  /\ R!Granted = GrantedOf(triggered, processed, early)
  /\ \A S : R!Abstract!Cardinality(S) = Cardinality(S)
<1>1. R!Granted = GrantedOf(triggered, processed, early)
  BY DEF R!Granted, R!Known, R!ToSet, GrantedOf, ToSet
<1>2. \A S : R!Abstract!Cardinality(S) = Cardinality(S)
  BY Zenon DEF R!Abstract!Cardinality, Cardinality
<1> QED
  BY <1>1, <1>2

LEMMA FifoMappingNext == R!Granted' = GrantedOf(triggered', processed', early')
BY DEF R!Granted, R!Known, R!ToSet, GrantedOf, ToSet

LEMMA FifoEnter ==
  ASSUME IInv, kind = "fifo", NEW e \in Event, R!sim_resource_request(e)
  PROVE  R!Abstract!Enter(e) \/ R!Abstract!Queue(e, 0)
<1>1. /\ CountOf(in_use, queue, triggered, processed, early) /\ queue \in Seq(Event)
  BY FifoHyp
<1>2. /\ e \notin ToSet(queue) \cup KnownOf(triggered, processed, early)
      /\ R!Granted' = IF in_use < capacity THEN R!Granted \cup {e} ELSE R!Granted
      /\ queue' = IF in_use < capacity THEN queue ELSE Append(queue, e)
  BY FifoRequestStep, FifoMapping, FifoMappingNext, Zenon
<1>3. e \notin R!Granted /\ ~R!Abstract!InLine(e)
  BY <1>1, <1>2, FifoMapping, Elements DEF R!Abstract!InLine, GrantedOf, KnownOf
<1>4. in_use = R!Abstract!Cardinality(R!Granted) /\ in_use \in 0..capacity
  BY <1>1, FifoMapping DEF CountOf
<1>5. CASE in_use < capacity
  BY <1>2, <1>3, <1>4, <1>5 DEF R!Abstract!Enter
<1>6. CASE ~(in_use < capacity)
  <2>1. R!Abstract!Cardinality(R!Granted) = capacity
    BY <1>4, <1>6, CapacityIsNatural
  <2> DEFINE a == Append(queue, e)
             f == [p \in {0} |-> queue]
  <2>2. f[0] = queue /\ [p \in {0} |-> a] = [f EXCEPT ![0] = a]
    <3> HIDE DEF a
    <3> QED
      OBVIOUS
  <2>3. queue' = a /\ R!Granted' = R!Granted
    BY <1>2, <1>6, Zenon
  <2>4. [p \in {0} |-> queue]' = [f EXCEPT ![0] = Append(f[0], e)]
    BY <2>2, <2>3, Zenon
  <2> QED
    BY <1>3, <2>1, <2>3, <2>4, Zenon DEF R!Abstract!Queue
<1> QED
  BY <1>5, <1>6

LEMMA FifoLeave ==
  ASSUME IInv, kind = "fifo", NEW e, R!sim_resource_release(e)
  PROVE  R!Abstract!Leave(e)
<1>1. /\ e \in R!Granted
      /\ R!Granted' = IF queue # <<>> THEN (R!Granted \ {e}) \cup {Head(queue)}
                                      ELSE R!Granted \ {e}
      /\ queue' = IF queue # <<>> THEN Tail(queue) ELSE queue
  BY FifoReleaseStep, FifoMapping, FifoMappingNext, Zenon
<1> DEFINE f == [p \in {0} |-> queue]
<1>2. CASE queue # <<>>
  <2> DEFINE a == Tail(queue)
  <2>1. f[0] = queue /\ [p \in {0} |-> a] = [f EXCEPT ![0] = a]
    <3> HIDE DEF a
    <3> QED
      OBVIOUS
  <2>2. queue' = a /\ R!Granted' = (R!Granted \ {e}) \cup {Head(queue)}
    BY <1>1, <1>2, Zenon
  <2>3. /\ [p \in {0} |-> queue]' = [f EXCEPT ![0] = Tail(f[0])]
        /\ R!Granted' = (R!Granted \ {e}) \cup {Head(f[0])}
    BY <2>1, <2>2, Zenon
  <2>4. R!Abstract!Urgent(0)
    BY <1>2 DEF R!Abstract!Urgent
  <2>5. 0 \in {0}
    OBVIOUS
  <2> QED
    BY <1>1, <2>3, <2>4, <2>5, Zenon DEF R!Abstract!Leave
<1>3. CASE queue = <<>>
  <2>1. queue' = queue /\ R!Granted' = R!Granted \ {e}
    BY <1>1, <1>3, Zenon
  <2> QED
    BY <1>1, <1>3, <2>1 DEF R!Abstract!Leave
<1> QED
  BY <1>2, <1>3

THEOREM Semaphores == MCSpec => ImplementsSemaphore
<1>1. MCInit => (kind = "fifo" => R!Abstract!Init)
  <2> SUFFICES ASSUME MCInit PROVE R!Abstract!Init
    OBVIOUS
  <2>1. triggered = <<>> /\ processed = {} /\ queue = <<>>
    BY DEF MCInit, E!sim_preemptive_resource_create, E!Init
  <2>2. GrantedOf(triggered, processed, early) = {}
    BY <2>1, EmptyElements DEF GrantedOf
  <2> QED
    BY <2>1, <2>2, FifoMapping DEF R!Abstract!Init
<1>2. ASSUME IInv, [MCNext]_vars
      PROVE  [kind = "fifo" => R!Abstract!Next]_(R!Abstract!vars)
  <2>1. CASE MCNext /\ kind = "fifo"
    <3>1. R!Next
      BY <2>1 DEF MCNext
    <3>2. ASSUME NEW e \in Event, R!sim_resource_request(e) PROVE R!Abstract!Next
      BY <1>2, <2>1, <3>2, FifoEnter DEF R!Abstract!Next
    <3>3. ASSUME NEW e \in Event, R!sim_resource_release(e) PROVE R!Abstract!Next
      BY <1>2, <2>1, <3>3, FifoLeave DEF R!Abstract!Next
    <3>4. ASSUME R!process, UNCHANGED queue PROVE UNCHANGED R!Abstract!vars
      <4>1. GrantedOf(triggered', processed', early') =
              GrantedOf(triggered, processed, early)
        BY <1>2, <2>1, <3>4, FifoHyp, ProcessOf, SimpleProcess
      <4> QED
        BY <3>4, <4>1, FifoMapping, FifoMappingNext, Zenon DEF R!Abstract!vars
    <3> QED
      BY <3>1, <3>2, <3>3, <3>4 DEF R!Next
  <2>2. CASE kind # "fifo"
    BY <2>2
  <2>3. CASE UNCHANGED vars
    <3>1. UNCHANGED <<queue, triggered, processed, early>>
      BY <2>3 DEF vars, events
    <3> QED
      BY <3>1, FifoMapping, FifoMappingNext, Zenon DEF R!Abstract!vars
  <2> QED
    BY <1>2, <2>1, <2>2, <2>3
<1> QED
  BY <1>1, <1>2, Inductive, PTL DEF MCSpec, ImplementsSemaphore, vars


(* The priority resource implements it, too, with the requests of each     *)
(* priority as one line.                                                   *)
LinesOf(q) == [p \in Priorities |-> Events(Segment(q, p))]

LEMMA LinesMapped ==
  /\ [p \in Priorities |-> P!EventsOf(P!OfPriority(queue, p))] = LinesOf(queue)
  /\ [p \in Priorities |-> P!EventsOf(P!OfPriority(queue, p))]' = LinesOf(queue')
<1>1. ASSUME NEW s, NEW p PROVE P!EventsOf(P!OfPriority(s, p)) = Events(Segment(s, p))
  BY Zenon DEF P!EventsOf, P!OfPriority, P!Cardinality, Cardinality, Events, Segment,
     Before, UpTo
<1> QED
  BY <1>1, Zenon DEF LinesOf

LEMMA SemaphoreMapping ==
  /\ P!Granted = GrantedOf(triggered, processed, early)
  /\ P!Granted' = GrantedOf(triggered', processed', early')
  /\ \A S : P!Abstract!Cardinality(S) = Cardinality(S)
<1>1. P!Granted = GrantedOf(triggered, processed, early)
  BY DEF P!Granted, P!Known, P!ToSet, GrantedOf, ToSet
<1>2. P!Granted' = GrantedOf(triggered', processed', early')
  BY DEF P!Granted, P!Known, P!ToSet, GrantedOf, ToSet
<1>3. \A S : P!Abstract!Cardinality(S) = Cardinality(S)
  BY Zenon DEF P!Abstract!Cardinality, Cardinality
<1> QED
  BY <1>1, <1>2, <1>3

(* The lines when a request joins, when the first one leaves, and who is   *)
(* in them.                                                                *)
Requests(s) ==
  /\ s \in Seq(P!pr_node) /\ SortedByPriority(s)
  /\ \A x \in P!pr_node : /\ x.priority \in Priorities /\ x.priority \in Int
                          /\ x.event \in Event

LEMMA LinesPlaced ==
  ASSUME NEW s, Requests(s), NEW n \in P!pr_node
  PROVE  LinesOf(Placed(s, n)) =
           [LinesOf(s) EXCEPT ![n.priority] = Append(LinesOf(s)[n.priority], n.event)]
<1> DEFINE f(q) == Events(Segment(s, q))
           g(q) == Events(Segment(Placed(s, n), q))
           b == n.priority
           v == n.event
<1>1. b \in Priorities
  BY DEF Requests
<1>2. ASSUME NEW q \in Priorities
      PROVE  g(q) = IF q = b THEN Append(f(b), v) ELSE f(q)
  <2>1. q \in Int
    BY PrioritiesAreIntegers
  <2>r. /\ s \in Seq(P!pr_node) /\ SortedByPriority(s)
        /\ \A x \in P!pr_node : x.priority \in Int
    BY DEF Requests
  <2>s. Segment(s, q) \in Seq(P!pr_node)
    BY <2>1, <2>r, SegmentElements
  <2>p. Segment(Placed(s, n), q) = IF q = n.priority THEN Append(Segment(s, q), n)
                                                    ELSE Segment(s, q)
    BY <2>1, <2>r, SegmentPlaced
  <2>2. /\ Segment(s, q) \in Seq(P!pr_node)
        /\ Segment(Placed(s, n), q) = IF q = b THEN Append(Segment(s, q), n)
                                              ELSE Segment(s, q)
    BY <2>s, <2>p
  <2>3. Events(Append(Segment(s, q), n)) = Append(Events(Segment(s, q)), n.event)
    BY <2>2, EventsAppend
  <2> QED
    BY <2>2, <2>3, Zenon
<1>3. /\ LinesOf(s) = [q \in Priorities |-> f(q)]
      /\ LinesOf(Placed(s, n)) = [q \in Priorities |-> g(q)]
  BY DEF LinesOf
<1> HIDE DEF f, g, b, v
<1>4. [q \in Priorities |-> g(q)] =
        [[q \in Priorities |-> f(q)] EXCEPT ![b] = Append(f(b), v)]
  <2> DEFINE w == Append(f(b), v)
  <2>1. \A q \in Priorities : g(q) = IF q = b THEN w ELSE f(q)
    BY <1>2
  <2> HIDE DEF w
  <2>2. [q \in Priorities |-> g(q)] = [[q \in Priorities |-> f(q)] EXCEPT ![b] = w]
    BY <1>1, <2>1
  <2> QED
    BY <2>2 DEF w
<1>5. [q \in Priorities |-> f(q)][b] = f(b)
  BY <1>1
<1> QED
  BY <1>3, <1>4, <1>5, Zenon DEF b, v

LEMMA LinesTail ==
  ASSUME NEW s, Requests(s), s # <<>>
  PROVE  LET b == Head(s).priority
             l == LinesOf(s)
         IN  /\ b \in Priorities /\ l[b] # <<>> /\ Head(l[b]) = Head(s).event
             /\ \A q \in Priorities : q < b => l[q] = <<>>
             /\ LinesOf(Tail(s)) = [l EXCEPT ![b] = Tail(l[b])]
<1> DEFINE f(q) == Events(Segment(s, q))
           g(q) == Events(Segment(Tail(s), q))
           b == Head(s).priority
<1>1. b \in Priorities /\ b \in Int
  <2>1. Head(s) \in P!pr_node
    BY DEF Requests
  <2> QED
    BY <2>1 DEF Requests
<1>2. ASSUME NEW q \in Priorities
      PROVE  /\ q < b => f(q) = <<>>
             /\ q = b => f(q) # <<>> /\ Head(f(q)) = Head(s).event /\ g(q) = Tail(f(q))
             /\ q # b => g(q) = f(q)
  <2>1. q \in Int
    BY PrioritiesAreIntegers
  <2>2. /\ Segment(s, q) \in Seq(P!pr_node)
        /\ q = b => /\ Segment(s, q) # <<>> /\ Head(Segment(s, q)) = Head(s)
                    /\ Segment(Tail(s), q) = Tail(Segment(s, q))
        /\ q # b => Segment(Tail(s), q) = Segment(s, q)
        /\ q < b => Segment(s, q) = <<>>
    BY <2>1, SegmentElements, SegmentTail DEF Requests
  <2>3. Segment(s, q) # <<>> =>
          /\ f(q) # <<>> /\ Head(f(q)) = Head(Segment(s, q)).event
          /\ Events(Tail(Segment(s, q))) = Tail(f(q))
    BY <2>2, EventsTail
  <2>4. Events(<<>>) = <<>>
    BY DEF Events
  <2> QED
    BY <2>2, <2>3, <2>4, Zenon
<1>3. /\ LinesOf(s) = [q \in Priorities |-> f(q)]
      /\ LinesOf(Tail(s)) = [q \in Priorities |-> g(q)]
  BY DEF LinesOf
<1> HIDE DEF f, g, b
<1>4. \A q \in Priorities : [r \in Priorities |-> f(r)][q] = f(q)
  OBVIOUS
<1>5. [q \in Priorities |-> g(q)] = [[q \in Priorities |-> f(q)] EXCEPT ![b] = Tail(f(b))]
  <2> DEFINE w == Tail(f(b))
  <2>1. \A q \in Priorities : g(q) = IF q = b THEN w ELSE f(q)
    BY <1>2
  <2> HIDE DEF w
  <2>2. [q \in Priorities |-> g(q)] = [[q \in Priorities |-> f(q)] EXCEPT ![b] = w]
    BY <1>1, <2>1
  <2> QED
    BY <2>2 DEF w
<1> QED
  BY <1>1, <1>2, <1>3, <1>4, <1>5, Zenon DEF b

LEMMA LinesMembers ==
  ASSUME NEW s, Requests(s), NEW q \in Priorities
  PROVE  /\ \A k \in DOMAIN LinesOf(s)[q] : LinesOf(s)[q][k] \in ToSet(Events(s))
         /\ s = <<>> => LinesOf(s)[q] = <<>>
<1> DEFINE g == Segment(s, q)
<1>1. q \in Int /\ LinesOf(s)[q] = Events(g)
  BY PrioritiesAreIntegers DEF LinesOf
<1>2. /\ g \in Seq(P!pr_node) /\ ToSet(g) \subseteq ToSet(s)
      /\ g # <<>> => \E x \in ToSet(s) : x.priority = q
  BY <1>1, SegmentElements DEF Requests
<1>3. ToSet(Events(s)) = {n.event : n \in ToSet(s)}
  BY EventsPositions DEF Requests
<1> HIDE DEF g
<1>4. /\ \A k \in DOMAIN Events(g) : k \in 1..Len(g) /\ Events(g)[k] = g[k].event
      /\ \A x : x \in ToSet(g) <=> \E k \in 1..Len(g) : g[k] = x
  BY <1>2, Elements DEF Events
<1>5. \A k \in DOMAIN Events(g) : Events(g)[k] \in ToSet(Events(s))
  BY <1>2, <1>3, <1>4
<1>6. s = <<>> => Events(g) = <<>>
  BY <1>2, EmptyElements DEF Events
<1> QED
  BY <1>1, <1>5, <1>6, Zenon

LEMMA PriorityEnter ==
  ASSUME IInv, kind = "priority", NEW e \in Event, NEW p \in Priorities,
         P!sim_priority_resource_request(e, p)
  PROVE  P!Abstract!Enter(e) \/ P!Abstract!Queue(e, p)
<1> DEFINE n == [event |-> e, priority |-> p]
           l == LinesOf(queue)
<1>1. Requests(queue) /\ CountOf(in_use, Events(queue), triggered, processed, early)
  BY PriorityHyp DEF Requests
<1>2. /\ e \notin ToSet(Events(queue)) \cup KnownOf(triggered, processed, early)
      /\ P!Granted' = IF in_use < capacity THEN P!Granted \cup {e} ELSE P!Granted
      /\ queue' = IF in_use < capacity THEN queue ELSE Placed(queue, n)
  BY PriorityRequestStep, SemaphoreMapping, Zenon
<1>3. e \notin P!Granted /\ \A q \in Priorities : \A k \in DOMAIN l[q] : l[q][k] # e
  BY <1>1, <1>2, SemaphoreMapping, LinesMembers DEF GrantedOf, KnownOf
<1>4. in_use = P!Abstract!Cardinality(P!Granted) /\ in_use \in 0..capacity
  BY <1>1, SemaphoreMapping DEF CountOf
<1>5. n \in P!pr_node /\ n.priority = p /\ n.event = e
  BY DEF P!pr_node
<1> HIDE DEF n, l
<1>6. ~P!Abstract!InLine(e)
  BY <1>3, LinesMapped, Zenon DEF P!Abstract!InLine, l
<1>7. CASE in_use < capacity
  <2>1. queue' = queue /\ P!Granted' = P!Granted \cup {e}
    BY <1>2, <1>7, Zenon
  <2>2. LinesOf(queue') = LinesOf(queue)
    BY <2>1, Zenon
  <2> QED
    BY <1>3, <1>4, <1>6, <1>7, <2>1, <2>2, LinesMapped, Zenon DEF P!Abstract!Enter
<1>8. CASE ~(in_use < capacity)
  <2>1. P!Abstract!Cardinality(P!Granted) = capacity
    BY <1>4, <1>8, CapacityIsNatural
  <2>2. queue' = Placed(queue, n) /\ P!Granted' = P!Granted
    BY <1>2, <1>8, Zenon
  <2>3. LinesOf(Placed(queue, n)) =
          [l EXCEPT ![n.priority] = Append(l[n.priority], n.event)]
    BY <1>1, <1>5, LinesPlaced DEF l
  <2>4. LinesOf(queue') = [l EXCEPT ![p] = Append(l[p], e)]
    BY <2>2, <2>3, <1>5, Zenon
  <2> QED
    BY <1>3, <1>6, <2>1, <2>2, <2>4, LinesMapped, Zenon DEF P!Abstract!Queue, l
<1> QED
  BY <1>7, <1>8

LEMMA PriorityLeave ==
  ASSUME IInv, kind = "priority", NEW e, P!sim_priority_resource_release(e)
  PROVE  P!Abstract!Leave(e)
<1> DEFINE l == LinesOf(queue)
<1>1. Requests(queue)
  BY PriorityHyp DEF Requests
<1>2. /\ e \in P!Granted
      /\ P!Granted' = IF queue # <<>> THEN (P!Granted \ {e}) \cup {Head(queue).event}
                                      ELSE P!Granted \ {e}
      /\ queue' = IF queue # <<>> THEN Tail(queue) ELSE queue
  BY PriorityReleaseStep, SemaphoreMapping, Zenon
<1> HIDE DEF l
<1>3. CASE queue # <<>>
  <2> DEFINE b == Head(queue).priority
  <2>1. /\ b \in Priorities /\ l[b] # <<>> /\ Head(l[b]) = Head(queue).event
        /\ \A q \in Priorities : q < b => l[q] = <<>>
        /\ LinesOf(Tail(queue)) = [l EXCEPT ![b] = Tail(l[b])]
    BY <1>1, <1>3, LinesTail DEF l
  <2> HIDE DEF b
  <2>2. /\ P!Granted' = (P!Granted \ {e}) \cup {Head(l[b])}
        /\ LinesOf(queue') = [l EXCEPT ![b] = Tail(l[b])]
    BY <1>2, <1>3, <2>1, Zenon
  <2>3. P!Abstract!Urgent(b)
    BY <2>1, LinesMapped, Zenon DEF P!Abstract!Urgent, l
  <2> QED
    BY <1>2, <2>1, <2>2, <2>3, LinesMapped, Zenon DEF P!Abstract!Leave, l
<1>4. CASE queue = <<>>
  <2>1. queue' = queue /\ P!Granted' = P!Granted \ {e}
    BY <1>2, <1>4, Zenon
  <2>2. LinesOf(queue') = LinesOf(queue)
    BY <2>1, Zenon
  <2>3. \A q \in Priorities : l[q] = <<>>
    BY <1>1, <1>4, LinesMembers DEF l
  <2> QED
    BY <1>2, <2>1, <2>2, <2>3, LinesMapped, Zenon DEF P!Abstract!Leave, l
<1> QED
  BY <1>3, <1>4

(* The resource of priority_resource.c implements the semaphore: a slot    *)
(* goes to the oldest of the most urgent requests that wait, for every     *)
(* capacity and every set of priorities.                                   *)
THEOREM PrioritySemaphores == MCSpec => ImplementsPrioritySemaphore
<1>1. MCInit => (kind = "priority" => P!Abstract!Init)
  <2> SUFFICES ASSUME MCInit, kind = "priority" PROVE P!Abstract!Init
    OBVIOUS
  <2>1. triggered = <<>> /\ processed = {} /\ queue = <<>>
    BY DEF MCInit, E!sim_preemptive_resource_create, E!Init
  <2>2. GrantedOf(triggered, processed, early) = {}
    BY <2>1, EmptyElements DEF GrantedOf
  <2>3. \A q \in Priorities : LinesOf(queue)[q] = <<>>
    <3>1. Requests(queue)
      BY InitIInv, PriorityHyp DEF Requests
    <3> QED
      BY <2>1, <3>1, LinesMembers
  <2>4. LinesOf(queue) = [q \in Priorities |-> <<>>]
    BY <2>3, Zenon DEF LinesOf
  <2> QED
    BY <2>2, <2>4, LinesMapped, SemaphoreMapping, Zenon DEF P!Abstract!Init
<1>2. ASSUME IInv, [MCNext]_vars
      PROVE  [kind = "priority" => P!Abstract!Next]_(P!Abstract!vars)
  <2>1. CASE MCNext /\ kind = "priority"
    <3>1. P!Next
      BY <2>1 DEF MCNext
    <3>2. ASSUME NEW e \in Event, NEW p \in Priorities,
                 P!sim_priority_resource_request(e, p)
          PROVE  P!Abstract!Next
      BY <1>2, <2>1, <3>2, PriorityEnter DEF P!Abstract!Next
    <3>3. ASSUME NEW e \in Event, P!sim_priority_resource_release(e)
          PROVE  P!Abstract!Next
      BY <1>2, <2>1, <3>3, PriorityLeave DEF P!Abstract!Next
    <3>4. ASSUME P!process, UNCHANGED queue PROVE UNCHANGED P!Abstract!vars
      <4>1. GrantedOf(triggered', processed', early') =
              GrantedOf(triggered, processed, early)
        BY <1>2, <2>1, <3>4, PriorityHyp, ProcessOf, SimpleProcess
      <4>2. LinesOf(queue') = LinesOf(queue)
        BY <3>4
      <4> QED
        BY <4>1, <4>2, LinesMapped, SemaphoreMapping, Zenon DEF P!Abstract!vars
    <3> QED
      BY <3>1, <3>2, <3>3, <3>4 DEF P!Next
  <2>2. CASE kind # "priority"
    BY <2>2
  <2>3. CASE UNCHANGED vars
    <3>1. UNCHANGED <<queue, triggered, processed, early>>
      BY <2>3 DEF vars, events
    <3>2. LinesOf(queue') = LinesOf(queue)
      BY <3>1
    <3> QED
      BY <3>1, <3>2, LinesMapped, SemaphoreMapping, Zenon DEF P!Abstract!vars
  <2> QED
    BY <1>2, <2>1, <2>2, <2>3
<1> QED
  BY <1>1, <1>2, Inductive, PTL DEF MCSpec, ImplementsPrioritySemaphore, vars
=============================================================================
