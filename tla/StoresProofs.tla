---------------------------- MODULE StoresProofs ----------------------------
(***************************************************************************)
(* The safety theorems of the stores and the container, for any capacity,  *)
(* items, priorities, amounts and events.                                  *)
(***************************************************************************)
EXTENDS MCStores, SequenceLemmas

-----------------------------------------------------------------------------
(* Every event in use is in one place once.                                *)

Apart(w, a, p, r) ==
  /\ w \in Seq(Event) /\ a \in Seq(Event) /\ p \in Seq(Event) /\ r \in Seq(Event)
  /\ IsInjective(w) /\ IsInjective(a) /\ IsInjective(p) /\ IsInjective(r)
  /\ ToSet(w) \cap ToSet(a) = {} /\ ToSet(w) \cap ToSet(p) = {}
  /\ ToSet(w) \cap ToSet(r) = {} /\ ToSet(a) \cap ToSet(p) = {}
  /\ ToSet(a) \cap ToSet(r) = {} /\ ToSet(p) \cap ToSet(r) = {}

(* The order of the four does not matter.                                  *)
LEMMA ApartSwap ==
  ASSUME NEW w, NEW a, NEW p, NEW r
  PROVE  /\ Apart(w, a, p, r) => Apart(a, w, p, r)
         /\ Apart(w, a, p, r) => Apart(p, a, w, r)
         /\ Apart(w, a, p, r) => Apart(r, a, p, w)
BY Zenon DEF Apart

(* One more in one of them, for an event that is unused.                   *)
LEMMA ApartAppend ==
  ASSUME NEW w, NEW a, NEW p, NEW r, Apart(w, a, p, r), NEW e \in Event,
         e \notin ToSet(w) \cup ToSet(a) \cup ToSet(p) \cup ToSet(r)
  PROVE  Apart(Append(w, e), a, p, r)
<1>1. w \in Seq(Event) /\ IsInjective(w) /\ e \notin ToSet(w)
  BY DEF Apart
<1>2. /\ Append(w, e) \in Seq(Event) /\ ToSet(Append(w, e)) = ToSet(w) \cup {e}
      /\ IsInjective(Append(w, e))
  BY <1>1, AppendElements
<1> QED
  BY <1>2 DEF Apart

(* The first of one of them goes.                                          *)
LEMMA ApartTail ==
  ASSUME NEW w, NEW a, NEW p, NEW r, Apart(w, a, p, r), w # <<>>
  PROVE  /\ Apart(Tail(w), a, p, r) /\ Head(w) \in Event
         /\ Head(w) \notin ToSet(Tail(w)) \cup ToSet(a) \cup ToSet(p) \cup ToSet(r)
         /\ ToSet(w) = {Head(w)} \cup ToSet(Tail(w))
<1>1. w \in Seq(Event) /\ IsInjective(w)
  BY DEF Apart
<1>2. /\ Head(w) \in Event /\ Tail(w) \in Seq(Event)
      /\ ToSet(w) = {Head(w)} \cup ToSet(Tail(w))
      /\ IsInjective(Tail(w)) /\ Head(w) \notin ToSet(Tail(w))
  BY <1>1, TailElements
<1> QED
  BY <1>2 DEF Apart

(* What the type invariants of the modules say of them.                    *)
LEMMA ApartInjective ==
  ASSUME NEW w, NEW a, NEW p, NEW r, Apart(w, a, p, r)
  PROVE  /\ IsInjective(w \o a \o p \o r)
         /\ ToSet(w \o a \o p) = ToSet(w) \cup ToSet(a) \cup ToSet(p)
         /\ ToSet(a \o p \o r) = ToSet(a) \cup ToSet(p) \cup ToSet(r)
<1>t. w \in Seq(Event) /\ a \in Seq(Event) /\ p \in Seq(Event) /\ r \in Seq(Event)
  BY DEF Apart
<1> DEFINE c == w \o a
<1>1. /\ c \in Seq(Event) /\ ToSet(c) = ToSet(w) \cup ToSet(a) /\ IsInjective(c)
  BY <1>t, ConcatElements DEF Apart
<1> HIDE DEF c
<1> DEFINE d == c \o p
<1>2. /\ d \in Seq(Event) /\ ToSet(d) = ToSet(c) \cup ToSet(p) /\ IsInjective(d)
  BY <1>t, <1>1, ConcatElements DEF Apart
<1> HIDE DEF d
<1>3. IsInjective(d \o r)
  BY <1>t, <1>1, <1>2, ConcatElements DEF Apart
<1> DEFINE f == a \o p
<1>4. f \in Seq(Event) /\ ToSet(f) = ToSet(a) \cup ToSet(p)
  BY <1>t, ConcatElements
<1> HIDE DEF f
<1>5. ToSet(f \o r) = ToSet(f) \cup ToSet(r)
  BY <1>t, <1>4, ConcatElements
<1> QED
  BY <1>1, <1>2, <1>3, <1>4, <1>5 DEF c, d, f


-----------------------------------------------------------------------------
(* The container.  While gets are woken no put waits, and while puts are   *)
(* woken no get does.                                                      *)

ContainerInv ==
  /\ level \in 0..capacity
  /\ gets \in Seq(cq_node) /\ puts \in Seq(cq_node) /\ fired \in Seq(cq_node)
  /\ pc \in {"idle", "wake gets", "wake puts"}
  /\ Apart(Events(gets), <<>>, Events(puts), Events(fired))
  /\ pc = "wake gets" => puts = <<>>
  /\ pc = "wake puts" => gets = <<>>
  /\ FirstDoesNotFit

(* A node at the end of one of the queues of waiting or triggered nodes,   *)
(* and one that leaves.                                                    *)
LEMMA NodeQueues ==
  ASSUME NEW q \in Seq(cq_node)
  PROVE  /\ Events(q) \in Seq(Event)
         /\ ToSet(Events(q)) = {n.event : n \in ToSet(q)}
         /\ \A n \in cq_node : /\ n.event \in Event /\ n.amount \in Nat
                               /\ Append(q, n) \in Seq(cq_node)
                               /\ Events(Append(q, n)) = Append(Events(q), n.event)
         /\ q # <<>> => /\ Head(q) \in cq_node /\ Tail(q) \in Seq(cq_node)
                        /\ Events(q) # <<>> /\ Head(Events(q)) = Head(q).event
                        /\ Events(Tail(q)) = Tail(Events(q))
<1>1. \A n \in cq_node : n.event \in Event /\ n.amount \in Nat
  BY AmountsAreNaturals DEF cq_node
<1>2. Events(q) \in Seq(Event) /\ ToSet(Events(q)) = {n.event : n \in ToSet(q)}
  BY <1>1, EventsType, EventsPositions
<1>3. \A n \in cq_node : /\ Append(q, n) \in Seq(cq_node)
                         /\ Events(Append(q, n)) = Append(Events(q), n.event)
  BY EventsAppend
<1>4. q # <<>> => /\ Head(q) \in cq_node /\ Tail(q) \in Seq(cq_node)
                  /\ Events(q) # <<>> /\ Head(Events(q)) = Head(q).event
                  /\ Events(Tail(q)) = Tail(Events(q))
  BY EventsTail
<1> QED
  BY <1>1, <1>2, <1>3, <1>4, Zenon

(* A call is made with an unused event.                                    *)
LEMMA UnusedNode ==
  ASSUME gets \in Seq(cq_node), puts \in Seq(cq_node), fired \in Seq(cq_node),
         NEW e, e \notin Used
  PROVE  /\ e \notin ToSet(Events(gets)) /\ e \notin ToSet(Events(puts))
         /\ e \notin ToSet(Events(fired))
<1>1. ToSet(gets \o puts \o fired) = ToSet(gets) \cup ToSet(puts) \cup ToSet(fired)
  <2> DEFINE c == gets \o puts
  <2>1. c \in Seq(cq_node) /\ ToSet(c) = ToSet(gets) \cup ToSet(puts)
    BY ConcatElements
  <2> HIDE DEF c
  <2>2. ToSet(c \o fired) = ToSet(c) \cup ToSet(fired)
    BY <2>1, ConcatElements
  <2> QED
    BY <2>1, <2>2 DEF c
<1> QED
  BY <1>1, NodeQueues DEF Used

LEMMA ContainerPut ==
  ASSUME ContainerInv, NEW n \in cq_node, n.event \notin Used, sim_container_put(n)
  PROVE  ContainerInv'
<1>1. /\ level \in 0..capacity /\ capacity \in Nat /\ pc = "idle"
      /\ gets \in Seq(cq_node) /\ puts \in Seq(cq_node) /\ fired \in Seq(cq_node)
      /\ Apart(Events(gets), <<>>, Events(puts), Events(fired))
      /\ n.amount \in Nat /\ n.event \in Event /\ gets' = gets
  BY AmountsAreNaturals, NodeQueues DEF ContainerInv, sim_container_put
<1>2. /\ n.event \notin ToSet(Events(gets)) \cup ToSet(<<>>) \cup ToSet(Events(puts))
      /\ n.event \notin ToSet(Events(fired))
  BY <1>1, UnusedNode, EmptyElements
<1>s. level \in 0..capacity /\ capacity \in Nat /\ n.amount \in Nat
  BY <1>1
<1>g. Events(gets)' = Events(gets)
  BY <1>1
<1>3. CASE PutsNow(n.amount)
  <2>1. /\ puts = <<>> /\ level + n.amount <= capacity /\ level' = level + n.amount
        /\ fired' = Append(fired, n) /\ pc' = "wake gets" /\ puts' = puts
    BY <1>3 DEF sim_container_put, PutsNow, Fits, serve
  <2>s. level + n.amount <= capacity /\ level' = level + n.amount
    BY <2>1
  <2>2. Apart(Events(gets)', <<>>, Events(puts)', Events(fired)')
    <3>1. Apart(Append(Events(fired), n.event), <<>>, Events(puts), Events(gets))
      BY <1>1, <1>2, ApartSwap, ApartAppend
    <3>2. Events(fired)' = Append(Events(fired), n.event) /\ Events(puts)' = Events(puts)
      BY <1>1, <2>1, NodeQueues
    <3> QED
      BY <1>g, <3>1, <3>2, ApartSwap
  <2>3. level' \in 0..capacity
    BY <1>s, <2>s
  <2>4. Append(fired, n) \in Seq(cq_node)
    BY <1>1, NodeQueues
  <2> QED
    BY <1>1, <2>1, <2>2, <2>3, <2>4 DEF ContainerInv, FirstDoesNotFit
<1>4. CASE ~PutsNow(n.amount)
  <2>a. puts' = Append(puts, n) /\ UNCHANGED <<level, fired, pc>>
    BY <1>4 DEF sim_container_put
  <2>b. puts = <<>> => level + n.amount > capacity
    BY <1>s, <1>4 DEF PutsNow, Fits
  <2>1. /\ puts' = Append(puts, n) /\ UNCHANGED <<level, fired, pc>>
        /\ puts = <<>> => level + n.amount > capacity
    BY <2>a, <2>b
  <2>2. Apart(Events(gets)', <<>>, Events(puts)', Events(fired)')
    <3>1. Apart(Append(Events(puts), n.event), <<>>, Events(gets), Events(fired))
      BY <1>1, <1>2, ApartSwap, ApartAppend
    <3>2. Events(puts)' = Append(Events(puts), n.event) /\ Events(fired)' = Events(fired)
      BY <1>1, <2>1, NodeQueues
    <3> QED
      BY <1>g, <3>1, <3>2, ApartSwap
  <2>3. /\ puts' \in Seq(cq_node)
        /\ Head(puts') = IF puts = <<>> THEN n ELSE Head(puts)
    BY <1>1, <2>1
  <2>4. FirstDoesNotFit'
    BY <1>1, <2>1, <2>3 DEF ContainerInv, FirstDoesNotFit
  <2> QED
    BY <1>1, <2>1, <2>2, <2>3, <2>4 DEF ContainerInv
<1> QED
  BY <1>3, <1>4

LEMMA ContainerGet ==
  ASSUME ContainerInv, NEW n \in cq_node, n.event \notin Used, sim_container_get(n)
  PROVE  ContainerInv'
<1>1. /\ level \in 0..capacity /\ capacity \in Nat /\ pc = "idle"
      /\ gets \in Seq(cq_node) /\ puts \in Seq(cq_node) /\ fired \in Seq(cq_node)
      /\ Apart(Events(gets), <<>>, Events(puts), Events(fired))
      /\ n.amount \in Nat /\ n.event \in Event /\ puts' = puts
  BY AmountsAreNaturals, NodeQueues DEF ContainerInv, sim_container_get
<1>2. /\ n.event \notin ToSet(Events(gets)) \cup ToSet(<<>>) \cup ToSet(Events(puts))
      /\ n.event \notin ToSet(Events(fired))
  BY <1>1, UnusedNode, EmptyElements
<1>s. level \in 0..capacity /\ capacity \in Nat /\ n.amount \in Nat
  BY <1>1
<1>p. Events(puts)' = Events(puts)
  BY <1>1
<1>3. CASE GetsNow(n.amount)
  <2>1. /\ gets = <<>> /\ n.amount <= level /\ level' = level - n.amount
        /\ fired' = Append(fired, n) /\ pc' = "wake puts" /\ gets' = gets
    BY <1>3 DEF sim_container_get, GetsNow, serve, AfterGet
  <2>s. n.amount <= level /\ level' = level - n.amount
    BY <2>1
  <2>2. Apart(Events(gets)', <<>>, Events(puts)', Events(fired)')
    <3>1. Apart(Append(Events(fired), n.event), <<>>, Events(puts), Events(gets))
      BY <1>1, <1>2, ApartSwap, ApartAppend
    <3>2. Events(fired)' = Append(Events(fired), n.event) /\ Events(gets)' = Events(gets)
      BY <1>1, <2>1, NodeQueues
    <3> QED
      BY <1>p, <3>1, <3>2, ApartSwap
  <2>3. level' \in 0..capacity
    BY <1>s, <2>s
  <2>4. Append(fired, n) \in Seq(cq_node)
    BY <1>1, NodeQueues
  <2> QED
    BY <1>1, <2>1, <2>2, <2>3, <2>4 DEF ContainerInv, FirstDoesNotFit
<1>4. CASE ~GetsNow(n.amount)
  <2>1. /\ gets' = Append(gets, n) /\ UNCHANGED <<level, fired, pc>>
        /\ gets = <<>> => n.amount > level
    BY <1>1, <1>4 DEF sim_container_get, GetsNow
  <2>2. Apart(Events(gets)', <<>>, Events(puts)', Events(fired)')
    <3>1. Apart(Append(Events(gets), n.event), <<>>, Events(puts), Events(fired))
      BY <1>1, <1>2, ApartAppend
    <3>2. Events(gets)' = Append(Events(gets), n.event) /\ Events(fired)' = Events(fired)
      BY <1>1, <2>1, NodeQueues
    <3> QED
      BY <1>p, <3>1, <3>2
  <2>3. /\ gets' \in Seq(cq_node)
        /\ Head(gets') = IF gets = <<>> THEN n ELSE Head(gets)
    BY <1>1, <2>1
  <2>4. FirstDoesNotFit'
    BY <1>1, <2>1, <2>3 DEF ContainerInv, FirstDoesNotFit
  <2> QED
    BY <1>1, <2>1, <2>2, <2>3, <2>4 DEF ContainerInv
<1> QED
  BY <1>3, <1>4


LEMMA ContainerWakes ==
  ASSUME ContainerInv
  PROVE  /\ try_wake_gets => ContainerInv'
         /\ try_wake_puts => ContainerInv'
<1>1. /\ level \in 0..capacity /\ capacity \in Nat
      /\ gets \in Seq(cq_node) /\ puts \in Seq(cq_node) /\ fired \in Seq(cq_node)
      /\ Apart(Events(gets), <<>>, Events(puts), Events(fired))
  BY AmountsAreNaturals DEF ContainerInv
<1>s. level \in 0..capacity /\ capacity \in Nat
  BY <1>1
<1>2. ASSUME try_wake_gets PROVE ContainerInv'
  <2>1. pc = "wake gets" /\ puts = <<>> /\ puts' = puts
    BY <1>2 DEF try_wake_gets, ContainerInv
  <2>p. Events(puts)' = Events(puts)
    BY <2>1
  <2>2. CASE gets # <<>> /\ Head(gets).amount <= level
    <3>1. /\ fired' = Append(fired, Head(gets)) /\ gets' = Tail(gets) /\ pc' = pc
          /\ level' = level - Head(gets).amount
      BY <1>2, <2>2 DEF try_wake_gets, serve
    <3>2. /\ Head(gets) \in cq_node /\ Tail(gets) \in Seq(cq_node) /\ Events(gets) # <<>>
          /\ Head(Events(gets)) = Head(gets).event
          /\ Events(Tail(gets)) = Tail(Events(gets))
      BY <1>1, <2>2, NodeQueues
    <3>3. /\ Head(gets).amount \in Nat /\ Append(fired, Head(gets)) \in Seq(cq_node)
          /\ Events(Append(fired, Head(gets))) = Append(Events(fired), Head(gets).event)
      BY <1>1, <3>2, NodeQueues
    <3>4. /\ Apart(Events(Tail(gets)), <<>>, Events(puts), Events(fired))
          /\ Head(gets).event \in Event
          /\ Head(gets).event \notin ToSet(Events(Tail(gets))) \cup ToSet(<<>>)
                                     \cup ToSet(Events(puts)) \cup ToSet(Events(fired))
      <4> DEFINE q == Events(gets)
      <4>1. /\ Apart(Tail(q), <<>>, Events(puts), Events(fired)) /\ Head(q) \in Event
            /\ Head(q) \notin ToSet(Tail(q)) \cup ToSet(<<>>) \cup ToSet(Events(puts))
                              \cup ToSet(Events(fired))
        BY <1>1, <3>2, ApartTail
      <4> QED
        BY <3>2, <4>1, Zenon
    <3>5. Apart(Append(Events(fired), Head(gets).event), <<>>, Events(puts), Events(Tail(gets)))
      BY <3>4, ApartSwap, ApartAppend
    <3>6. Apart(Events(Tail(gets)), <<>>, Events(puts), Events(Append(fired, Head(gets))))
      BY <3>3, <3>5, ApartSwap
    <3>7. Events(gets)' = Events(Tail(gets)) /\ Events(fired)' = Events(Append(fired, Head(gets)))
      BY <3>1
    <3>8. level' \in 0..capacity
      <4>1. Head(gets).amount \in Nat /\ Head(gets).amount <= level
            /\ level' = level - Head(gets).amount
        BY <2>2, <3>1, <3>3
      <4> QED
        BY <1>s, <4>1
    <3>9. Apart(Events(gets)', <<>>, Events(puts)', Events(fired)')
      BY <2>p, <3>6, <3>7
    <3>10. gets' \in Seq(cq_node) /\ fired' \in Seq(cq_node)
      BY <3>1, <3>2, <3>3
    <3> QED
      BY <1>1, <2>1, <3>1, <3>8, <3>9, <3>10 DEF ContainerInv, FirstDoesNotFit
  <2>3. CASE ~(gets # <<>> /\ Head(gets).amount <= level)
    <3>1. pc' = "idle" /\ UNCHANGED <<level, gets, fired>>
      BY <1>2, <2>3 DEF try_wake_gets
    <3>2. gets # <<>> => Head(gets).amount > level
      <4>1. gets # <<>> => Head(gets) \in cq_node
        BY <1>1, NodeQueues
      <4>2. gets # <<>> => Head(gets).amount \in Nat
        BY <1>1, <4>1, NodeQueues
      <4> QED
        BY <1>s, <2>3, <4>2
    <3>3. /\ Events(gets)' = Events(gets) /\ Events(fired)' = Events(fired)
          /\ gets' = gets /\ fired' = fired /\ level' = level
      BY <3>1
    <3> QED
      BY <1>1, <2>1, <2>p, <3>1, <3>2, <3>3 DEF ContainerInv, FirstDoesNotFit
  <2> QED
    BY <2>2, <2>3
<1>3. ASSUME try_wake_puts PROVE ContainerInv'
  <2>1. pc = "wake puts" /\ gets = <<>> /\ gets' = gets
    BY <1>3 DEF try_wake_puts, ContainerInv
  <2>g. Events(gets)' = Events(gets)
    BY <2>1
  <2>2. CASE puts # <<>> /\ Fits(Head(puts).amount)
    <3>1. /\ fired' = Append(fired, Head(puts)) /\ puts' = Tail(puts) /\ pc' = pc
          /\ level' = level + Head(puts).amount
      BY <1>3, <2>2 DEF try_wake_puts, serve
    <3>2. /\ Head(puts) \in cq_node /\ Tail(puts) \in Seq(cq_node) /\ Events(puts) # <<>>
          /\ Head(Events(puts)) = Head(puts).event
          /\ Events(Tail(puts)) = Tail(Events(puts))
      BY <1>1, <2>2, NodeQueues
    <3>3. /\ Head(puts).amount \in Nat /\ Append(fired, Head(puts)) \in Seq(cq_node)
          /\ Events(Append(fired, Head(puts))) = Append(Events(fired), Head(puts).event)
      BY <1>1, <3>2, NodeQueues
    <3>4. /\ Apart(Events(Tail(puts)), <<>>, Events(gets), Events(fired))
          /\ Head(puts).event \in Event
          /\ Head(puts).event \notin ToSet(Events(Tail(puts))) \cup ToSet(<<>>)
                                     \cup ToSet(Events(gets)) \cup ToSet(Events(fired))
      <4>1. Apart(Events(puts), <<>>, Events(gets), Events(fired))
        BY <1>1, ApartSwap
      <4> QED
        <5> DEFINE q == Events(puts)
        <5>1. /\ Apart(Tail(q), <<>>, Events(gets), Events(fired)) /\ Head(q) \in Event
              /\ Head(q) \notin ToSet(Tail(q)) \cup ToSet(<<>>) \cup ToSet(Events(gets))
                                \cup ToSet(Events(fired))
          BY <4>1, <3>2, ApartTail
        <5> QED
          BY <3>2, <5>1, Zenon
    <3>5. Apart(Append(Events(fired), Head(puts).event), <<>>, Events(gets), Events(Tail(puts)))
      BY <3>4, ApartSwap, ApartAppend
    <3>6. Apart(Events(gets), <<>>, Events(Tail(puts)), Events(Append(fired, Head(puts))))
      <4>1. Apart(Events(Append(fired, Head(puts))), <<>>, Events(gets), Events(Tail(puts)))
        BY <3>3, <3>5
      <4>2. Apart(Events(gets), <<>>, Events(Append(fired, Head(puts))), Events(Tail(puts)))
        BY <4>1, ApartSwap
      <4>3. Apart(Events(Tail(puts)), <<>>, Events(Append(fired, Head(puts))), Events(gets))
        BY <4>2, ApartSwap
      <4>4. Apart(Events(Append(fired, Head(puts))), <<>>, Events(Tail(puts)), Events(gets))
        BY <4>3, ApartSwap
      <4> QED
        BY <4>4, ApartSwap
    <3>7. Events(puts)' = Events(Tail(puts)) /\ Events(fired)' = Events(Append(fired, Head(puts)))
      BY <3>1
    <3>8. level' \in 0..capacity
      <4>1. /\ Head(puts).amount \in Nat /\ level + Head(puts).amount <= capacity
            /\ level' = level + Head(puts).amount
        BY <2>2, <3>1, <3>3 DEF Fits
      <4> QED
        BY <1>s, <4>1
    <3>9. Apart(Events(gets)', <<>>, Events(puts)', Events(fired)')
      BY <2>g, <3>6, <3>7
    <3>10. puts' \in Seq(cq_node) /\ fired' \in Seq(cq_node)
      BY <3>1, <3>2, <3>3
    <3> QED
      BY <1>1, <2>1, <3>1, <3>8, <3>9, <3>10 DEF ContainerInv, FirstDoesNotFit
  <2>3. CASE ~(puts # <<>> /\ Fits(Head(puts).amount))
    <3>1. pc' = "idle" /\ UNCHANGED <<level, puts, fired>>
      BY <1>3, <2>3 DEF try_wake_puts
    <3>2. puts # <<>> => level + Head(puts).amount > capacity
      <4>1. puts # <<>> => Head(puts) \in cq_node
        BY <1>1, NodeQueues
      <4>2. puts # <<>> => Head(puts).amount \in Nat
        BY <1>1, <4>1, NodeQueues
      <4> QED
        BY <1>s, <2>3, <4>2 DEF Fits
    <3>3. /\ Events(puts)' = Events(puts) /\ Events(fired)' = Events(fired)
          /\ puts' = puts /\ fired' = fired /\ level' = level
      BY <3>1
    <3> QED
      BY <1>1, <2>1, <2>g, <3>1, <3>2, <3>3 DEF ContainerInv, FirstDoesNotFit
  <2> QED
    BY <2>2, <2>3
<1> QED
  BY <1>2, <1>3

LEMMA ContainerProcess ==
  ASSUME ContainerInv, process
  PROVE  ContainerInv'
<1>1. /\ level \in 0..capacity /\ capacity \in Nat /\ pc = "idle"
      /\ gets \in Seq(cq_node) /\ puts \in Seq(cq_node) /\ fired \in Seq(cq_node)
      /\ Apart(Events(gets), <<>>, Events(puts), Events(fired)) /\ fired # <<>>
      /\ fired' = Tail(fired) /\ UNCHANGED <<level, gets, puts, pc>>
  BY AmountsAreNaturals DEF ContainerInv, process
<1>2. /\ Tail(fired) \in Seq(cq_node) /\ Events(fired) # <<>>
      /\ Events(Tail(fired)) = Tail(Events(fired))
  BY <1>1, NodeQueues
<1>3. Apart(Events(gets), <<>>, Events(puts), Events(Tail(fired)))
  <2>1. Apart(Events(fired), <<>>, Events(puts), Events(gets))
    BY <1>1, ApartSwap
  <2>2. Apart(Tail(Events(fired)), <<>>, Events(puts), Events(gets))
    BY <1>2, <2>1, ApartTail
  <2> QED
    BY <1>2, <2>2, ApartSwap
<1>4. Events(gets)' = Events(gets) /\ Events(puts)' = Events(puts)
      /\ Events(fired)' = Events(Tail(fired))
  BY <1>1
<1> QED
  BY <1>1, <1>2, <1>3, <1>4 DEF ContainerInv, FirstDoesNotFit

(* The invariant is inductive.                                             *)
LEMMA ContainerInductive ==
  /\ Init => ContainerInv
  /\ ContainerInv /\ Next => ContainerInv'
  /\ ContainerInv /\ UNCHANGED vars => ContainerInv'
<1>1. ASSUME Init PROVE ContainerInv
  <2>1. <<>> \in Seq(cq_node) /\ <<>> \in Seq(Event) /\ Events(<<>>) = <<>>
    BY DEF Events
  <2>2. Apart(<<>>, <<>>, <<>>, <<>>)
    BY <2>1, EmptyElements DEF Apart
  <2> QED
    BY <1>1, <2>1, <2>2, AmountsAreNaturals DEF Init, ContainerInv, FirstDoesNotFit
<1>2. ASSUME ContainerInv, Next PROVE ContainerInv'
  BY <1>2, ContainerPut, ContainerGet, ContainerWakes, ContainerProcess DEF Next
<1>3. ASSUME ContainerInv, UNCHANGED vars PROVE ContainerInv'
  <2>1. UNCHANGED <<level, gets, puts, fired, pc>>
    BY <1>3 DEF vars
  <2>2. Events(gets)' = Events(gets) /\ Events(puts)' = Events(puts)
        /\ Events(fired)' = Events(fired)
    BY <2>1
  <2> QED
    BY <1>3, <2>1, <2>2 DEF ContainerInv, FirstDoesNotFit
<1> QED
  BY <1>1, <1>2, <1>3

-----------------------------------------------------------------------------
(* The places of the events of a store: those of the gets that wait (w),   *)
(* of the puts accepted (a), of the puts that wait (p) and of the gets     *)
(* answered (r).                                                           *)

Waiter(Thing) == [event : Event, item : Thing]

Places(Thing, w, a, p, r) ==
  /\ p \in Seq(Waiter(Thing)) /\ r \in Seq(Waiter(Thing))
  /\ Apart(w, a, Events(p), Events(r))

Free(e, w, a, p, r) ==
  /\ e \in Event /\ e \notin ToSet(w) /\ e \notin ToSet(a)
  /\ e \notin ToSet(Events(p)) /\ e \notin ToSet(Events(r))

(* What is known of one of the two queues of records.                      *)
LEMMA WaiterQueues ==
  ASSUME NEW Thing, NEW q \in Seq(Waiter(Thing))
  PROVE  /\ \A n \in Waiter(Thing) :
              /\ n.event \in Event /\ n.item \in Thing
              /\ Append(q, n) \in Seq(Waiter(Thing))
              /\ Events(Append(q, n)) = Append(Events(q), n.event)
         /\ q # <<>> => /\ Head(q) \in Waiter(Thing) /\ Tail(q) \in Seq(Waiter(Thing))
                        /\ Events(q) # <<>> /\ Head(Events(q)) = Head(q).event
                        /\ Events(Tail(q)) = Tail(Events(q))
<1>1. \A n \in Waiter(Thing) : n.event \in Event /\ n.item \in Thing
  BY DEF Waiter
<1>2. \A n \in Waiter(Thing) : /\ Append(q, n) \in Seq(Waiter(Thing))
                               /\ Events(Append(q, n)) = Append(Events(q), n.event)
  BY EventsAppend
<1>3. q # <<>> => /\ Head(q) \in Waiter(Thing) /\ Tail(q) \in Seq(Waiter(Thing))
                  /\ Events(q) # <<>> /\ Head(Events(q)) = Head(q).event
                  /\ Events(Tail(q)) = Tail(Events(q))
  BY EventsTail
<1> QED
  BY <1>1, <1>2, <1>3, Zenon

(* An unused event waits, or is accepted.                                  *)
LEMMA NewPlace ==
  ASSUME NEW Thing, NEW w, NEW a, NEW p, NEW r, Places(Thing, w, a, p, r),
         NEW e, Free(e, w, a, p, r)
  PROVE  Places(Thing, Append(w, e), a, p, r) /\ Places(Thing, w, Append(a, e), p, r)
<1>1. e \in Event /\ e \notin ToSet(w) \cup ToSet(a) \cup ToSet(Events(p)) \cup ToSet(Events(r))
  BY DEF Free
<1>2. Apart(w, a, Events(p), Events(r)) /\ Apart(a, w, Events(p), Events(r))
  BY ApartSwap DEF Places
<1>3. Apart(Append(w, e), a, Events(p), Events(r)) /\ Apart(Append(a, e), w, Events(p), Events(r))
  BY <1>1, <1>2, ApartAppend
<1> QED
  BY <1>3, ApartSwap DEF Places

(* The same with an item: it waits to put, or is answered.                 *)
LEMMA NewPlaceWith ==
  ASSUME NEW Thing, NEW w, NEW a, NEW p, NEW r, Places(Thing, w, a, p, r),
         NEW n \in Waiter(Thing), Free(n.event, w, a, p, r)
  PROVE  Places(Thing, w, a, Append(p, n), r) /\ Places(Thing, w, a, p, Append(r, n))
<1> DEFINE e == n.event
<1>1. e \in Event /\ e \notin ToSet(w) \cup ToSet(a) \cup ToSet(Events(p)) \cup ToSet(Events(r))
  BY DEF Free
<1>2. /\ Apart(Events(p), a, w, Events(r)) /\ Apart(Events(r), a, Events(p), w)
      /\ p \in Seq(Waiter(Thing)) /\ r \in Seq(Waiter(Thing))
  BY ApartSwap DEF Places
<1> HIDE DEF e
<1>3. Apart(Append(Events(p), e), a, w, Events(r)) /\ Apart(Append(Events(r), e), a, Events(p), w)
  BY <1>1, <1>2, ApartAppend
<1>4. Apart(w, a, Append(Events(p), e), Events(r)) /\ Apart(w, a, Events(p), Append(Events(r), e))
  BY <1>3, ApartSwap
<1>5. /\ Append(p, n) \in Seq(Waiter(Thing)) /\ Events(Append(p, n)) = Append(Events(p), e)
      /\ Append(r, n) \in Seq(Waiter(Thing)) /\ Events(Append(r, n)) = Append(Events(r), e)
  BY <1>2, WaiterQueues DEF e
<1> QED
  BY <1>2, <1>4, <1>5 DEF Places

(* The first waiting get is answered.                                      *)
LEMMA FirstAnswered ==
  ASSUME NEW Thing, NEW w, NEW a, NEW p, NEW r, Places(Thing, w, a, p, r),
         w # <<>>, NEW x \in Thing
  PROVE  LET n == [event |-> Head(w), item |-> x] IN
         /\ n \in Waiter(Thing) /\ n.event = Head(w) /\ n.item = x
         /\ Places(Thing, Tail(w), a, p, Append(r, n))
         /\ \A e : Free(e, w, a, p, r) => Free(e, Tail(w), a, p, Append(r, n))
<1> DEFINE n == [event |-> Head(w), item |-> x]
<1>1. Apart(w, a, Events(p), Events(r)) /\ r \in Seq(Waiter(Thing))
  BY DEF Places
<1>2. /\ Apart(Tail(w), a, Events(p), Events(r)) /\ Head(w) \in Event
      /\ Head(w) \notin ToSet(Tail(w)) \cup ToSet(a) \cup ToSet(Events(p)) \cup ToSet(Events(r))
      /\ ToSet(w) = {Head(w)} \cup ToSet(Tail(w))
  BY <1>1, ApartTail
<1>3. n \in Waiter(Thing) /\ n.event = Head(w) /\ n.item = x
  BY <1>2 DEF Waiter
<1> HIDE DEF n
<1>4. Places(Thing, Tail(w), a, p, r) /\ Free(n.event, Tail(w), a, p, r)
  BY <1>2, <1>3 DEF Places, Free
<1>5. Places(Thing, Tail(w), a, p, Append(r, n))
  BY <1>3, <1>4, NewPlaceWith
<1>6. ToSet(Events(Append(r, n))) = ToSet(Events(r)) \cup {Head(w)}
  <2>1. Events(r) \in Seq(Event) /\ Events(Append(r, n)) = Append(Events(r), n.event)
    BY <1>1, <1>3, WaiterQueues DEF Apart
  <2> QED
    BY <1>2, <1>3, <2>1, AppendElements
<1>7. ASSUME NEW e, Free(e, w, a, p, r) PROVE Free(e, Tail(w), a, p, Append(r, n))
  BY <1>2, <1>6, <1>7 DEF Free
<1> QED
  BY <1>3, <1>5, <1>7 DEF n

(* The first waiting put is accepted.                                      *)
LEMMA FirstAccepted ==
  ASSUME NEW Thing, NEW w, NEW a, NEW p, NEW r, Places(Thing, w, a, p, r), p # <<>>
  PROVE  Places(Thing, w, Append(a, Head(p).event), Tail(p), r) /\ Head(p).item \in Thing
<1> DEFINE q == Events(p)
<1>1. Apart(q, a, w, Events(r)) /\ p \in Seq(Waiter(Thing)) /\ r \in Seq(Waiter(Thing))
  BY ApartSwap DEF Places
<1>2. /\ Tail(p) \in Seq(Waiter(Thing)) /\ q # <<>> /\ Head(q) = Head(p).event
      /\ Events(Tail(p)) = Tail(q) /\ Head(p).item \in Thing
  BY <1>1, WaiterQueues
<1> HIDE DEF q
<1>3. /\ Apart(Tail(q), a, w, Events(r)) /\ Head(q) \in Event
      /\ Head(q) \notin ToSet(Tail(q)) \cup ToSet(a) \cup ToSet(w) \cup ToSet(Events(r))
  BY <1>1, <1>2, ApartTail
<1>4. /\ Places(Thing, w, a, Tail(p), r)
      /\ Free(Head(p).event, w, a, Tail(p), r)
  <2>1. Apart(w, a, Tail(q), Events(r))
    BY <1>3, ApartSwap
  <2> QED
    BY <1>1, <1>2, <1>3, <2>1 DEF Places, Free
<1> QED
  BY <1>2, <1>4, NewPlace

(* A triggered event is processed.                                         *)
LEMMA PlaceLeft ==
  ASSUME NEW Thing, NEW w, NEW a, NEW p, NEW r, Places(Thing, w, a, p, r)
  PROVE  /\ a # <<>> => Places(Thing, w, Tail(a), p, r)
         /\ r # <<>> => Places(Thing, w, a, p, Tail(r))
<1> DEFINE q == Events(r)
<1>1. /\ Apart(a, w, Events(p), q) /\ Apart(q, a, Events(p), w)
      /\ p \in Seq(Waiter(Thing)) /\ r \in Seq(Waiter(Thing))
  BY ApartSwap DEF Places
<1>2. r # <<>> => Tail(r) \in Seq(Waiter(Thing)) /\ q # <<>> /\ Events(Tail(r)) = Tail(q)
  BY <1>1, WaiterQueues
<1> HIDE DEF q
<1>3. a # <<>> => Apart(w, Tail(a), Events(p), q)
  BY <1>1, ApartTail, ApartSwap
<1>4. r # <<>> => Apart(w, a, Events(p), Tail(q))
  BY <1>1, <1>2, ApartTail, ApartSwap
<1> QED
  BY <1>1, <1>2, <1>3, <1>4 DEF Places, q

-----------------------------------------------------------------------------
(* The plain and the priority store, whose gets wait only while there is   *)
(* nothing to get and whose puts wait only while there is no room.         *)

RoomIn(rm, buf) == rm <= 0 \/ Len(buf) < rm

WaitFor(rm, buf, w, p) ==
  /\ w # <<>> => buf = <<>> /\ p = <<>>
  /\ p # <<>> => ~RoomIn(rm, buf)
  /\ rm > 0 => Len(buf) <= rm

StoreOf(Thing, rm, buf, w, a, p, r) ==
  /\ Places(Thing, w, a, p, r)
  /\ rm \in Capacities /\ buf \in Seq(Thing)
  /\ WaitFor(rm, buf, w, p)

(* Where there is no room, there is something to get, and nobody waits.    *)
LEMMA NoRoom ==
  ASSUME NEW Thing, NEW rm, NEW buf, NEW w, NEW a, NEW p, NEW r,
         StoreOf(Thing, rm, buf, w, a, p, r)
  PROVE  /\ rm \in Int /\ Len(buf) \in Nat
         /\ ~RoomIn(rm, buf) => buf # <<>> /\ w = <<>> /\ rm > 0 /\ Len(buf) = rm
         /\ buf = <<>> => p = <<>>
<1>1. rm \in Int /\ buf \in Seq(Thing) /\ Len(buf) \in Nat
  BY CapacitiesAreIntegers DEF StoreOf
<1>2. buf = <<>> => Len(buf) = 0
  BY <1>1
<1>3. ~RoomIn(rm, buf) => buf # <<>> /\ rm > 0 /\ Len(buf) = rm
  BY <1>1, <1>2 DEF StoreOf, WaitFor, RoomIn
<1> QED
  BY <1>1, <1>3 DEF StoreOf, WaitFor

(* A put: its item goes to the first get that waits, to the buffer, or     *)
(* nowhere yet.                                                            *)
LEMMA StorePut ==
  ASSUME NEW Thing, NEW rm, NEW buf, NEW w, NEW a, NEW p, NEW r,
         StoreOf(Thing, rm, buf, w, a, p, r),
         NEW e, Free(e, w, a, p, r), NEW x \in Thing
  PROVE  /\ w # <<>> => StoreOf(Thing, rm, buf, Tail(w), Append(a, e), p,
                                Append(r, [event |-> Head(w), item |-> x]))
         /\ w = <<>> /\ RoomIn(rm, buf) =>
              \A more \in Seq(Thing) : Len(more) = Len(buf) + 1 =>
                StoreOf(Thing, rm, more, w, Append(a, e), p, r)
         /\ ~RoomIn(rm, buf) =>
              StoreOf(Thing, rm, buf, w, a, Append(p, [event |-> e, item |-> x]), r)
<1>1. /\ Places(Thing, w, a, p, r) /\ rm \in Capacities /\ buf \in Seq(Thing)
      /\ WaitFor(rm, buf, w, p) /\ e \in Event
  BY DEF StoreOf, Free
<1>2. ASSUME w # <<>>
      PROVE  StoreOf(Thing, rm, buf, Tail(w), Append(a, e), p,
                     Append(r, [event |-> Head(w), item |-> x]))
  <2> DEFINE n == [event |-> Head(w), item |-> x]
             v == Tail(w)
             s == Append(r, n)
  <2>1. Places(Thing, v, a, p, s) /\ Free(e, v, a, p, s)
    BY <1>1, <1>2, FirstAnswered
  <2>2. WaitFor(rm, buf, v, p)
    BY <1>1, <1>2 DEF WaitFor
  <2> HIDE DEF s, v
  <2>3. Places(Thing, v, Append(a, e), p, s)
    BY <2>1, NewPlace
  <2> QED
    BY <1>1, <2>2, <2>3 DEF StoreOf, s, v
<1>3. ASSUME w = <<>>, RoomIn(rm, buf), NEW more \in Seq(Thing), Len(more) = Len(buf) + 1
      PROVE  StoreOf(Thing, rm, more, w, Append(a, e), p, r)
  <2>1. Places(Thing, w, Append(a, e), p, r)
    BY <1>1, NewPlace
  <2>2. rm \in Int /\ Len(buf) \in Nat
    BY NoRoom
  <2>3. WaitFor(rm, more, w, p)
    BY <1>1, <1>3, <2>2 DEF WaitFor, RoomIn
  <2> QED
    BY <1>1, <2>1, <2>3 DEF StoreOf
<1>4. ASSUME ~RoomIn(rm, buf)
      PROVE  StoreOf(Thing, rm, buf, w, a, Append(p, [event |-> e, item |-> x]), r)
  <2> DEFINE n == [event |-> e, item |-> x]
  <2>1. n \in Waiter(Thing) /\ n.event = e
    BY <1>1 DEF Waiter
  <2> HIDE DEF n
  <2>2. Places(Thing, w, a, Append(p, n), r)
    BY <1>1, <2>1, NewPlaceWith
  <2>3. WaitFor(rm, buf, w, Append(p, n))
    BY <1>1, <1>4, NoRoom DEF WaitFor
  <2> QED
    BY <1>1, <2>2, <2>3 DEF StoreOf, n
<1> QED
  BY <1>2, <1>3, <1>4

(* A get: it takes the head of the buffer, and a put that waits may take   *)
(* the room; or there is nothing to get.                                   *)
LEMMA StoreGet ==
  ASSUME NEW Thing, NEW rm, NEW buf, NEW w, NEW a, NEW p, NEW r,
         StoreOf(Thing, rm, buf, w, a, p, r), NEW e, Free(e, w, a, p, r)
  PROVE  /\ buf # <<>> /\ p = <<>> =>
              StoreOf(Thing, rm, Tail(buf), w, a, p,
                      Append(r, [event |-> e, item |-> Head(buf)]))
         /\ buf # <<>> /\ p # <<>> =>
              /\ Head(p).item \in Thing
              /\ \A more \in Seq(Thing) : Len(more) = Len(buf) =>
                   StoreOf(Thing, rm, more, w, Append(a, Head(p).event), Tail(p),
                           Append(r, [event |-> e, item |-> Head(buf)]))
         /\ buf = <<>> => StoreOf(Thing, rm, buf, Append(w, e), a, p, r)
<1>1. /\ Places(Thing, w, a, p, r) /\ rm \in Capacities /\ buf \in Seq(Thing)
      /\ WaitFor(rm, buf, w, p) /\ e \in Event
  BY DEF StoreOf, Free
<1>2. rm \in Int /\ Len(buf) \in Nat
  BY NoRoom
<1>3. ASSUME buf # <<>>
      PROVE  /\ w = <<>> /\ Tail(buf) \in Seq(Thing) /\ Len(Tail(buf)) = Len(buf) - 1
             /\ Places(Thing, w, a, p, Append(r, [event |-> e, item |-> Head(buf)]))
  <2> DEFINE n == [event |-> e, item |-> Head(buf)]
  <2>1. n \in Waiter(Thing) /\ n.event = e
    BY <1>1, <1>3 DEF Waiter
  <2> HIDE DEF n
  <2>2. Places(Thing, w, a, p, Append(r, n))
    BY <1>1, <2>1, NewPlaceWith
  <2>3. w = <<>>
    BY <1>1, <1>3 DEF WaitFor
  <2>4. Tail(buf) \in Seq(Thing) /\ Len(Tail(buf)) = Len(buf) - 1
    BY <1>1, <1>3
  <2> QED
    BY <2>2, <2>3, <2>4 DEF n
<1>4. ASSUME buf # <<>>, p = <<>>
      PROVE  StoreOf(Thing, rm, Tail(buf), w, a, p,
                     Append(r, [event |-> e, item |-> Head(buf)]))
  <2> DEFINE left == Tail(buf)
  <2>1. left \in Seq(Thing) /\ Len(left) = Len(buf) - 1 /\ w = <<>>
    BY <1>3, <1>4
  <2> HIDE DEF left
  <2>2. WaitFor(rm, left, w, p)
    BY <1>1, <1>2, <1>4, <2>1 DEF WaitFor
  <2> QED
    BY <1>1, <1>3, <1>4, <2>1, <2>2 DEF StoreOf, left
<1>5. ASSUME buf # <<>>, p # <<>>
      PROVE  /\ Head(p).item \in Thing
             /\ \A more \in Seq(Thing) : Len(more) = Len(buf) =>
                   StoreOf(Thing, rm, more, w, Append(a, Head(p).event), Tail(p),
                           Append(r, [event |-> e, item |-> Head(buf)]))
  <2> DEFINE s == Append(r, [event |-> e, item |-> Head(buf)])
  <2>1. Places(Thing, w, a, p, s) /\ w = <<>>
    BY <1>3, <1>5
  <2> HIDE DEF s
  <2>2. Places(Thing, w, Append(a, Head(p).event), Tail(p), s) /\ Head(p).item \in Thing
    BY <1>5, <2>1, FirstAccepted
  <2>3. ~RoomIn(rm, buf) /\ rm > 0 /\ Len(buf) = rm
    BY <1>1, <1>5, NoRoom DEF WaitFor
  <2>4. ASSUME NEW more \in Seq(Thing), Len(more) = Len(buf)
        PROVE  WaitFor(rm, more, w, Tail(p))
    BY <1>2, <2>1, <2>3, <2>4 DEF WaitFor, RoomIn
  <2> QED
    BY <1>1, <2>2, <2>4 DEF StoreOf, s
<1>6. ASSUME buf = <<>> PROVE StoreOf(Thing, rm, buf, Append(w, e), a, p, r)
  <2>1. Places(Thing, Append(w, e), a, p, r)
    BY <1>1, NewPlace
  <2>2. WaitFor(rm, buf, Append(w, e), p)
    BY <1>1, <1>6, NoRoom DEF WaitFor
  <2> QED
    BY <1>1, <2>1, <2>2 DEF StoreOf
<1> QED
  BY <1>4, <1>5, <1>6

LEMMA StoreProcess ==
  ASSUME NEW Thing, NEW rm, NEW buf, NEW w, NEW a, NEW p, NEW r,
         StoreOf(Thing, rm, buf, w, a, p, r)
  PROVE  /\ a # <<>> => StoreOf(Thing, rm, buf, w, Tail(a), p, r)
         /\ r # <<>> => StoreOf(Thing, rm, buf, w, a, p, Tail(r))
BY PlaceLeft DEF StoreOf


(* What the modules say of the events in use.                              *)
LEMMA PlacesUsed ==
  ASSUME NEW Thing, NEW w, NEW a, NEW p, NEW r, Places(Thing, w, a, p, r)
  PROVE  /\ IsInjective(w \o a \o Events(p) \o Events(r))
         /\ \A e \in Event :
              e \notin ToSet(w) \cup ToSet(a \o Events(p) \o Events(r)) =>
                Free(e, w, a, p, r)
<1>1. Apart(w, a, Events(p), Events(r))
  BY DEF Places
<1>2. /\ IsInjective(w \o a \o Events(p) \o Events(r))
      /\ ToSet(a \o Events(p) \o Events(r)) = ToSet(a) \cup ToSet(Events(p)) \cup ToSet(Events(r))
  BY <1>1, ApartInjective
<1> QED
  BY <1>2 DEF Free

LEMMA EmptyStore ==
  ASSUME NEW Thing, NEW rm \in Capacities
  PROVE  StoreOf(Thing, rm, <<>>, <<>>, <<>>, <<>>, <<>>)
<1>1. /\ <<>> \in Seq(Thing) /\ <<>> \in Seq(Waiter(Thing)) /\ <<>> \in Seq(Event)
      /\ Events(<<>>) = <<>> /\ Len(<<>>) = 0
  BY DEF Events
<1>2. rm \in Int
  BY CapacitiesAreIntegers
<1>3. Apart(<<>>, <<>>, <<>>, <<>>)
  BY <1>1, EmptyElements DEF Apart
<1>4. WaitFor(rm, <<>>, <<>>, <<>>)
  BY <1>1, <1>2 DEF WaitFor
<1> QED
  BY <1>1, <1>3, <1>4 DEF StoreOf, Places

-----------------------------------------------------------------------------
(* The plain store.                                                        *)

FifoInv == StoreOf(Item, room, items, gets, accepted, puts, answered)

LEMMA FifoPut ==
  ASSUME FifoInv, NEW e \in Event, NEW x \in Item, S!sim_store_put(e, x)
  PROVE  FifoInv'
<1>1. /\ Places(Item, gets, accepted, puts, answered)
      /\ items \in Seq(Item)
  BY DEF FifoInv, StoreOf
<1>2. Free(e, gets, accepted, puts, answered)
  <2>1. e \notin ToSet(gets) \cup ToSet(accepted \o Events(puts) \o Events(answered))
    BY DEF S!sim_store_put, S!Unused, S!ToSet, S!EventsOf, ToSet, Events
  <2> QED
    BY <1>1, <2>1, PlacesUsed
<1>3. room' = room
  BY DEF S!sim_store_put
<1>4. CASE gets # <<>>
  <2>1. /\ answered' = Append(answered, [event |-> Head(gets), item |-> x])
        /\ gets' = Tail(gets) /\ accepted' = Append(accepted, e)
        /\ items' = items /\ puts' = puts
    BY <1>4 DEF S!sim_store_put, S!GetWaits, S!accept, S!Answer
  <2>2. StoreOf(Item, room, items, Tail(gets), Append(accepted, e), puts,
                Append(answered, [event |-> Head(gets), item |-> x]))
    BY <1>2, <1>4, StorePut DEF FifoInv
  <2> QED
    BY <1>3, <2>1, <2>2, Zenon DEF FifoInv
<1>5. CASE gets = <<>> /\ RoomIn(room, items)
  <2>1. /\ items' = Append(items, x) /\ accepted' = Append(accepted, e)
        /\ gets' = gets /\ puts' = puts /\ answered' = answered
    BY <1>5 DEF S!sim_store_put, S!GetWaits, S!HasRoom, S!accept, RoomIn
  <2>2. Append(items, x) \in Seq(Item) /\ Len(Append(items, x)) = Len(items) + 1
    BY <1>1
  <2>3. StoreOf(Item, room, Append(items, x), gets, Append(accepted, e), puts, answered)
    BY <1>2, <1>5, <2>2, StorePut DEF FifoInv
  <2> QED
    BY <1>3, <2>1, <2>3, Zenon DEF FifoInv
<1>6. CASE gets = <<>> /\ ~RoomIn(room, items)
  <2>1. /\ puts' = Append(puts, [event |-> e, item |-> x]) /\ items' = items
        /\ gets' = gets /\ accepted' = accepted /\ answered' = answered
    BY <1>6 DEF S!sim_store_put, S!GetWaits, S!HasRoom, S!wait_put, S!Answer, RoomIn
  <2>2. StoreOf(Item, room, items, gets, accepted,
                Append(puts, [event |-> e, item |-> x]), answered)
    BY <1>2, <1>6, StorePut DEF FifoInv
  <2> QED
    BY <1>3, <2>1, <2>2, Zenon DEF FifoInv
<1> QED
  BY <1>4, <1>5, <1>6

LEMMA FifoGet ==
  ASSUME FifoInv, NEW e \in Event, S!sim_store_get(e)
  PROVE  FifoInv'
<1>1. /\ Places(Item, gets, accepted, puts, answered)
      /\ items \in Seq(Item)
  BY DEF FifoInv, StoreOf
<1>2. Free(e, gets, accepted, puts, answered)
  <2>1. e \notin ToSet(gets) \cup ToSet(accepted \o Events(puts) \o Events(answered))
    BY DEF S!sim_store_get, S!Unused, S!ToSet, S!EventsOf, ToSet, Events
  <2> QED
    BY <1>1, <2>1, PlacesUsed
<1>3. room' = room
  BY DEF S!sim_store_get
<1>4. CASE items # <<>> /\ puts = <<>>
  <2>1. /\ answered' = Append(answered, [event |-> e, item |-> Head(items)])
        /\ items' = Tail(items) /\ gets' = gets /\ puts' = puts /\ accepted' = accepted
    BY <1>4 DEF S!sim_store_get, S!pull_put, S!Answer
  <2>2. StoreOf(Item, room, Tail(items), gets, accepted, puts,
                Append(answered, [event |-> e, item |-> Head(items)]))
    BY <1>2, <1>4, StoreGet DEF FifoInv
  <2> QED
    BY <1>3, <2>1, <2>2, Zenon DEF FifoInv
<1>5. CASE items # <<>> /\ puts # <<>>
  <2> DEFINE more == Append(Tail(items), Head(puts).item)
  <2>1. /\ answered' = Append(answered, [event |-> e, item |-> Head(items)])
        /\ items' = more /\ gets' = gets
        /\ puts' = Tail(puts) /\ accepted' = Append(accepted, Head(puts).event)
    BY <1>5 DEF S!sim_store_get, S!pull_put, S!accept, S!Answer
  <2>2. Head(puts).item \in Item
    BY <1>2, <1>5, StoreGet DEF FifoInv
  <2>3. more \in Seq(Item) /\ Len(more) = Len(items)
    BY <1>1, <1>5, <2>2
  <2> HIDE DEF more
  <2>4. StoreOf(Item, room, more, gets, Append(accepted, Head(puts).event), Tail(puts),
                Append(answered, [event |-> e, item |-> Head(items)]))
    BY <1>2, <1>5, <2>3, StoreGet DEF FifoInv
  <2> QED
    BY <1>3, <2>1, <2>4, Zenon DEF FifoInv
<1>6. CASE items = <<>>
  <2>1. /\ gets' = Append(gets, e) /\ items' = items /\ puts' = puts
        /\ answered' = answered /\ accepted' = accepted
    BY <1>6 DEF S!sim_store_get, S!waiter_push
  <2>2. StoreOf(Item, room, items, Append(gets, e), accepted, puts, answered)
    BY <1>2, <1>6, StoreGet DEF FifoInv
  <2> QED
    BY <1>3, <2>1, <2>2, Zenon DEF FifoInv
<1> QED
  BY <1>4, <1>5, <1>6

LEMMA FifoInductive ==
  /\ S!Init => FifoInv
  /\ FifoInv /\ S!Next => FifoInv'
  /\ FifoInv /\ UNCHANGED <<vars, S!vars>> => FifoInv'
<1>1. ASSUME S!Init PROVE FifoInv
  BY <1>1, EmptyStore DEF S!Init, FifoInv
<1>2. ASSUME FifoInv, S!process PROVE FifoInv'
  <2>1. \/ /\ accepted # <<>> /\ accepted' = Tail(accepted) /\ answered' = answered
           /\ room' = room /\ items' = items /\ gets' = gets /\ puts' = puts
        \/ /\ answered # <<>> /\ answered' = Tail(answered) /\ accepted' = accepted
           /\ room' = room /\ items' = items /\ gets' = gets /\ puts' = puts
    BY <1>2 DEF S!process
  <2>2. /\ accepted # <<>> =>
             StoreOf(Item, room, items, gets, Tail(accepted), puts, answered)
        /\ answered # <<>> =>
             StoreOf(Item, room, items, gets, accepted, puts, Tail(answered))
    BY <1>2, StoreProcess DEF FifoInv
  <2> QED
    BY <2>1, <2>2, Zenon DEF FifoInv
<1>3. ASSUME FifoInv, UNCHANGED <<vars, S!vars>> PROVE FifoInv'
  BY <1>3 DEF vars, S!vars, FifoInv
<1> QED
  BY <1>1, <1>2, <1>3, FifoPut, FifoGet DEF S!Next


-----------------------------------------------------------------------------
(* The priority store.                                                     *)

RankedInv ==
  /\ StoreOf(P!ps_item, room, items, gets, accepted, puts, answered)
  /\ SortedByPriority(items)

(* The items of a sorted buffer, and what the order compares.              *)
Ranked(buf) ==
  /\ buf \in Seq(P!ps_item) /\ SortedByPriority(buf)
  /\ \A x \in P!ps_item : x.priority \in Priorities /\ x.priority \in Int

LEMMA ItemPriorities == \A x \in P!ps_item : x.priority \in Priorities /\ x.priority \in Int
BY PrioritiesAreIntegers DEF P!ps_item

(* item_insert_sorted is Placed.                                           *)
LEMMA ItemSorted ==
  ASSUME NEW T, NEW s \in Seq(T), NEW n
  PROVE  P!item_insert_sorted(s, n) = Placed(s, n)
<1> DEFINE Q == {k \in 1..Len(s) : n.priority < s[k].priority}
           k == IF Q # {} THEN Min(Q) ELSE 0
<1>1. P!item_insert_sorted(s, n) = IF k = 0 THEN Append(s, n) ELSE InsertAt(s, k, n)
  BY Zenon DEF P!item_insert_sorted, P!SelectInSeq, P!Min, P!InsertAt, Min, InsertAt
<1>2. Q # {} => Min(Q) # 0
  <2>1. Q \subseteq Nat /\ 0 \notin Q
    OBVIOUS
  <2> HIDE DEF Q
  <2> QED
    BY <2>1, MinLeast
<1>3. Placed(s, n) = IF Q = {} THEN Append(s, n) ELSE InsertAt(s, Min(Q), n)
  BY Zenon DEF Placed
<1>4. CASE Q = {}
  <2>1. k = 0 /\ Placed(s, n) = Append(s, n)
    BY <1>3, <1>4, Zenon
  <2> HIDE DEF k
  <2> QED
    BY <1>1, <2>1, Zenon
<1>5. CASE Q # {}
  <2>1. k = Min(Q) /\ k # 0 /\ Placed(s, n) = InsertAt(s, Min(Q), n)
    BY <1>2, <1>3, <1>5, Zenon
  <2> HIDE DEF k, Q
  <2> QED
    BY <1>1, <2>1, Zenon
<1> QED
  BY <1>4, <1>5

(* A newcomer is placed somewhere in the buffer, and in an empty buffer it *)
(* is the head.                                                            *)
LEMMA ItemPlaced ==
  ASSUME NEW buf, Ranked(buf), NEW x \in P!ps_item
  PROVE  LET a == P!item_insert_sorted(buf, x) IN
         /\ Ranked(a) /\ Len(a) = Len(buf) + 1
         /\ buf = <<>> => Head(a) = x /\ Tail(a) = buf
         /\ a = Placed(buf, x)
<1> DEFINE a == Placed(buf, x)
<1>1. /\ buf \in Seq(P!ps_item) /\ SortedByPriority(buf)
      /\ \A y \in P!ps_item : y.priority \in Int
  BY DEF Ranked
<1>2. P!item_insert_sorted(buf, x) = a
  BY <1>1, ItemSorted
<1>3. a \in Seq(P!ps_item) /\ Len(a) = Len(buf) + 1
  BY <1>1, PlacedPositions
<1>4. SortedByPriority(a)
  BY <1>1, PlacedSorted
<1>5. ASSUME buf = <<>> PROVE Head(a) = x /\ Tail(a) = buf
  <2>1. {k \in 1..Len(buf) : x.priority < buf[k].priority} = {}
    BY <1>5
  <2>2. a = Append(buf, x)
    BY <2>1, Zenon DEF Placed
  <2>3. Head(Append(buf, x)) = x /\ Tail(Append(buf, x)) = buf
    BY <1>5
  <2> HIDE DEF a
  <2> QED
    BY <2>2, <2>3, Zenon
<1> HIDE DEF a
<1>7. Ranked(a)
  BY <1>3, <1>4 DEF Ranked
<1> QED
  BY <1>2, <1>3, <1>5, <1>7, Zenon DEF a

LEMMA RankedPut ==
  ASSUME RankedInv, NEW e \in Event, NEW x \in P!ps_item, P!sim_priority_store_put(e, x)
  PROVE  RankedInv'
<1> DEFINE placed == P!item_insert_sorted(items, x)
<1>1. /\ Places(P!ps_item, gets, accepted, puts, answered)
      /\ items \in Seq(P!ps_item) /\ Ranked(items)
  BY ItemPriorities DEF RankedInv, StoreOf, Ranked
<1>2. Free(e, gets, accepted, puts, answered)
  <2>1. e \notin ToSet(gets) \cup ToSet(accepted \o Events(puts) \o Events(answered))
    BY DEF P!sim_priority_store_put, P!Unused, P!ToSet, P!EventsOf, ToSet, Events
  <2> QED
    BY <1>1, <2>1, PlacesUsed
<1>3. room' = room
  BY DEF P!sim_priority_store_put
<1>p. /\ placed \in Seq(P!ps_item) /\ Len(placed) = Len(items) + 1
      /\ items = <<>> => Head(placed) = x /\ Tail(placed) = items
      /\ SortedByPriority(placed)
  BY <1>1, ItemPlaced DEF Ranked
<1>s. SortedByPriority(items)
  BY DEF RankedInv
<1> HIDE DEF placed
<1>4. CASE gets # <<>> /\ RoomIn(room, items)
  <2>1. /\ answered' = Append(answered, [event |-> Head(gets), item |-> Head(placed)])
        /\ gets' = Tail(gets) /\ accepted' = Append(accepted, e)
        /\ items' = Tail(placed) /\ puts' = puts
    BY <1>4, Zenon DEF P!sim_priority_store_put, P!HasRoom, P!accept, P!Answer, RoomIn, placed
  <2>2. Head(placed) = x /\ Tail(placed) = items
    BY <1>p, <1>4 DEF RankedInv, StoreOf, WaitFor
  <2>3. StoreOf(P!ps_item, room, items, Tail(gets), Append(accepted, e), puts,
                Append(answered, [event |-> Head(gets), item |-> x]))
    BY <1>2, <1>4, StorePut DEF RankedInv
  <2> QED
    BY <1>3, <1>s, <2>1, <2>2, <2>3, Zenon DEF RankedInv
<1>5. CASE gets = <<>> /\ RoomIn(room, items)
  <2>1. /\ items' = placed /\ accepted' = Append(accepted, e)
        /\ gets' = gets /\ puts' = puts /\ answered' = answered
    BY <1>5 DEF P!sim_priority_store_put, P!HasRoom, P!accept, RoomIn, placed
  <2>2. StoreOf(P!ps_item, room, placed, gets, Append(accepted, e), puts, answered)
    BY <1>2, <1>p, <1>5, StorePut DEF RankedInv
  <2> QED
    BY <1>3, <1>p, <1>s, <2>1, <2>2, Zenon DEF RankedInv
<1>6. CASE ~RoomIn(room, items)
  <2>1. /\ puts' = Append(puts, [event |-> e, item |-> x]) /\ items' = items
        /\ gets' = gets /\ accepted' = accepted /\ answered' = answered
    BY <1>6 DEF P!sim_priority_store_put, P!HasRoom, P!wait_put, P!Answer, RoomIn
  <2>2. StoreOf(P!ps_item, room, items, gets, accepted,
                Append(puts, [event |-> e, item |-> x]), answered)
    BY <1>2, <1>6, StorePut DEF RankedInv
  <2> QED
    BY <1>3, <1>p, <1>s, <2>1, <2>2, Zenon DEF RankedInv
<1> QED
  BY <1>4, <1>5, <1>6

LEMMA RankedGet ==
  ASSUME RankedInv, NEW e \in Event, P!sim_priority_store_get(e)
  PROVE  RankedInv'
<1>1. /\ Places(P!ps_item, gets, accepted, puts, answered)
      /\ items \in Seq(P!ps_item) /\ Ranked(items)
  BY ItemPriorities DEF RankedInv, StoreOf, Ranked
<1>2. Free(e, gets, accepted, puts, answered)
  <2>1. e \notin ToSet(gets) \cup ToSet(accepted \o Events(puts) \o Events(answered))
    BY DEF P!sim_priority_store_get, P!Unused, P!ToSet, P!EventsOf, ToSet, Events
  <2> QED
    BY <1>1, <2>1, PlacesUsed
<1>3. room' = room
  BY DEF P!sim_priority_store_get
<1>s. /\ SortedByPriority(items)
      /\ items # <<>> => Ranked(Tail(items)) /\ SortedByPriority(Tail(items))
  <2>1. items # <<>> => Tail(items) \in Seq(P!ps_item) /\ SortedByPriority(Tail(items))
    BY <1>1, SortedTail DEF Ranked
  <2> QED
    BY <1>1, <2>1 DEF Ranked
<1>4. CASE items # <<>> /\ puts = <<>>
  <2>1. /\ answered' = Append(answered, [event |-> e, item |-> Head(items)])
        /\ items' = Tail(items) /\ gets' = gets /\ puts' = puts /\ accepted' = accepted
    BY <1>4 DEF P!sim_priority_store_get, P!Answer
  <2>2. StoreOf(P!ps_item, room, Tail(items), gets, accepted, puts,
                Append(answered, [event |-> e, item |-> Head(items)]))
    BY <1>2, <1>4, StoreGet DEF RankedInv
  <2> QED
    BY <1>3, <1>4, <1>s, <2>1, <2>2, Zenon DEF RankedInv
<1>5. CASE items # <<>> /\ puts # <<>>
  <2> DEFINE more == P!item_insert_sorted(Tail(items), Head(puts).item)
  <2>1. /\ answered' = Append(answered, [event |-> e, item |-> Head(items)])
        /\ items' = more /\ gets' = gets
        /\ puts' = Tail(puts) /\ accepted' = Append(accepted, Head(puts).event)
    BY <1>5, Zenon DEF P!sim_priority_store_get, P!accept, P!Answer
  <2>2. Head(puts).item \in P!ps_item
    BY <1>2, <1>5, StoreGet DEF RankedInv
  <2>3. more \in Seq(P!ps_item) /\ Len(more) = Len(items) /\ SortedByPriority(more)
    <3> DEFINE left == Tail(items)
    <3>1. Ranked(left) /\ Len(left) = Len(items) - 1 /\ Len(items) \in Nat
      BY <1>1, <1>5, <1>s
    <3> HIDE DEF left
    <3>2. /\ Ranked(P!item_insert_sorted(left, Head(puts).item))
          /\ Len(P!item_insert_sorted(left, Head(puts).item)) = Len(left) + 1
      BY <2>2, <3>1, ItemPlaced
    <3> QED
      BY <3>1, <3>2 DEF left, Ranked
  <2> HIDE DEF more
  <2>4. StoreOf(P!ps_item, room, more, gets, Append(accepted, Head(puts).event), Tail(puts),
                Append(answered, [event |-> e, item |-> Head(items)]))
    BY <1>2, <1>5, <2>3, StoreGet DEF RankedInv
  <2> QED
    BY <1>3, <2>1, <2>3, <2>4, Zenon DEF RankedInv
<1>6. CASE items = <<>>
  <2>1. /\ gets' = Append(gets, e) /\ items' = items /\ puts' = puts
        /\ answered' = answered /\ accepted' = accepted
    BY <1>6 DEF P!sim_priority_store_get
  <2>2. StoreOf(P!ps_item, room, items, Append(gets, e), accepted, puts, answered)
    BY <1>2, <1>6, StoreGet DEF RankedInv
  <2> QED
    BY <1>3, <1>s, <2>1, <2>2, Zenon DEF RankedInv
<1> QED
  BY <1>4, <1>5, <1>6

LEMMA RankedInductive ==
  /\ S!Init => RankedInv
  /\ RankedInv /\ P!Next => RankedInv'
  /\ RankedInv /\ UNCHANGED <<vars, S!vars>> => RankedInv'
<1>1. ASSUME S!Init PROVE RankedInv
  BY <1>1, EmptyStore DEF S!Init, RankedInv, SortedByPriority
<1>2. ASSUME RankedInv, P!process PROVE RankedInv'
  <2>1. \/ /\ accepted # <<>> /\ accepted' = Tail(accepted) /\ answered' = answered
           /\ room' = room /\ items' = items /\ gets' = gets /\ puts' = puts
        \/ /\ answered # <<>> /\ answered' = Tail(answered) /\ accepted' = accepted
           /\ room' = room /\ items' = items /\ gets' = gets /\ puts' = puts
    BY <1>2 DEF P!process
  <2>2. /\ accepted # <<>> =>
             StoreOf(P!ps_item, room, items, gets, Tail(accepted), puts, answered)
        /\ answered # <<>> =>
             StoreOf(P!ps_item, room, items, gets, accepted, puts, Tail(answered))
    BY <1>2, StoreProcess DEF RankedInv
  <2> QED
    BY <1>2, <2>1, <2>2, Zenon DEF RankedInv
<1>3. ASSUME RankedInv, UNCHANGED <<vars, S!vars>> PROVE RankedInv'
  BY <1>3 DEF vars, S!vars, RankedInv
<1> QED
  BY <1>1, <1>2, <1>3, RankedPut, RankedGet DEF P!Next


-----------------------------------------------------------------------------
(* The filter store.                                                       *)

Getter == [event : Event, filter : OneOrAny]

NoneFor(buf, w) == \A g \in ToSet(w) : \A item \in ToSet(buf) : item \notin g.filter

FilterOf(rm, buf, w, a, p, r) ==
  /\ w \in Seq(Getter) /\ Places(Item, Events(w), a, p, r)
  /\ rm \in Capacities /\ buf \in Seq(Item)
  /\ rm > 0 => Len(buf) <= rm
  /\ NoneFor(buf, w)

(* The first item a filter accepts, if there is one.                       *)
LEMMA Matched ==
  ASSUME NEW buf \in Seq(Item), NEW filter
  PROVE  LET k == F!Match(buf, filter) IN
         \/ k = 0 /\ \A item \in ToSet(buf) : item \notin filter
         \/ k # 0 /\ k \in 1..Len(buf) /\ buf[k] \in filter
<1> DEFINE Q == {j \in 1..Len(buf) : buf[j] \in filter}
           k == F!Match(buf, filter)
<1>1. k = IF Q # {} THEN Min(Q) ELSE 0
  BY Zenon DEF F!Match, F!SelectInSeq, F!Min, Min
<1> HIDE DEF k
<1>2. CASE Q = {}
  <2>1. k = 0
    BY <1>1, <1>2, Zenon
  <2>2. \A item \in ToSet(buf) : \E j \in 1..Len(buf) : buf[j] = item
    BY Elements
  <2>3. \A item \in ToSet(buf) : item \notin filter
    BY <1>2, <2>2
  <2> QED
    BY <2>1, <2>3 DEF k
<1>3. CASE Q # {}
  <2>1. Min(Q) \in Q
    <3>1. Q \subseteq Nat
      OBVIOUS
    <3> HIDE DEF Q
    <3> QED
      BY <1>3, <3>1, MinLeast
  <2>2. k = Min(Q)
    BY <1>1, <1>3, Zenon
  <2>3. k \in Q
    BY <2>1, <2>2, Zenon
  <2>4. k # 0 /\ k \in 1..Len(buf) /\ buf[k] \in filter
    BY <2>3
  <2> QED
    BY <2>4 DEF k
<1> QED
  BY <1>2, <1>3

(* The first get that takes something, if there is one.                    *)
LEMMA TakerFound ==
  ASSUME gets \in Seq(Getter), NEW buf \in Seq(Item)
  PROVE  LET w == F!FirstTaker(buf) IN
         \/ w = 0 /\ NoneFor(buf, gets)
         \/ /\ w # 0 /\ w \in 1..Len(gets) /\ F!Match(buf, gets[w].filter) # 0
            /\ \A j \in 1..Len(gets) : j < w =>
                 \A item \in ToSet(buf) : item \notin gets[j].filter
<1> DEFINE Q == {j \in 1..Len(gets) : F!Match(buf, gets[j].filter) # 0}
           w == F!FirstTaker(buf)
<1>1. w = IF Q # {} THEN Min(Q) ELSE 0
  BY Zenon DEF F!FirstTaker, F!SelectInSeq, F!Min, Min
<1> HIDE DEF w
<1>0. \A j \in 1..Len(gets) : j \notin Q =>
        \A item \in ToSet(buf) : item \notin gets[j].filter
  BY Matched
<1>2. CASE Q = {}
  <2>1. w = 0
    BY <1>1, <1>2, Zenon
  <2>2. \A g \in ToSet(gets) : \E j \in 1..Len(gets) : gets[j] = g
    BY Elements
  <2>3. \A j \in 1..Len(gets) : j \notin Q
    BY <1>2
  <2> HIDE DEF Q
  <2>4. NoneFor(buf, gets)
    BY <1>0, <2>2, <2>3, Zenon DEF NoneFor
  <2> QED
    BY <2>1, <2>4 DEF w
<1>3. CASE Q # {}
  <2>1. Min(Q) \in Q /\ \A j \in Q : Min(Q) <= j
    <3>1. Q \subseteq Nat
      BY Elements
    <3> HIDE DEF Q
    <3> QED
      BY <1>3, <3>1, MinLeast
  <2>2. w = Min(Q)
    BY <1>1, <1>3, Zenon
  <2>3. w \in Q /\ \A j \in Q : w <= j
    <3> HIDE DEF Q
    <3> QED
      BY <2>1, <2>2, Zenon
  <2>4. /\ w # 0 /\ w \in 1..Len(gets) /\ F!Match(buf, gets[w].filter) # 0
    BY <2>3, Elements
  <2>5. \A j \in 1..Len(gets) : j < w => j \notin Q
    <3> HIDE DEF Q
    <3> QED
      BY <2>3, <2>4
  <2> HIDE DEF Q
  <2>6. \A j \in 1..Len(gets) : j < w =>
          \A item \in ToSet(buf) : item \notin gets[j].filter
    BY <1>0, <2>5, Zenon
  <2> QED
    BY <2>4, <2>6 DEF w
<1> QED
  BY <1>2, <1>3

(* One of the waiting gets is answered.                                    *)
LEMMA OneAnswered ==
  ASSUME NEW w \in Seq(Getter), NEW a, NEW p, NEW r,
         Places(Item, Events(w), a, p, r), NEW k \in 1..Len(w), NEW x \in Item
  PROVE  LET n == [event |-> w[k].event, item |-> x]
             v == RemoveAt(w, k)
         IN  /\ v \in Seq(Getter) /\ ToSet(v) \subseteq ToSet(w)
             /\ Places(Item, Events(v), a, p, Append(r, n))
             /\ \A e : Free(e, Events(w), a, p, r) =>
                         Free(e, Events(v), a, p, Append(r, n))
<1> DEFINE n == [event |-> w[k].event, item |-> x]
           v == RemoveAt(w, k)
           d == Events(w)
           b == Events(v)
<1>1. /\ d \in Seq(Event) /\ Len(d) = Len(w) /\ d[k] = w[k].event
  BY EventsPositions DEF Places, Apart
<1>2. v \in Seq(Getter) /\ ToSet(v) \subseteq ToSet(w) /\ b = RemoveAt(d, k)
  BY RemoveElements, EventsRemove
<1>3. Apart(d, a, Events(p), Events(r)) /\ r \in Seq(Waiter(Item)) /\ p \in Seq(Waiter(Item))
  BY DEF Places
<1> HIDE DEF b, d
<1>4. /\ b \in Seq(Event) /\ d[k] \in Event /\ ToSet(d) = ToSet(b) \cup {d[k]}
      /\ IsInjective(b) /\ d[k] \notin ToSet(b)
  <2>1. k \in 1..Len(d) /\ IsInjective(d)
    BY <1>1, <1>3 DEF Apart
  <2>2. ASSUME NEW s \in Seq(Event), NEW i \in 1..Len(s), IsInjective(s)
        PROVE  /\ RemoveAt(s, i) \in Seq(Event) /\ s[i] \in Event
               /\ ToSet(s) = ToSet(RemoveAt(s, i)) \cup {s[i]}
               /\ IsInjective(RemoveAt(s, i)) /\ s[i] \notin ToSet(RemoveAt(s, i))
    BY <2>2, RemoveElements
  <2> QED
    BY <1>1, <1>2, <2>1, <2>2, Zenon
<1>5. n \in Waiter(Item) /\ n.event = d[k]
  BY <1>1, <1>4 DEF Waiter
<1> HIDE DEF n, v
<1>6. Places(Item, b, a, p, r) /\ Free(n.event, b, a, p, r)
  BY <1>3, <1>4, <1>5 DEF Places, Free, Apart
<1>7. Places(Item, b, a, p, Append(r, n))
  BY <1>5, <1>6, NewPlaceWith
<1>8. ToSet(Events(Append(r, n))) = ToSet(Events(r)) \cup {d[k]}
  <2>1. Events(r) \in Seq(Event) /\ Events(Append(r, n)) = Append(Events(r), n.event)
    BY <1>3, <1>5, WaiterQueues DEF Apart
  <2> QED
    BY <1>4, <1>5, <2>1, AppendElements
<1>9. ASSUME NEW e, Free(e, d, a, p, r) PROVE Free(e, b, a, p, Append(r, n))
  BY <1>4, <1>8, <1>9 DEF Free
<1> QED
  BY <1>2, <1>7, <1>9 DEF n, v, b, d

(* A filter store with fewer gets, another buffer, or another get.         *)
LEMMA FilterParts ==
  ASSUME NEW rm, NEW buf, NEW w, NEW a, NEW p, NEW r, FilterOf(rm, buf, w, a, p, r)
  PROVE  /\ w \in Seq(Getter) /\ Places(Item, Events(w), a, p, r)
         /\ rm \in Int /\ buf \in Seq(Item) /\ Len(buf) \in Nat
         /\ \A v : ToSet(v) \subseteq ToSet(w) => NoneFor(buf, v)
         /\ \A less \in Seq(Item) : ToSet(less) \subseteq ToSet(buf) => NoneFor(less, w)
BY CapacitiesAreIntegers DEF FilterOf, NoneFor


FilterInv == FilterOf(room, items, gets, accepted, puts, answered)

(* What it is to pass by nobody.                                           *)
LEMMA PassesBy ==
  ASSUME gets \in Seq(Getter),
         \A t \in ToSet(answered') \ ToSet(answered) : \A k \in 1..Len(gets) :
           t.item \in gets[k].filter => \E j \in 1..k : gets[j].event = t.event
  PROVE  F!PassesNobody
<1>1. DOMAIN gets = 1..Len(gets)
  BY Elements
<1> QED
  BY <1>1, Zenon DEF F!PassesNobody, F!ToSet, ToSet

(* A put, and whom its item passes by: nobody.                             *)
LEMMA FilterPut ==
  ASSUME FilterInv, NEW e \in Event, NEW x \in Item, F!sim_filter_store_put(e, x)
  PROVE  FilterInv' /\ F!PassesNobody
<1> DEFINE one == <<x>>
           w == F!FirstTaker(one)
<1>1. /\ gets \in Seq(Getter) /\ Places(Item, Events(gets), accepted, puts, answered)
      /\ room \in Int /\ items \in Seq(Item) /\ Len(items) \in Nat
      /\ \A v : ToSet(v) \subseteq ToSet(gets) => NoneFor(items, v)
      /\ room \in Capacities /\ NoneFor(items, gets)
      /\ room > 0 => Len(items) <= room
  BY FilterParts DEF FilterInv, FilterOf
<1>2. Free(e, Events(gets), accepted, puts, answered)
  <2>1. e \notin ToSet(Events(gets)) \cup ToSet(accepted \o Events(puts) \o Events(answered))
    BY DEF F!sim_filter_store_put, F!Unused, F!ToSet, F!EventsOf, ToSet, Events
  <2> QED
    BY <1>1, <2>1, PlacesUsed
<1>3. room' = room
  BY DEF F!sim_filter_store_put
<1>w. /\ one \in Seq(Item) /\ ToSet(one) = {x}
      /\ \/ w = 0 /\ NoneFor(one, gets)
         \/ /\ w # 0 /\ w \in 1..Len(gets)
            /\ \A j \in 1..Len(gets) : j < w => x \notin gets[j].filter
  <2>1. one \in Seq(Item) /\ ToSet(one) = {x}
    BY OneElement
  <2> HIDE DEF one
  <2>2. \/ w = 0 /\ NoneFor(one, gets)
        \/ /\ w # 0 /\ w \in 1..Len(gets)
           /\ \A j \in 1..Len(gets) : j < w =>
                \A item \in ToSet(one) : item \notin gets[j].filter
    BY <1>1, <2>1, TakerFound
  <2> QED
    BY <2>1, <2>2
<1> HIDE DEF w, one
<1>4. CASE RoomIn(room, items) /\ w # 0
  <2> DEFINE n == [event |-> gets[w].event, item |-> x]
             v == RemoveAt(gets, w)
             s == Append(answered, n)
  <2>1. /\ answered' = s /\ gets' = v /\ accepted' = Append(accepted, e)
        /\ items' = items /\ puts' = puts
    BY <1>4, Zenon DEF F!sim_filter_store_put, F!HasRoom, F!accept, F!Answer, F!RemoveAt,
       RemoveAt, RoomIn, w, one
  <2>2. /\ v \in Seq(Getter) /\ ToSet(v) \subseteq ToSet(gets)
        /\ Places(Item, Events(v), accepted, puts, s)
        /\ Free(e, Events(v), accepted, puts, s)
    BY <1>1, <1>2, <1>w, <1>4, OneAnswered
  <2>3. \A t \in ToSet(s) : t \in ToSet(answered) \/ t = n
    <3>1. answered \in Seq(Waiter(Item)) /\ gets[w] \in Getter
      BY <1>1, <1>w, <1>4 DEF Places
    <3>2. n \in Waiter(Item)
      BY <3>1 DEF Waiter, Getter
    <3> HIDE DEF n
    <3> QED
      BY <3>1, <3>2, AppendElements
  <2>n. n.event = gets[w].event /\ n.item = x
    OBVIOUS
  <2> HIDE DEF n, v, s
  <2>4. Places(Item, Events(v), Append(accepted, e), puts, s)
    BY <2>2, NewPlace
  <2>5. FilterOf(room, items, v, Append(accepted, e), puts, s)
    BY <1>1, <2>2, <2>4 DEF FilterOf
  <2>6. FilterInv'
    BY <1>3, <2>1, <2>5, Zenon DEF FilterInv
  <2>7. ASSUME NEW t \in ToSet(answered') \ ToSet(answered), NEW k \in 1..Len(gets),
               t.item \in gets[k].filter
        PROVE  \E j \in 1..k : gets[j].event = t.event
    <3>1. t = n
      BY <2>1, <2>3, <2>7
    <3>2. ~(k < w)
      BY <1>w, <1>4, <2>7, <2>n, <3>1
    <3>3. w \in 1..k /\ gets[w].event = t.event
      BY <1>w, <1>4, <2>n, <3>1, <3>2
    <3> QED
      BY <3>3
  <2>8. F!PassesNobody
    BY <1>1, <2>7, PassesBy
  <2> QED
    BY <2>6, <2>8
<1>n. ASSUME answered' = answered PROVE F!PassesNobody
  BY <1>n DEF F!PassesNobody
<1>5. CASE RoomIn(room, items) /\ w = 0
  <2> DEFINE more == Append(items, x)
  <2>1. /\ items' = more /\ accepted' = Append(accepted, e)
        /\ gets' = gets /\ puts' = puts /\ answered' = answered
    BY <1>5, Zenon DEF F!sim_filter_store_put, F!HasRoom, F!accept, RoomIn, w, one
  <2>2. more \in Seq(Item) /\ Len(more) = Len(items) + 1 /\ ToSet(more) = ToSet(items) \cup {x}
    BY <1>1, AppendElements
  <2> HIDE DEF more
  <2>3. Places(Item, Events(gets), Append(accepted, e), puts, answered)
    BY <1>1, <1>2, NewPlace
  <2>4. NoneFor(more, gets)
    BY <1>1, <1>w, <1>5, <2>2 DEF NoneFor
  <2>5. room > 0 => Len(more) <= room
    BY <1>1, <1>5, <2>2 DEF RoomIn
  <2>6. FilterOf(room, more, gets, Append(accepted, e), puts, answered)
    BY <1>1, <2>2, <2>3, <2>4, <2>5 DEF FilterOf
  <2> QED
    BY <1>3, <1>n, <2>1, <2>6, Zenon DEF FilterInv
<1>6. CASE ~RoomIn(room, items)
  <2> DEFINE n == [event |-> e, item |-> x]
  <2>1. /\ puts' = Append(puts, n) /\ items' = items
        /\ gets' = gets /\ accepted' = accepted /\ answered' = answered
    BY <1>6, Zenon DEF F!sim_filter_store_put, F!HasRoom, F!wait_put, F!Answer, RoomIn
  <2>2. n \in Waiter(Item) /\ n.event = e
    BY DEF Waiter
  <2> HIDE DEF n
  <2>3. Places(Item, Events(gets), accepted, Append(puts, n), answered)
    BY <1>1, <1>2, <2>2, NewPlaceWith
  <2>4. FilterOf(room, items, gets, accepted, Append(puts, n), answered)
    BY <1>1, <2>3 DEF FilterOf
  <2> QED
    BY <1>3, <1>n, <2>1, <2>4, Zenon DEF FilterInv
<1> QED
  BY <1>4, <1>5, <1>6


(* An item that no get waits for has left the buffer, and one more came:   *)
(* the get that takes something of it takes the newcomer.                  *)
LEMMA NewcomerTaken ==
  ASSUME NEW left \in Seq(Item), NEW x \in Item, NEW filter,
         \A item \in ToSet(left) : item \notin filter,
         F!Match(Append(left, x), filter) # 0
  PROVE  LET k == F!Match(Append(left, x), filter)
             v == RemoveAt(Append(left, x), k)
         IN  /\ Append(left, x)[k] = x /\ x \in filter
             /\ v \in Seq(Item) /\ ToSet(v) \subseteq ToSet(left)
             /\ Len(v) = Len(left)
<1> DEFINE more == Append(left, x)
           k == F!Match(more, filter)
           v == RemoveAt(more, k)
<1>1. /\ more \in Seq(Item) /\ Len(more) = Len(left) + 1 /\ Len(left) \in Nat
      /\ \A j \in 1..(Len(left) + 1) : more[j] = IF j <= Len(left) THEN left[j] ELSE x
  OBVIOUS
<1>0. \A item : item \in ToSet(left) <=> \E j \in 1..Len(left) : left[j] = item
  BY Elements
<1> HIDE DEF more
<1>2. k \in 1..Len(more) /\ more[k] \in filter
  BY <1>1, Matched DEF more
<1> HIDE DEF k
<1>3. ~(k <= Len(left))
  BY <1>0, <1>1, <1>2
<1>4. k = Len(left) + 1 /\ more[k] = x
  BY <1>1, <1>2, <1>3
<1>5. /\ v \in Seq(Item) /\ Len(v) = Len(more) - 1
      /\ \A j \in 1..(Len(more) - 1) : v[j] = IF j < k THEN more[j] ELSE more[j + 1]
  <2>1. ASSUME NEW q \in Seq(Item), NEW i \in 1..Len(q)
        PROVE  /\ RemoveAt(q, i) \in Seq(Item) /\ Len(RemoveAt(q, i)) = Len(q) - 1
               /\ \A j \in 1..(Len(q) - 1) :
                    RemoveAt(q, i)[j] = IF j < i THEN q[j] ELSE q[j + 1]
    BY RemoveElements
  <2> QED
    BY <1>1, <1>2, <2>1, Zenon
<1> HIDE DEF v
<1>6. \A item : item \in ToSet(v) <=> \E j \in 1..Len(v) : v[j] = item
  BY <1>5, Elements
<1>7. Len(v) = Len(left) /\ \A j \in 1..Len(v) : v[j] = left[j]
  BY <1>1, <1>4, <1>5
<1>8. ToSet(v) \subseteq ToSet(left)
  BY <1>0, <1>6, <1>7
<1> QED
  BY <1>2, <1>4, <1>5, <1>7, <1>8 DEF more, k, v

(* Answers one after the other.                                            *)
LEMMA TwoAnswers ==
  ASSUME NEW r \in Seq(Waiter(Item)), NEW m \in Waiter(Item), NEW n \in Waiter(Item)
  PROVE  r \o <<m>> = Append(r, m) /\ r \o Append(<<m>>, n) = Append(Append(r, m), n)
OBVIOUS

LEMMA FilterGet ==
  ASSUME FilterInv, NEW e \in Event, NEW filter \in OneOrAny,
         F!sim_filter_store_get(e, filter)
  PROVE  FilterInv' /\ F!PassesNobody
<1> DEFINE k == F!Match(items, filter)
           left == RemoveAt(items, k)
           m == [event |-> e, item |-> items[k]]
           s == Append(answered, m)
<1>1. /\ gets \in Seq(Getter) /\ Places(Item, Events(gets), accepted, puts, answered)
      /\ room \in Int /\ items \in Seq(Item) /\ Len(items) \in Nat
      /\ \A v : ToSet(v) \subseteq ToSet(gets) => NoneFor(items, v)
      /\ \A less \in Seq(Item) : ToSet(less) \subseteq ToSet(items) => NoneFor(less, gets)
      /\ room \in Capacities /\ NoneFor(items, gets)
      /\ answered \in Seq(Waiter(Item)) /\ puts \in Seq(Waiter(Item))
      /\ room > 0 => Len(items) <= room
  BY FilterParts DEF FilterInv, FilterOf, Places
<1>2. Free(e, Events(gets), accepted, puts, answered)
  <2>1. e \notin ToSet(Events(gets)) \cup ToSet(accepted \o Events(puts) \o Events(answered))
    BY DEF F!sim_filter_store_get, F!Unused, F!ToSet, F!EventsOf, ToSet, Events
  <2> QED
    BY <1>1, <2>1, PlacesUsed
<1>3. room' = room
  BY DEF F!sim_filter_store_get
<1>n. ASSUME answered' = answered PROVE F!PassesNobody
  BY <1>n DEF F!PassesNobody
<1>k. \/ k = 0 /\ \A item \in ToSet(items) : item \notin filter
      \/ k # 0 /\ k \in 1..Len(items)
  BY <1>1, Matched
<1> HIDE DEF k
<1>l. ASSUME k # 0
      PROVE  /\ left \in Seq(Item) /\ Len(left) = Len(items) - 1
             /\ ToSet(left) \subseteq ToSet(items) /\ items[k] \in ToSet(items)
             /\ items[k] \in Item /\ NoneFor(left, gets)
             /\ Places(Item, Events(gets), accepted, puts, s)
             /\ \A t \in ToSet(s) : t \in ToSet(answered) \/ t = m
             /\ m \in Waiter(Item) /\ m.item = items[k]
  <2>1. /\ left \in Seq(Item) /\ Len(left) = Len(items) - 1 /\ items[k] \in Item
        /\ ToSet(items) = ToSet(left) \cup {items[k]}
    BY <1>1, <1>k, <1>l, RemoveElements
  <2>2. m \in Waiter(Item) /\ m.event = e /\ m.item = items[k]
    BY <2>1 DEF Waiter
  <2> HIDE DEF m, left
  <2>3. Places(Item, Events(gets), accepted, puts, s)
    BY <1>1, <1>2, <2>2, NewPlaceWith
  <2>4. \A t \in ToSet(s) : t \in ToSet(answered) \/ t = m
    BY <1>1, <2>2, AppendElements
  <2> QED
    BY <1>1, <2>1, <2>2, <2>3, <2>4
<1>4. CASE k # 0 /\ puts = <<>>
  <2>1. /\ items' = left /\ answered' = answered \o <<m>>
        /\ gets' = gets /\ puts' = puts /\ accepted' = accepted
    BY <1>4, Zenon DEF F!sim_filter_store_get, F!Answer, F!RemoveAt, RemoveAt, k, left, m
  <2>2. /\ left \in Seq(Item) /\ Len(left) = Len(items) - 1
        /\ items[k] \in ToSet(items) /\ NoneFor(left, gets)
        /\ Places(Item, Events(gets), accepted, puts, s)
        /\ \A t \in ToSet(s) : t \in ToSet(answered) \/ t = m
        /\ m \in Waiter(Item) /\ m.item = items[k]
    BY <1>l, <1>4
  <2> HIDE DEF m, left
  <2>3. answered' = s
    BY <1>1, <2>1, <2>2, TwoAnswers
  <2> HIDE DEF s
  <2>4. room > 0 => Len(left) <= room
    BY <1>1, <2>2
  <2>5. FilterOf(room, left, gets, accepted, puts, s)
    BY <1>1, <2>2, <2>4 DEF FilterOf
  <2>6. FilterInv'
    BY <1>3, <2>1, <2>3, <2>5, Zenon DEF FilterInv
  <2>7. ASSUME NEW t \in ToSet(answered') \ ToSet(answered), NEW j \in 1..Len(gets)
        PROVE  t.item \notin gets[j].filter
    <3>1. t.item = items[k] /\ gets[j] \in ToSet(gets)
      BY <1>1, <2>2, <2>3, <2>7, Elements
    <3> QED
      BY <1>1, <2>2, <3>1 DEF NoneFor
  <2>8. F!PassesNobody
    BY <1>1, <2>7, PassesBy
  <2> QED
    BY <2>6, <2>8
<1>5. CASE k = 0
  <2> DEFINE g == [event |-> e, filter |-> filter]
             more == Append(gets, g)
  <2>1. /\ gets' = more /\ items' = items /\ puts' = puts
        /\ answered' = answered /\ accepted' = accepted
    BY <1>5, Zenon DEF F!sim_filter_store_get, k
  <2>2. g \in Getter /\ g.event = e /\ g.filter = filter
    BY DEF Getter
  <2> HIDE DEF g
  <2>3. /\ more \in Seq(Getter) /\ Events(more) = Append(Events(gets), e)
        /\ ToSet(more) = ToSet(gets) \cup {g}
    BY <1>1, <2>2, EventsAppend, AppendElements
  <2> HIDE DEF more
  <2>4. Places(Item, Append(Events(gets), e), accepted, puts, answered)
    BY <1>1, <1>2, NewPlace
  <2>5. NoneFor(items, more)
    BY <1>1, <1>k, <1>5, <2>2, <2>3 DEF NoneFor
  <2>6. Places(Item, Events(more), accepted, puts, answered)
    BY <2>3, <2>4, Zenon
  <2>7. FilterOf(room, items, more, accepted, puts, answered)
    BY <1>1, <2>3, <2>5, <2>6 DEF FilterOf
  <2> QED
    BY <1>3, <1>n, <2>1, <2>7, Zenon DEF FilterInv
<1>6. CASE k # 0 /\ puts # <<>>
  <2> DEFINE x == Head(puts).item
             more == Append(left, x)
             w == F!FirstTaker(more)
             a == Append(accepted, Head(puts).event)
             p == Tail(puts)
             mine == <<m>>
  <2>1. /\ puts' = p /\ accepted' = a
        /\ IF w = 0
           THEN items' = more /\ answered' = answered \o mine /\ gets' = gets
           ELSE LET i == F!Match(more, gets[w].filter)
                IN  /\ items' = RemoveAt(more, i)
                    /\ answered' = answered \o
                         Append(mine, [event |-> gets[w].event, item |-> more[i]])
                    /\ gets' = RemoveAt(gets, w)
    BY <1>6, Zenon DEF F!sim_filter_store_get, F!try_dispatch_to_waiters, F!accept,
       F!Answer, F!RemoveAt, RemoveAt, k, left, m
  <2>2. /\ left \in Seq(Item) /\ Len(left) = Len(items) - 1
        /\ items[k] \in ToSet(items) /\ NoneFor(left, gets)
        /\ Places(Item, Events(gets), accepted, puts, s)
        /\ \A t \in ToSet(s) : t \in ToSet(answered) \/ t = m
        /\ m \in Waiter(Item) /\ m.item = items[k]
    BY <1>l, <1>6
  <2> HIDE DEF m, left, x, a, p
  <2>3. /\ answered \o mine = s
        /\ \A n \in Waiter(Item) : answered \o Append(mine, n) = Append(s, n)
    BY <1>1, <2>2, TwoAnswers
  <2> HIDE DEF s, mine
  <2>4. Places(Item, Events(gets), a, p, s) /\ x \in Item
    BY <1>6, <2>2, FirstAccepted DEF x, a, p
  <2>5. /\ more \in Seq(Item) /\ Len(more) = Len(left) + 1
        /\ ToSet(more) = ToSet(left) \cup {x}
    BY <2>2, <2>4, AppendElements
  <2>6. \/ w = 0 /\ NoneFor(more, gets)
        \/ /\ w # 0 /\ w \in 1..Len(gets) /\ F!Match(more, gets[w].filter) # 0
           /\ \A j \in 1..Len(gets) : j < w =>
                \A item \in ToSet(more) : item \notin gets[j].filter
    BY <1>1, <2>5, TakerFound
  <2> HIDE DEF w
  <2>m. ASSUME NEW t, t = m, NEW j \in 1..Len(gets)
        PROVE  t.item \notin gets[j].filter
    <3>1. t.item = items[k] /\ gets[j] \in ToSet(gets)
      BY <1>1, <2>2, <2>m, Elements
    <3> QED
      BY <1>1, <2>2, <3>1 DEF NoneFor
  <2>7. CASE w = 0
    <3> HIDE DEF more
    <3>1. items' = more /\ answered' = s /\ gets' = gets
      BY <2>1, <2>3, <2>7, Zenon
    <3>2. room > 0 => Len(more) <= room
      BY <1>1, <2>2, <2>5
    <3>3. FilterOf(room, more, gets, a, p, s)
      BY <1>1, <2>4, <2>5, <2>6, <2>7, <3>2 DEF FilterOf
    <3>4. FilterInv'
      BY <1>3, <2>1, <3>1, <3>3, Zenon DEF FilterInv
    <3>5. F!PassesNobody
      <4>1. ASSUME NEW t \in ToSet(answered') \ ToSet(answered), NEW j \in 1..Len(gets)
            PROVE  t.item \notin gets[j].filter
        BY <2>2, <2>m, <3>1, <4>1
      <4> QED
        BY <1>1, <4>1, PassesBy
    <3> QED
      BY <3>4, <3>5
  <2>8. CASE w # 0
    <3> DEFINE i == F!Match(more, gets[w].filter)
               less == RemoveAt(more, i)
               n == [event |-> gets[w].event, item |-> x]
               v == RemoveAt(gets, w)
               r == Append(s, n)
    <3>1. /\ w \in 1..Len(gets) /\ i # 0 /\ gets[w] \in Getter /\ gets[w] \in ToSet(gets)
          /\ \A j \in 1..Len(gets) : j < w =>
               \A item \in ToSet(more) : item \notin gets[j].filter
      BY <1>1, <2>6, <2>8, Elements
    <3>2. /\ more[i] = x /\ less \in Seq(Item) /\ ToSet(less) \subseteq ToSet(left)
          /\ Len(less) = Len(left)
      <4>1. \A item \in ToSet(left) : item \notin gets[w].filter
        BY <2>2, <3>1 DEF NoneFor
      <4> QED
        <5>1. ASSUME NEW q, \A item \in ToSet(left) : item \notin q, F!Match(more, q) # 0
              PROVE  /\ more[F!Match(more, q)] = x
                     /\ RemoveAt(more, F!Match(more, q)) \in Seq(Item)
                     /\ ToSet(RemoveAt(more, F!Match(more, q))) \subseteq ToSet(left)
                     /\ Len(RemoveAt(more, F!Match(more, q))) = Len(left)
          BY <2>2, <2>4, <5>1, NewcomerTaken
        <5> HIDE DEF more
        <5> QED
          BY <3>1, <4>1, <5>1, Zenon
    <3>3. /\ v \in Seq(Getter) /\ ToSet(v) \subseteq ToSet(gets)
          /\ Places(Item, Events(v), a, p, r)
      BY <1>1, <2>4, <3>1, OneAnswered
    <3>4. n \in Waiter(Item) /\ n.event = gets[w].event /\ n.item = x
      BY <2>4, <3>1 DEF Waiter, Getter
    <3>5. items' = less /\ answered' = answered \o Append(mine, n) /\ gets' = v
      BY <2>1, <2>8, <3>2, Zenon
    <3> HIDE DEF i, less, n, v, more
    <3>6. answered' = r
      BY <2>3, <3>4, <3>5, Zenon
    <3>7. \A t \in ToSet(r) : t \in ToSet(s) \/ t = n
      <4>1. s \in Seq(Waiter(Item))
        BY <2>2 DEF Places
      <4> QED
        BY <3>4, <4>1, AppendElements
    <3> HIDE DEF r
    <3>8. NoneFor(less, v)
      BY <2>2, <3>2, <3>3 DEF NoneFor
    <3>9. room > 0 => Len(less) <= room
      BY <1>1, <2>2, <3>2
    <3>10. FilterOf(room, less, v, a, p, r)
      BY <1>1, <3>2, <3>3, <3>8, <3>9 DEF FilterOf
    <3>11. FilterInv'
      BY <1>3, <2>1, <3>5, <3>6, <3>10, Zenon DEF FilterInv
    <3>12. ASSUME NEW t \in ToSet(answered') \ ToSet(answered), NEW j \in 1..Len(gets),
                  t.item \in gets[j].filter
           PROVE  \E l \in 1..j : gets[l].event = t.event
      <4>1. t = n
        BY <2>2, <2>m, <3>6, <3>7, <3>12
      <4>2. x \in ToSet(more)
        BY <2>5
      <4>3. ~(j < w)
        BY <3>1, <3>4, <3>12, <4>1, <4>2
      <4>4. w \in 1..j /\ gets[w].event = t.event
        BY <3>1, <3>4, <4>1, <4>3
      <4> QED
        BY <4>4
    <3>13. F!PassesNobody
      BY <1>1, <3>12, PassesBy
    <3> QED
      BY <3>11, <3>13
  <2> QED
    BY <2>7, <2>8
<1> QED
  BY <1>4, <1>5, <1>6


LEMMA FilterInductive ==
  /\ S!Init => FilterInv
  /\ FilterInv /\ F!Next => FilterInv' /\ F!PassesNobody
  /\ FilterInv /\ UNCHANGED <<vars, S!vars>> => FilterInv'
<1>1. ASSUME S!Init PROVE FilterInv
  <2>1. /\ <<>> \in Seq(Getter) /\ <<>> \in Seq(Item) /\ Events(<<>>) = <<>> /\ Len(<<>>) = 0
        /\ NoneFor(<<>>, <<>>)
    BY EmptyElements DEF Events, NoneFor
  <2>2. room \in Capacities /\ room \in Int
    BY <1>1, CapacitiesAreIntegers DEF S!Init
  <2>3. Places(Item, <<>>, <<>>, <<>>, <<>>)
    BY <2>2, EmptyStore DEF StoreOf
  <2>4. FilterOf(room, <<>>, <<>>, <<>>, <<>>, <<>>)
    BY <2>1, <2>2, <2>3 DEF FilterOf
  <2> QED
    BY <1>1, <2>4 DEF S!Init, FilterInv
<1>2. ASSUME FilterInv, F!process PROVE FilterInv' /\ F!PassesNobody
  <2>0. /\ Places(Item, Events(gets), accepted, puts, answered)
        /\ gets \in Seq(Getter) /\ answered \in Seq(Waiter(Item))
    BY <1>2 DEF FilterInv, FilterOf, Places
  <2>1. \/ /\ accepted # <<>> /\ accepted' = Tail(accepted) /\ answered' = answered
           /\ room' = room /\ items' = items /\ gets' = gets /\ puts' = puts
        \/ /\ answered # <<>> /\ answered' = Tail(answered) /\ accepted' = accepted
           /\ room' = room /\ items' = items /\ gets' = gets /\ puts' = puts
    BY <1>2 DEF F!process
  <2>2. /\ accepted # <<>> =>
             FilterOf(room, items, gets, Tail(accepted), puts, answered)
        /\ answered # <<>> =>
             FilterOf(room, items, gets, accepted, puts, Tail(answered))
    BY <1>2, <2>0, PlaceLeft DEF FilterInv, FilterOf
  <2>3. FilterInv'
    BY <2>1, <2>2, Zenon DEF FilterInv
  <2>4. ToSet(answered') \subseteq ToSet(answered)
    <3>1. answered # <<>> => ToSet(Tail(answered)) \subseteq ToSet(answered)
      BY <2>0, TailElements
    <3> QED
      BY <2>1, <3>1, Zenon
  <2>5. F!PassesNobody
    BY <2>0, <2>4, PassesBy
  <2> QED
    BY <2>3, <2>5
<1>3. ASSUME FilterInv, UNCHANGED <<vars, S!vars>> PROVE FilterInv'
  BY <1>3 DEF vars, S!vars, FilterInv
<1> QED
  BY <1>1, <1>2, <1>3, FilterPut, FilterGet DEF F!Next

-----------------------------------------------------------------------------
(* All four, side by side.                                                 *)

MCInv ==
  /\ kind = "store" => FifoInv
  /\ kind = "filter" => FilterInv
  /\ kind = "priority" => RankedInv
  /\ kind \notin {"store", "filter", "priority"} => ContainerInv

LEMMA Inductive == MCSpec => []MCInv
<1>1. MCInit => MCInv
  BY FifoInductive, FilterInductive, RankedInductive, ContainerInductive DEF MCInit, MCInv
<1>2. ASSUME MCInv, [MCNext]_<<kind, vars, S!vars>> PROVE MCInv'
  <2>1. CASE MCNext
    <3>1. UNCHANGED kind
      BY <2>1 DEF MCNext
    <3>2. \/ kind = "store" /\ S!Next
          \/ kind = "filter" /\ F!Next
          \/ kind = "priority" /\ P!Next
          \/ kind = "container" /\ Next
      BY <2>1 DEF MCNext
    <3> QED
      BY <1>2, <3>1, <3>2, FifoInductive, FilterInductive, RankedInductive,
         ContainerInductive, Zenon DEF MCInv
  <2>2. CASE UNCHANGED <<kind, vars, S!vars>>
    <3>1. UNCHANGED kind /\ UNCHANGED <<vars, S!vars>> /\ UNCHANGED vars
      BY <2>2
    <3> QED
      BY <1>2, <3>1, FifoInductive, FilterInductive, RankedInductive,
         ContainerInductive DEF MCInv
  <2> QED
    BY <1>2, <2>1, <2>2
<1> QED
  BY <1>1, <1>2, PTL DEF MCSpec

(* Types, every event in use is in one place once, and the level of a      *)
(* container stays between 0 and its capacity, also between two wake-ups   *)
(* of one loop (try_wake_gets, try_wake_puts of container.c).              *)
THEOREM Typing == MCSpec => []TypesKept
<1>1. MCInv => TypesKept
  <2>1. ASSUME FifoInv PROVE S!TypeOK
    <3>1. IsInjective(gets \o accepted \o Events(puts) \o Events(answered))
      BY <2>1, PlacesUsed DEF FifoInv, StoreOf
    <3> QED
      BY <2>1, <3>1 DEF FifoInv, StoreOf, Places, Apart, Waiter, S!TypeOK, S!TypesOK,
         S!EventsOf, S!IsInjective, Events, IsInjective
  <2>2. ASSUME RankedInv PROVE P!TypeOK
    <3>1. IsInjective(gets \o accepted \o Events(puts) \o Events(answered))
      BY <2>2, PlacesUsed DEF RankedInv, StoreOf
    <3> QED
      BY <2>2, <3>1 DEF RankedInv, StoreOf, Places, Apart, Waiter, P!TypeOK, P!TypesOK,
         P!EventsOf, P!IsInjective, Events, IsInjective
  <2>3. ASSUME FilterInv PROVE F!TypeOK
    <3>1. IsInjective(Events(gets) \o accepted \o Events(puts) \o Events(answered))
      BY <2>3, PlacesUsed DEF FilterInv, FilterOf
    <3> QED
      BY <2>3, <3>1 DEF FilterInv, FilterOf, Places, Apart, Waiter, Getter, F!TypeOK,
         F!TypesOK, F!EventsOf, F!IsInjective, Events, IsInjective
  <2>4. ASSUME ContainerInv PROVE TypeOK
    <3>1. /\ gets \in Seq(cq_node) /\ puts \in Seq(cq_node) /\ fired \in Seq(cq_node)
          /\ Apart(Events(gets), <<>>, Events(puts), Events(fired))
      BY <2>4 DEF ContainerInv
    <3>2. Events(gets \o puts \o fired) = Events(gets) \o Events(puts) \o Events(fired)
      <4> DEFINE c == gets \o puts
      <4>1. c \in Seq(cq_node) /\ Events(c) = Events(gets) \o Events(puts)
        BY <3>1, EventsConcat
      <4> HIDE DEF c
      <4>2. Events(c \o fired) = Events(c) \o Events(fired)
        BY <3>1, <4>1, EventsConcat
      <4> QED
        BY <4>1, <4>2, Zenon DEF c
    <3>3. IsInjective(Events(gets) \o Events(puts) \o Events(fired))
      <4> DEFINE w == Events(gets)
      <4>1. IsInjective(w \o <<>> \o Events(puts) \o Events(fired)) /\ w \in Seq(Event)
        BY <3>1, ApartInjective DEF Apart
      <4> HIDE DEF w
      <4>2. w \o <<>> = w
        BY <4>1
      <4> QED
        BY <4>1, <4>2, Zenon DEF w
    <3>4. IsInjective(Events(gets \o puts \o fired))
      BY <3>2, <3>3, Zenon
    <3> QED
      BY <2>4, <3>4 DEF ContainerInv, TypeOK, Events
  <2> QED
    BY <2>1, <2>2, <2>3, <2>4 DEF MCInv, TypesKept
<1> QED
  BY <1>1, Inductive, PTL


(* A get waits only while there is nothing to get: sim_store_get does not  *)
(* look at the waiting puts, and sim_store_put not at the items.           *)
THEOREM Waiting == MCSpec => []GetsWaitForItems
<1>1. ASSUME FifoInv PROVE S!GetsWaitForItems
  BY <1>1 DEF FifoInv, StoreOf, WaitFor, S!GetsWaitForItems
<1>2. ASSUME RankedInv PROVE P!GetsWaitForItems
  BY <1>2 DEF RankedInv, StoreOf, WaitFor, P!GetsWaitForItems
<1>3. ASSUME FilterInv PROVE F!GetsUnmatched
  BY <1>3, Zenon DEF FilterInv, FilterOf, NoneFor, F!GetsUnmatched, F!ToSet, ToSet
<1>4. MCInv => GetsWaitForItems
  BY <1>1, <1>2, <1>3 DEF MCInv, GetsWaitForItems
<1> QED
  BY <1>4, Inductive, PTL

(* No buffer is overfull, although sim_store_get, sim_filter_store_get and *)
(* sim_priority_store_get let a waiting put in without testing the         *)
(* capacity; in a plain and in a priority store a put waits only while the *)
(* buffer is full.                                                         *)
THEOREM Room == MCSpec => []PutsWaitForRoom
<1>1. ASSUME FifoInv PROVE S!PutsWaitForRoom
  BY <1>1 DEF FifoInv, StoreOf, WaitFor, RoomIn, S!PutsWaitForRoom, S!HasRoom,
     S!WithinCapacity
<1>2. ASSUME RankedInv PROVE P!PutsWaitForRoom
  BY <1>2 DEF RankedInv, StoreOf, WaitFor, RoomIn, P!PutsWaitForRoom, P!HasRoom,
     P!WithinCapacity
<1>3. ASSUME FilterInv PROVE F!WithinCapacity
  BY <1>3 DEF FilterInv, FilterOf, F!WithinCapacity
<1>4. MCInv => PutsWaitForRoom
  BY <1>1, <1>2, <1>3 DEF MCInv, PutsWaitForRoom
<1> QED
  BY <1>4, Inductive, PTL

(* The filter store: try_dispatch_to_waiters and sim_filter_store_put hand *)
(* an item to nobody while an earlier get accepts it.                      *)
THEOREM Takers == MCSpec => EarliestTaker
<1>1. ASSUME MCInv, [MCNext]_<<kind, vars, S!vars>>
      PROVE  [kind = "filter" => F!PassesNobody]_(F!vars)
  <2>1. CASE MCNext
    <3>1. kind = "filter" => F!Next
      BY <2>1, Zenon DEF MCNext
    <3> QED
      BY <1>1, <3>1, FilterInductive DEF MCInv
  <2>2. CASE UNCHANGED <<kind, vars, S!vars>>
    BY <2>2 DEF S!vars, F!vars
  <2> QED
    BY <1>1, <2>1, <2>2
<1> QED
  BY <1>1, Inductive, PTL DEF MCSpec, EarliestTaker

(* The container: nobody waits who could be served, although a put wakes   *)
(* only gets and a get only puts (container.c).                            *)
THEOREM Served == MCSpec => []ServedWhenPossible
<1>1. MCInv => ServedWhenPossible
  BY DEF MCInv, ContainerInv, ServedWhenPossible
<1> QED
  BY <1>1, Inductive, PTL

(* A line is a prefix of itself, also when somebody has joined it.         *)
LEMMA JoinsBehind ==
  ASSUME NEW q \in Seq(cq_node)
  PROVE  /\ IsPrefix(q, q)
         /\ \A n \in cq_node : IsPrefix(q, Append(q, n))
<1>1. ASSUME NEW n \in cq_node PROVE IsPrefix(q, q) /\ IsPrefix(q, Append(q, n))
  <2> DEFINE a == Append(q, n)
  <2>1. /\ Len(a) = Len(q) + 1 /\ a \in Seq(cq_node) /\ Len(q) \in Nat
        /\ \A k \in 1..Len(q) : a[k] = q[k]
    OBVIOUS
  <2> HIDE DEF a
  <2>2. SubSeq(a, 1, Len(q)) = SubSeq(q, 1, Len(q))
    BY <2>1
  <2> QED
    BY <2>1, <2>2 DEF IsPrefix, a
<1>2. IsPrefix(q, q)
  BY DEF IsPrefix
<1> QED
  BY <1>1, <1>2

(* The container: a request that comes queues up behind those that wait,   *)
(* and of these a wake-up serves nobody but the first (container.c).       *)
THEOREM Order == MCSpec => OvertakesNobody
<1>1. ASSUME MCInv, kind = "container", Next PROVE ServesFirst
  <2> DEFINE New == ToSet(fired') \ ToSet(fired)
  <2>1. /\ gets \in Seq(cq_node) /\ puts \in Seq(cq_node) /\ fired \in Seq(cq_node)
    BY <1>1 DEF MCInv, ContainerInv
  <2>2. ASSUME NEW m \in cq_node, fired' = Append(fired, m)
        PROVE  \A n \in New : n = m
    BY <2>1, <2>2, AppendElements
  <2>3. ASSUME NEW q \in Seq(cq_node)
        PROVE  /\ KeepsPlaces(q, q)
               /\ \A n \in cq_node : KeepsPlaces(q, Append(q, n))
               /\ q # <<>> => KeepsPlaces(q, Tail(q))
    <3>1. q # <<>> => Tail(q) \in Seq(cq_node)
      OBVIOUS
    <3> QED
      BY <3>1, JoinsBehind DEF KeepsPlaces
  <2>4. ASSUME NEW m \in cq_node, sim_container_put(m) PROVE ServesFirst
    <3>1. pc = "idle" /\ gets' = gets
      BY <2>4 DEF sim_container_put
    <3>2. CASE PutsNow(m.amount)
      <4>1. puts = <<>> /\ puts' = puts /\ pc' = "wake gets"
        BY <2>4, <3>2 DEF sim_container_put, PutsNow, serve
      <4> QED
        BY <2>1, <2>3, <3>1, <4>1 DEF ServesFirst
    <3>3. CASE ~PutsNow(m.amount)
      <4>1. puts' = Append(puts, m) /\ fired' = fired
        BY <2>4, <3>3 DEF sim_container_put
      <4> QED
        BY <2>1, <2>3, <3>1, <4>1 DEF ServesFirst
    <3> QED
      BY <3>2, <3>3
  <2>5. ASSUME NEW m \in cq_node, sim_container_get(m) PROVE ServesFirst
    <3>1. pc = "idle" /\ puts' = puts
      BY <2>5 DEF sim_container_get
    <3>2. CASE GetsNow(m.amount)
      <4>1. gets = <<>> /\ gets' = gets /\ pc' = "wake puts"
        BY <2>5, <3>2 DEF sim_container_get, GetsNow, serve, AfterGet
      <4> QED
        BY <2>1, <2>3, <3>1, <4>1 DEF ServesFirst
    <3>3. CASE ~GetsNow(m.amount)
      <4>1. gets' = Append(gets, m) /\ fired' = fired
        BY <2>5, <3>3 DEF sim_container_get
      <4> QED
        BY <2>1, <2>3, <3>1, <4>1 DEF ServesFirst
    <3> QED
      BY <3>2, <3>3
  <2>6. ASSUME try_wake_gets PROVE ServesFirst
    <3>1. pc = "wake gets" /\ puts' = puts
      BY <2>6 DEF try_wake_gets
    <3>2. CASE gets # <<>> /\ Head(gets).amount <= level
      <4>1. /\ fired' = Append(fired, Head(gets)) /\ Head(gets) \in cq_node
            /\ gets' = Tail(gets)
        BY <2>1, <2>6, <3>2, NodeQueues DEF try_wake_gets, serve
      <4>2. \A n \in New : n = Head(gets)
        BY <2>2, <4>1
      <4> QED
        BY <2>1, <2>3, <3>1, <3>2, <4>1, <4>2 DEF ServesFirst
    <3>3. CASE ~(gets # <<>> /\ Head(gets).amount <= level)
      <4>1. gets' = gets /\ fired' = fired
        BY <2>6, <3>3 DEF try_wake_gets
      <4> QED
        BY <2>1, <2>3, <3>1, <4>1 DEF ServesFirst
    <3> QED
      BY <3>2, <3>3
  <2>7. ASSUME try_wake_puts PROVE ServesFirst
    <3>1. pc = "wake puts" /\ gets' = gets
      BY <2>7 DEF try_wake_puts
    <3>2. CASE puts # <<>> /\ Fits(Head(puts).amount)
      <4>1. /\ fired' = Append(fired, Head(puts)) /\ Head(puts) \in cq_node
            /\ puts' = Tail(puts)
        BY <2>1, <2>7, <3>2, NodeQueues DEF try_wake_puts, serve
      <4>2. \A n \in New : n = Head(puts)
        BY <2>2, <4>1
      <4> QED
        BY <2>1, <2>3, <3>1, <3>2, <4>1, <4>2 DEF ServesFirst
    <3>3. CASE ~(puts # <<>> /\ Fits(Head(puts).amount))
      <4>1. puts' = puts /\ fired' = fired
        BY <2>7, <3>3 DEF try_wake_puts
      <4> QED
        BY <2>1, <2>3, <3>1, <4>1 DEF ServesFirst
    <3> QED
      BY <3>2, <3>3
  <2>8. ASSUME process PROVE ServesFirst
    <3>1. fired # <<>> /\ fired' = Tail(fired) /\ gets' = gets /\ puts' = puts
      BY <2>8 DEF process
    <3>2. ToSet(Tail(fired)) \subseteq ToSet(fired)
      BY <2>1, <3>1, TailElements
    <3>3. New = {}
      BY <3>1, <3>2, Zenon
    <3> QED
      BY <2>1, <2>3, <3>1, <3>3 DEF ServesFirst
  <2> QED
    BY <1>1, <2>4, <2>5, <2>6, <2>7, <2>8 DEF Next
<1>2. ASSUME MCInv, [MCNext]_<<kind, vars, S!vars>>
      PROVE  [kind = "container" => ServesFirst]_vars
  <2>1. CASE MCNext
    <3>1. kind = "container" => Next
      BY <2>1, Zenon DEF MCNext
    <3> QED
      BY <1>1, <1>2, <3>1
  <2>2. CASE UNCHANGED <<kind, vars, S!vars>>
    BY <2>2
  <2> QED
    BY <1>2, <2>1, <2>2
<1> QED
  BY <1>2, Inductive, PTL DEF MCSpec, OvertakesNobody

(* The container: once a get and a put both wait, nobody is served again   *)
(* ("Both queues are FIFO; partial-fill is not supported", container.c).   *)
THEOREM Blocked == MCSpec => BlockedForEver
<1>1. ASSUME MCInv, kind = "container", Next PROVE StaysBlocked
  <2>1. gets \in Seq(cq_node) /\ puts \in Seq(cq_node)
    BY <1>1 DEF MCInv, ContainerInv
  <2> SUFFICES ASSUME pc = "idle", gets # <<>>, puts # <<>>
               PROVE  /\ UNCHANGED <<level, pc>>
                      /\ IsPrefix(gets, gets') /\ IsPrefix(puts, puts')
    BY DEF StaysBlocked
  <2>2. Head(gets) \in cq_node
    BY <2>1, NodeQueues
  <2>3. ASSUME NEW m \in cq_node, sim_container_put(m)
        PROVE  /\ UNCHANGED <<level, pc>> /\ gets' = gets /\ puts' = Append(puts, m)
    BY <2>3 DEF sim_container_put, PutsNow
  <2>4. ASSUME NEW m \in cq_node, sim_container_get(m)
        PROVE  /\ UNCHANGED <<level, pc>> /\ gets' = Append(gets, m) /\ puts' = puts
    BY <2>4 DEF sim_container_get, GetsNow
  <2>5. ASSUME process
        PROVE  UNCHANGED <<level, pc>> /\ gets' = gets /\ puts' = puts
    BY <2>5 DEF process
  <2>6. ~try_wake_gets /\ ~try_wake_puts
    BY DEF try_wake_gets, try_wake_puts
  <2> QED
    BY <1>1, <2>1, <2>2, <2>3, <2>4, <2>5, <2>6, JoinsBehind, Zenon DEF Next
<1>2. ASSUME MCInv, [MCNext]_<<kind, vars, S!vars>>
      PROVE  [kind = "container" => StaysBlocked]_vars
  <2>1. CASE MCNext
    <3>1. kind = "container" => Next
      BY <2>1, Zenon DEF MCNext
    <3> QED
      BY <1>1, <1>2, <3>1
  <2>2. CASE UNCHANGED <<kind, vars, S!vars>>
    BY <2>2
  <2> QED
    BY <1>2, <2>1, <2>2
<1> QED
  BY <1>2, Inductive, PTL DEF MCSpec, BlockedForEver


-----------------------------------------------------------------------------
(* The plain store is a FIFO channel.                                      *)

(* The items of a queue of waiting puts.                                   *)
ItemsOf(p) == [k \in DOMAIN p |-> p[k].item]

(* What was put and not yet got.                                           *)
LineOf(buf, p) == buf \o ItemsOf(p)

(* Two sequences, one after the other, when an element comes, goes, or     *)
(* changes from the second to the first.                                   *)
LEMMA ConcatMoves ==
  ASSUME NEW u \in Seq(Item), NEW v \in Seq(Item), NEW x \in Item
  PROVE  /\ u \o <<>> = u
         /\ u \o Append(v, x) = Append(u \o v, x)
         /\ u # <<>> => /\ u \o v # <<>> /\ Head(u \o v) = Head(u)
                        /\ Tail(u \o v) = Tail(u) \o v
         /\ v # <<>> => Append(u, Head(v)) \o Tail(v) = u \o v
<1>1. u \o <<>> = u
  OBVIOUS
<1>2. u \o Append(v, x) = Append(u \o v, x)
  OBVIOUS
<1>3. ASSUME u # <<>>
      PROVE  /\ u \o v # <<>> /\ Head(u \o v) = Head(u)
             /\ Tail(u \o v) = Tail(u) \o v
  BY <1>3
<1>4. ASSUME v # <<>> PROVE Append(u, Head(v)) \o Tail(v) = u \o v
  BY <1>4
<1> QED
  BY <1>1, <1>2, <1>3, <1>4

(* The items of the waiting puts when one joins them or is accepted.       *)
LEMMA ItemsMoves ==
  ASSUME NEW p \in Seq(Waiter(Item))
  PROVE  /\ ItemsOf(p) \in Seq(Item)
         /\ p = <<>> <=> ItemsOf(p) = <<>>
         /\ \A n \in Waiter(Item) : ItemsOf(Append(p, n)) = Append(ItemsOf(p), n.item)
         /\ p # <<>> => /\ Head(ItemsOf(p)) = Head(p).item /\ Head(p).item \in Item
                        /\ ItemsOf(Tail(p)) = Tail(ItemsOf(p))
<1>i. \A n \in Waiter(Item) : n.item \in Item
  BY DEF Waiter
<1>e. ASSUME NEW q \in Seq(Waiter(Item))
      PROVE  /\ ItemsOf(q) \in Seq(Item) /\ Len(ItemsOf(q)) = Len(q)
             /\ \A k \in 1..Len(q) : ItemsOf(q)[k] = q[k].item
  <2>1. ItemsOf(q) \in [1..Len(q) -> Item] /\ Len(q) \in Nat
    BY <1>i, Elements DEF ItemsOf
  <2>2. DOMAIN ItemsOf(q) = 1..Len(q) /\ \A k \in 1..Len(q) : ItemsOf(q)[k] = q[k].item
    BY Elements DEF ItemsOf
  <2> QED
    BY <2>1, <2>2
<1>1. p = <<>> <=> ItemsOf(p) = <<>>
  <2>1. /\ p = <<>> <=> Len(p) = 0
        /\ ItemsOf(p) = <<>> <=> Len(ItemsOf(p)) = 0
    BY <1>e
  <2> QED
    BY <1>e, <2>1
<1>2. ASSUME NEW n \in Waiter(Item) PROVE ItemsOf(Append(p, n)) = Append(ItemsOf(p), n.item)
  <2> DEFINE a == Append(p, n)
             b == Append(ItemsOf(p), n.item)
  <2>1. /\ a \in Seq(Waiter(Item)) /\ Len(a) = Len(p) + 1 /\ Len(p) \in Nat
        /\ \A k \in 1..(Len(p) + 1) : a[k] = IF k <= Len(p) THEN p[k] ELSE n
    OBVIOUS
  <2>2. /\ b \in Seq(Item) /\ Len(b) = Len(p) + 1
        /\ \A k \in 1..(Len(p) + 1) : b[k] = IF k <= Len(p) THEN ItemsOf(p)[k] ELSE n.item
    BY <1>e, <1>i
  <2> HIDE DEF a, b
  <2>3. /\ ItemsOf(a) \in Seq(Item) /\ Len(ItemsOf(a)) = Len(a)
        /\ \A k \in 1..Len(a) : ItemsOf(a)[k] = a[k].item
    BY <1>e, <2>1
  <2>4. \A k \in 1..(Len(p) + 1) : ItemsOf(a)[k] = b[k]
    BY <1>e, <2>1, <2>2, <2>3
  <2>5. ItemsOf(a) = b
    BY <2>1, <2>2, <2>3, <2>4, SameEvents
  <2> QED
    BY <2>5 DEF a, b
<1>3. ASSUME p # <<>>
      PROVE  /\ Head(ItemsOf(p)) = Head(p).item /\ Head(p).item \in Item
             /\ ItemsOf(Tail(p)) = Tail(ItemsOf(p))
  <2> DEFINE a == Tail(p)
             b == Tail(ItemsOf(p))
  <2>1. /\ Head(p) \in Waiter(Item) /\ Head(p) = p[1] /\ Len(p) \in Nat \ {0}
        /\ a \in Seq(Waiter(Item)) /\ Len(a) = Len(p) - 1
        /\ \A k \in 1..(Len(p) - 1) : a[k] = p[k + 1] /\ k + 1 \in 1..Len(p)
    BY <1>3
  <2>2. /\ b \in Seq(Item) /\ Len(b) = Len(p) - 1 /\ Head(ItemsOf(p)) = ItemsOf(p)[1]
        /\ \A k \in 1..(Len(p) - 1) : b[k] = ItemsOf(p)[k + 1]
    BY <1>1, <1>3, <1>e, <2>1
  <2> HIDE DEF a, b
  <2>3. /\ ItemsOf(a) \in Seq(Item) /\ Len(ItemsOf(a)) = Len(a)
        /\ \A k \in 1..Len(a) : ItemsOf(a)[k] = a[k].item
    BY <1>e, <2>1
  <2>4. \A k \in 1..(Len(p) - 1) : ItemsOf(a)[k] = b[k]
    BY <1>e, <2>1, <2>2, <2>3
  <2>5. ItemsOf(a) = b
    BY <2>1, <2>2, <2>3, <2>4, SameEvents
  <2>6. Head(ItemsOf(p)) = Head(p).item /\ Head(p).item \in Item
    BY <1>e, <1>i, <2>1, <2>2
  <2> QED
    BY <2>5, <2>6 DEF a, b
<1> QED
  BY <1>e, <1>1, <1>2, <1>3

(* The line of the channel when an item is put, kept waiting, or got.      *)
LEMMA LineMoves ==
  ASSUME NEW buf \in Seq(Item), NEW p \in Seq(Waiter(Item))
  PROVE  /\ buf = <<>> /\ p = <<>> => LineOf(buf, p) = <<>>
         /\ p = <<>> => \A x \in Item : LineOf(Append(buf, x), p) = Append(LineOf(buf, p), x)
         /\ \A n \in Waiter(Item) : LineOf(buf, Append(p, n)) = Append(LineOf(buf, p), n.item)
         /\ buf # <<>> => /\ LineOf(buf, p) # <<>> /\ Head(LineOf(buf, p)) = Head(buf)
                          /\ Tail(LineOf(buf, p)) = LineOf(Tail(buf), p)
         /\ p # <<>> => LineOf(Append(buf, Head(p).item), Tail(p)) = LineOf(buf, p)
<1> DEFINE v == ItemsOf(p)
<1>1. /\ v \in Seq(Item)
      /\ p = <<>> <=> v = <<>>
      /\ \A n \in Waiter(Item) : ItemsOf(Append(p, n)) = Append(v, n.item) /\ n.item \in Item
      /\ p # <<>> => /\ Head(v) = Head(p).item /\ Head(p).item \in Item
                     /\ ItemsOf(Tail(p)) = Tail(v)
  BY ItemsMoves DEF Waiter
<1> HIDE DEF v
<1>2. ASSUME p = <<>>
      PROVE  /\ LineOf(buf, p) = buf
             /\ \A x \in Item : LineOf(Append(buf, x), p) = Append(buf, x)
  <2>1. v = <<>>
    BY <1>1, <1>2
  <2>2. \A u \in Seq(Item) : u \o v = u
    BY <2>1
  <2>3. \A x \in Item : Append(buf, x) \in Seq(Item)
    OBVIOUS
  <2> QED
    BY <2>2, <2>3 DEF LineOf, v
<1>3. ASSUME NEW n \in Waiter(Item)
      PROVE  LineOf(buf, Append(p, n)) = Append(LineOf(buf, p), n.item)
  <2>1. buf \o Append(v, n.item) = Append(buf \o v, n.item)
    BY <1>1, ConcatMoves
  <2> QED
    BY <1>1, <2>1, Zenon DEF LineOf, v
<1>4. ASSUME buf # <<>>
      PROVE  /\ LineOf(buf, p) # <<>> /\ Head(LineOf(buf, p)) = Head(buf)
             /\ Tail(LineOf(buf, p)) = LineOf(Tail(buf), p)
  <2>1. Head(buf) \in Item
    BY <1>4
  <2>2. buf \o v # <<>> /\ Head(buf \o v) = Head(buf) /\ Tail(buf \o v) = Tail(buf) \o v
    BY <1>1, <1>4, <2>1, ConcatMoves
  <2> QED
    BY <2>2, Zenon DEF LineOf, v
<1>5. ASSUME p # <<>> PROVE LineOf(Append(buf, Head(p).item), Tail(p)) = LineOf(buf, p)
  <2>1. v # <<>> /\ Head(v) \in Item
    BY <1>1, <1>5
  <2>2. Append(buf, Head(v)) \o Tail(v) = buf \o v
    BY <1>1, <2>1, ConcatMoves
  <2> QED
    BY <1>1, <1>5, <2>2, Zenon DEF LineOf, v
<1> QED
  BY <1>2, <1>3, <1>4, <1>5, Zenon


(* The steps of the channel, as the store takes them.                      *)
Line == LineOf(items, puts)

LEMMA ChannelSteps ==
  ASSUME \/ \E x \in Item :
              /\ gets # <<>> /\ Line' = Line /\ gets' = Tail(gets)
              /\ answered' = Append(answered, [event |-> Head(gets), item |-> x])
         \/ \E x \in Item :
              /\ gets = <<>> /\ Line' = Append(Line, x) /\ gets' = gets
              /\ answered' = answered
         \/ \E e \in Event :
              /\ Line # <<>> /\ Line' = Tail(Line) /\ gets' = gets
              /\ answered' = Append(answered, [event |-> e, item |-> Head(Line)])
         \/ \E e \in Event :
              /\ Line = <<>> /\ Line' = Line /\ gets' = Append(gets, e)
              /\ answered' = answered
         \/ answered # <<>> /\ Line' = Line /\ gets' = gets /\ answered' = Tail(answered)
  PROVE  S!Channel!Next
BY Zenon DEF S!Channel!Next, S!Channel!Offer, S!Channel!Ask, S!Channel!Deliver, Line,
   LineOf, ItemsOf

LEMMA PutIsOffer ==
  ASSUME FifoInv, NEW e \in Event, NEW x \in Item, S!sim_store_put(e, x)
  PROVE  S!Channel!Next
<1>1. /\ puts \in Seq(Waiter(Item)) /\ items \in Seq(Item)
      /\ gets # <<>> => items = <<>> /\ puts = <<>>
      /\ puts # <<>> => ~RoomIn(room, items)
  BY DEF FifoInv, StoreOf, Places, WaitFor
<1>2. CASE gets # <<>>
  <2>1. /\ answered' = Append(answered, [event |-> Head(gets), item |-> x])
        /\ gets' = Tail(gets) /\ items' = items /\ puts' = puts
    BY <1>2 DEF S!sim_store_put, S!GetWaits, S!accept, S!Answer
  <2>2. Line' = Line
    BY <2>1 DEF Line
  <2> QED
    BY <1>2, <2>1, <2>2, ChannelSteps, Zenon
<1>3. CASE gets = <<>> /\ RoomIn(room, items)
  <2>1. items' = Append(items, x) /\ gets' = gets /\ puts' = puts /\ answered' = answered
    BY <1>3 DEF S!sim_store_put, S!GetWaits, S!HasRoom, S!accept, RoomIn
  <2>2. LineOf(Append(items, x), puts) = Append(LineOf(items, puts), x)
    BY <1>1, <1>3, LineMoves
  <2>3. Line' = Append(Line, x)
    BY <2>1, <2>2, Zenon DEF Line
  <2> QED
    BY <1>3, <2>1, <2>3, ChannelSteps, Zenon
<1>4. CASE gets = <<>> /\ ~RoomIn(room, items)
  <2> DEFINE n == [event |-> e, item |-> x]
  <2>1. /\ puts' = Append(puts, n) /\ items' = items /\ gets' = gets
        /\ answered' = answered
    BY <1>4 DEF S!sim_store_put, S!GetWaits, S!HasRoom, S!wait_put, S!Answer, RoomIn
  <2>2. n \in Waiter(Item) /\ n.item = x
    BY DEF Waiter
  <2> HIDE DEF n
  <2>3. LineOf(items, Append(puts, n)) = Append(LineOf(items, puts), x)
    <3>1. LineOf(items, Append(puts, n)) = Append(LineOf(items, puts), n.item)
      BY <1>1, <2>2, LineMoves
    <3> QED
      BY <2>2, <3>1, Zenon
  <2>4. Line' = Append(Line, x)
    BY <2>1, <2>3, Zenon DEF Line
  <2> QED
    BY <1>4, <2>1, <2>4, ChannelSteps, Zenon
<1> QED
  BY <1>2, <1>3, <1>4

LEMMA GetIsAsk ==
  ASSUME FifoInv, NEW e \in Event, S!sim_store_get(e)
  PROVE  S!Channel!Next
<1>1. puts \in Seq(Waiter(Item)) /\ items \in Seq(Item)
  BY DEF FifoInv, StoreOf, Places
<1>2. CASE items # <<>>
  <2>1. /\ LineOf(items, puts) # <<>> /\ Head(LineOf(items, puts)) = Head(items)
        /\ Tail(LineOf(items, puts)) = LineOf(Tail(items), puts)
        /\ Tail(items) \in Seq(Item)
    BY <1>1, <1>2, LineMoves, TailElements
  <2>2. /\ answered' = Append(answered, [event |-> e, item |-> Head(items)])
        /\ gets' = gets
        /\ IF puts # <<>>
           THEN items' = Append(Tail(items), Head(puts).item) /\ puts' = Tail(puts)
           ELSE items' = Tail(items) /\ puts' = puts
    BY <1>2 DEF S!sim_store_get, S!pull_put, S!accept, S!Answer
  <2>3. Line' = LineOf(Tail(items), puts)
    <3>1. CASE puts # <<>>
      <4> DEFINE rest == Tail(items)
      <4>1. rest \in Seq(Item)
        BY <2>1
      <4> HIDE DEF rest
      <4>2. LineOf(Append(rest, Head(puts).item), Tail(puts)) = LineOf(rest, puts)
        BY <1>1, <3>1, <4>1, LineMoves
      <4> QED
        BY <2>2, <3>1, <4>2, Zenon DEF Line, rest
    <3>2. CASE puts = <<>>
      BY <2>2, <3>2, Zenon DEF Line
    <3> QED
      BY <3>1, <3>2
  <2>4. Line # <<>> /\ Head(Line) = Head(items) /\ Line' = Tail(Line)
    BY <2>1, <2>3, Zenon DEF Line
  <2> QED
    BY <2>2, <2>4, ChannelSteps, Zenon
<1>3. CASE items = <<>>
  <2>1. /\ gets' = Append(gets, e) /\ items' = items /\ puts' = puts
        /\ answered' = answered
    BY <1>3 DEF S!sim_store_get, S!waiter_push
  <2>2. puts = <<>>
    BY <1>3, NoRoom DEF FifoInv
  <2>3. Line = <<>>
    BY <1>1, <1>3, <2>2, LineMoves DEF Line
  <2>4. Line' = Line
    BY <2>1 DEF Line
  <2> QED
    BY <2>1, <2>3, <2>4, ChannelSteps, Zenon
<1> QED
  BY <1>2, <1>3

(* The store of store.c implements the channel of module FifoChannel: the  *)
(* k-th get is answered with the k-th item put, whether the item went      *)
(* through the buffer, through the queue of waiting puts or past both.     *)
THEOREM Fifo == MCSpec => ImplementsChannel
<1>1. ASSUME MCInit, kind = "store" PROVE S!Channel!Init
  <2>1. items = <<>> /\ puts = <<>> /\ gets = <<>> /\ answered = <<>>
    BY <1>1 DEF MCInit, S!Init
  <2>2. LineOf(items, puts) = <<>>
    <3>1. items \in Seq(Item) /\ puts \in Seq(Waiter(Item))
      BY <2>1
    <3> QED
      BY <2>1, <3>1, LineMoves
  <2> QED
    BY <2>1, <2>2, Zenon DEF S!Channel!Init, LineOf, ItemsOf
<1>2. ASSUME FifoInv, S!Next PROVE S!Channel!Next \/ UNCHANGED S!Channel!vars
  <2>1. ASSUME S!process PROVE S!Channel!Next \/ UNCHANGED S!Channel!vars
    <3>1. CASE answered # <<>> /\ answered' = Tail(answered)
               /\ UNCHANGED <<room, items, gets, puts, accepted>>
      <4>1. Line' = Line
        BY <3>1 DEF Line
      <4> QED
        BY <3>1, <4>1, ChannelSteps, Zenon
    <3>2. CASE accepted # <<>> /\ accepted' = Tail(accepted)
               /\ UNCHANGED <<room, items, gets, puts, answered>>
      BY <3>2 DEF S!Channel!vars
    <3> QED
      BY <2>1, <3>1, <3>2 DEF S!process
  <2> QED
    BY <1>2, <2>1, PutIsOffer, GetIsAsk DEF S!Next
<1>3. ASSUME MCInv, [MCNext]_<<kind, vars, S!vars>>
      PROVE  [kind = "store" => S!Channel!Next]_(S!Channel!vars)
  <2>1. CASE MCNext
    <3>1. kind = "store" => S!Next
      BY <2>1, Zenon DEF MCNext
    <3> QED
      BY <1>2, <1>3, <3>1 DEF MCInv
  <2>2. CASE UNCHANGED <<kind, vars, S!vars>>
    BY <2>2 DEF S!vars, S!Channel!vars
  <2> QED
    BY <1>3, <2>1, <2>2
<1> QED
  BY <1>1, <1>3, Inductive, PTL DEF MCSpec, ImplementsChannel


-----------------------------------------------------------------------------
(* The priority store is a channel of the most urgent items.               *)

LinesOf(buf) == [p \in Priorities |-> Segment(buf, p)]

LEMMA LinesMapped ==
  /\ [p \in Priorities |-> P!OfPriority(p)] = LinesOf(items)
  /\ [p \in Priorities |-> P!OfPriority(p)]' = LinesOf(items')
<1>1. ASSUME NEW p PROVE P!OfPriority(p) = Segment(items, p)
  BY Zenon DEF P!OfPriority, P!Cardinality, Cardinality, Segment, Before, UpTo
<1>2. ASSUME NEW p PROVE P!OfPriority(p)' = Segment(items', p)
  BY Zenon DEF P!OfPriority, P!Cardinality, Cardinality, Segment, Before, UpTo
<1> QED
  BY <1>1, <1>2, Zenon DEF LinesOf

(* The lines when an item is placed, when the first one goes, and when     *)
(* there is none.                                                          *)
LEMMA LinesPlaced ==
  ASSUME NEW buf, Ranked(buf), NEW x \in P!ps_item
  PROVE  LET b == x.priority
             l == LinesOf(buf)
         IN  LinesOf(P!item_insert_sorted(buf, x)) = [l EXCEPT ![b] = Append(l[b], x)]
<1> DEFINE a == P!item_insert_sorted(buf, x)
           b == x.priority
           f(q) == Segment(buf, q)
           g(q) == Segment(a, q)
<1>1. /\ b \in Priorities /\ buf \in Seq(P!ps_item) /\ SortedByPriority(buf)
      /\ \A y \in P!ps_item : y.priority \in Int
  BY DEF Ranked
<1>2. a = Placed(buf, x)
  BY ItemPlaced
<1> HIDE DEF a
<1>3. ASSUME NEW q \in Priorities PROVE g(q) = IF q = b THEN Append(f(b), x) ELSE f(q)
  <2>1. q \in Int
    BY PrioritiesAreIntegers
  <2>2. Segment(Placed(buf, x), q) = IF q = x.priority THEN Append(Segment(buf, q), x)
                                                      ELSE Segment(buf, q)
    BY <1>1, <2>1, SegmentPlaced
  <2> QED
    BY <1>2, <2>2, Zenon
<1>4. /\ LinesOf(buf) = [q \in Priorities |-> f(q)]
      /\ LinesOf(a) = [q \in Priorities |-> g(q)]
  BY DEF LinesOf
<1> HIDE DEF f, g, b
<1>5. [q \in Priorities |-> g(q)] =
        [[q \in Priorities |-> f(q)] EXCEPT ![b] = Append(f(b), x)]
  <2> DEFINE w == Append(f(b), x)
  <2>1. \A q \in Priorities : g(q) = IF q = b THEN w ELSE f(q)
    BY <1>3
  <2> HIDE DEF w
  <2>2. [q \in Priorities |-> g(q)] = [[q \in Priorities |-> f(q)] EXCEPT ![b] = w]
    BY <1>1, <2>1
  <2> QED
    BY <2>2 DEF w
<1>6. [q \in Priorities |-> f(q)][b] = f(b)
  BY <1>1
<1> QED
  BY <1>4, <1>5, <1>6, Zenon DEF a, b

LEMMA LinesTail ==
  ASSUME NEW buf, Ranked(buf), buf # <<>>
  PROVE  LET b == Head(buf).priority
             l == LinesOf(buf)
         IN  /\ b \in Priorities /\ l[b] # <<>> /\ Head(l[b]) = Head(buf)
             /\ \A q \in Priorities : q < b => l[q] = <<>>
             /\ LinesOf(Tail(buf)) = [l EXCEPT ![b] = Tail(l[b])]
             /\ Ranked(Tail(buf))
<1> DEFINE b == Head(buf).priority
           f(q) == Segment(buf, q)
           g(q) == Segment(Tail(buf), q)
<1>1. /\ buf \in Seq(P!ps_item) /\ SortedByPriority(buf)
      /\ \A y \in P!ps_item : y.priority \in Int
  BY DEF Ranked
<1>2. b \in Priorities
  <2>1. Head(buf) \in P!ps_item
    BY <1>1
  <2> QED
    BY <2>1 DEF Ranked
<1>3. ASSUME NEW q \in Priorities
      PROVE  /\ q < b => f(q) = <<>>
             /\ q = b => f(q) # <<>> /\ Head(f(q)) = Head(buf) /\ g(q) = Tail(f(q))
             /\ q # b => g(q) = f(q)
  <2>1. q \in Int
    BY PrioritiesAreIntegers
  <2> QED
    BY <1>1, <2>1, SegmentTail
<1>4. /\ LinesOf(buf) = [q \in Priorities |-> f(q)]
      /\ LinesOf(Tail(buf)) = [q \in Priorities |-> g(q)]
  BY DEF LinesOf
<1>5. Ranked(Tail(buf))
  BY <1>1, SegmentTail, SortedTail, TailElements DEF Ranked
<1> HIDE DEF f, g, b
<1>6. \A q \in Priorities : [r \in Priorities |-> f(r)][q] = f(q)
  OBVIOUS
<1>7. [q \in Priorities |-> g(q)] = [[q \in Priorities |-> f(q)] EXCEPT ![b] = Tail(f(b))]
  <2> DEFINE w == Tail(f(b))
  <2>1. \A q \in Priorities : g(q) = IF q = b THEN w ELSE f(q)
    BY <1>3
  <2> HIDE DEF w
  <2>2. [q \in Priorities |-> g(q)] = [[q \in Priorities |-> f(q)] EXCEPT ![b] = w]
    BY <1>2, <2>1
  <2> QED
    BY <2>2 DEF w
<1> QED
  BY <1>2, <1>3, <1>4, <1>5, <1>6, <1>7, Zenon DEF b

LEMMA LinesEmpty ==
  ASSUME NEW buf, Ranked(buf), NEW q \in Priorities
  PROVE  buf = <<>> => LinesOf(buf)[q] = <<>>
<1>1. q \in Int /\ LinesOf(buf)[q] = Segment(buf, q)
  BY PrioritiesAreIntegers DEF LinesOf
<1>2. /\ buf \in Seq(P!ps_item) /\ SortedByPriority(buf)
      /\ \A x \in P!ps_item : x.priority \in Int
  BY DEF Ranked
<1>3. Segment(buf, q) # <<>> => \E x \in ToSet(buf) : x.priority = q
  BY <1>1, <1>2, SegmentElements
<1>4. buf = <<>> => ToSet(buf) = {}
  BY EmptyElements
<1> QED
  BY <1>1, <1>3, <1>4

(* The steps of the channel, as the store takes them.                      *)
LEMMA RankedSteps ==
  ASSUME LET l == LinesOf(items)
             m == LinesOf(items')
             entered(k, x) == [k EXCEPT ![x.priority] = Append(k[x.priority], x)]
             urgent(p) == l[p] # <<>> /\ \A q \in Priorities : q < p => l[q] = <<>>
             rest(p) == [l EXCEPT ![p] = Tail(l[p])]
             empty == \A p \in Priorities : l[p] = <<>>
         IN  \/ \E x \in P!ps_item :
                  /\ gets # <<>> /\ empty /\ m = l /\ gets' = Tail(gets)
                  /\ answered' = Append(answered, [event |-> Head(gets), item |-> x])
             \/ \E x \in P!ps_item :
                  /\ gets = <<>> /\ m = entered(l, x) /\ gets' = gets
                  /\ answered' = answered
             \/ \E e \in Event, p \in Priorities :
                  /\ urgent(p) /\ gets' = gets
                  /\ answered' = Append(answered, [event |-> e, item |-> Head(l[p])])
                  /\ m = rest(p) \/ \E x \in P!ps_item : m = entered(rest(p), x)
             \/ \E e \in Event :
                  empty /\ m = l /\ gets' = Append(gets, e) /\ answered' = answered
             \/ answered # <<>> /\ m = l /\ gets' = gets /\ answered' = Tail(answered)
  PROVE  P!Channel!Next
<1>1. P!Channel!Entry = P!ps_item
  BY DEF P!Channel!Entry, P!ps_item
<1>2. /\ [p \in Priorities |-> P!OfPriority(p)] = LinesOf(items)
      /\ [p \in Priorities |-> P!OfPriority(p)]' = LinesOf(items')
  BY LinesMapped
<1> QED
  BY <1>1, <1>2, Zenon DEF P!Channel!Next, P!Channel!Offer, P!Channel!Ask,
     P!Channel!Deliver, P!Channel!Take, P!Channel!Urgent, P!Channel!Empty,
     P!Channel!Entered

LEMMA RankedPutIsOffer ==
  ASSUME RankedInv, NEW e \in Event, NEW x \in P!ps_item, P!sim_priority_store_put(e, x)
  PROVE  P!Channel!Next \/ UNCHANGED P!Channel!vars
<1> DEFINE l == LinesOf(items)
           placed == P!item_insert_sorted(items, x)
<1>1. Ranked(items) /\ (gets # <<>> => items = <<>>)
  BY ItemPriorities DEF RankedInv, StoreOf, WaitFor, Ranked
<1>2. items = <<>> => Head(placed) = x /\ Tail(placed) = items
  BY <1>1, ItemPlaced
<1>3. LinesOf(placed) = [l EXCEPT ![x.priority] = Append(l[x.priority], x)]
  BY <1>1, LinesPlaced
<1>4. gets # <<>> => \A q \in Priorities : l[q] = <<>>
  BY <1>1, LinesEmpty
<1> HIDE DEF placed
<1>5. CASE gets # <<>> /\ RoomIn(room, items)
  <2>1. /\ answered' = Append(answered, [event |-> Head(gets), item |-> Head(placed)])
        /\ gets' = Tail(gets) /\ items' = Tail(placed)
    BY <1>5, Zenon DEF P!sim_priority_store_put, P!HasRoom, P!accept, P!Answer, RoomIn, placed
  <2>2. Head(placed) = x /\ Tail(placed) = items
    BY <1>1, <1>2, <1>5
  <2>3. /\ answered' = Append(answered, [event |-> Head(gets), item |-> x])
        /\ LinesOf(items') = l
    BY <2>1, <2>2, Zenon
  <2> QED
    BY <1>4, <1>5, <2>1, <2>3, RankedSteps, Zenon
<1>6. CASE gets = <<>> /\ RoomIn(room, items)
  <2>1. items' = placed /\ gets' = gets /\ answered' = answered
    BY <1>6 DEF P!sim_priority_store_put, P!HasRoom, P!accept, RoomIn, placed
  <2>2. LinesOf(items') = [l EXCEPT ![x.priority] = Append(l[x.priority], x)]
    BY <1>3, <2>1, Zenon
  <2> QED
    BY <1>6, <2>1, <2>2, RankedSteps, Zenon
<1>7. CASE ~RoomIn(room, items)
  <2>1. items' = items /\ gets' = gets /\ answered' = answered
    BY <1>7 DEF P!sim_priority_store_put, P!HasRoom, P!wait_put, RoomIn
  <2>2. LinesOf(items') = LinesOf(items)
    BY <2>1, Zenon
  <2> QED
    BY <2>1, <2>2, LinesMapped, Zenon DEF P!Channel!vars
<1> QED
  BY <1>5, <1>6, <1>7

LEMMA RankedGetIsAsk ==
  ASSUME RankedInv, NEW e \in Event, P!sim_priority_store_get(e)
  PROVE  P!Channel!Next
<1> DEFINE l == LinesOf(items)
           b == Head(items).priority
           left == Tail(items)
<1>1. Ranked(items) /\ puts \in Seq(Waiter(P!ps_item))
  BY ItemPriorities DEF RankedInv, StoreOf, Places, Ranked
<1>2. ASSUME items # <<>>
      PROVE  /\ b \in Priorities /\ l[b] # <<>> /\ Head(l[b]) = Head(items)
             /\ \A q \in Priorities : q < b => l[q] = <<>>
             /\ LinesOf(left) = [l EXCEPT ![b] = Tail(l[b])]
             /\ Ranked(left)
  BY <1>1, <1>2, LinesTail
<1> HIDE DEF l, b, left
<1>3. CASE items # <<>> /\ puts = <<>>
  <2>1. /\ answered' = Append(answered, [event |-> e, item |-> Head(items)])
        /\ items' = left /\ gets' = gets
    BY <1>3 DEF P!sim_priority_store_get, P!Answer, left
  <2>2. /\ answered' = Append(answered, [event |-> e, item |-> Head(l[b])])
        /\ LinesOf(items') = [l EXCEPT ![b] = Tail(l[b])]
    BY <1>2, <1>3, <2>1, Zenon
  <2> QED
    BY <1>2, <1>3, <2>1, <2>2, RankedSteps, Zenon DEF l
<1>4. CASE items # <<>> /\ puts # <<>>
  <2> DEFINE x == Head(puts).item
             more == P!item_insert_sorted(left, x)
             k == [l EXCEPT ![b] = Tail(l[b])]
  <2>1. /\ answered' = Append(answered, [event |-> e, item |-> Head(items)])
        /\ items' = more /\ gets' = gets
    BY <1>4, Zenon DEF P!sim_priority_store_get, P!Answer, left
  <2>2. x \in P!ps_item
    <3>1. Head(puts) \in Waiter(P!ps_item)
      BY <1>1, <1>4
    <3> QED
      BY <3>1 DEF Waiter
  <2> HIDE DEF x
  <2>3. LinesOf(more) = [k EXCEPT ![x.priority] = Append(k[x.priority], x)]
    <3>1. LinesOf(more) = [LinesOf(left) EXCEPT ![x.priority] =
                             Append(LinesOf(left)[x.priority], x)]
      BY <1>2, <1>4, <2>2, LinesPlaced
    <3>2. LinesOf(left) = k
      BY <1>2, <1>4
    <3> HIDE DEF more, k
    <3> QED
      BY <3>1, <3>2, Zenon
  <2> HIDE DEF more
  <2>4. /\ answered' = Append(answered, [event |-> e, item |-> Head(l[b])])
        /\ LinesOf(items') = [k EXCEPT ![x.priority] = Append(k[x.priority], x)]
    BY <1>2, <1>4, <2>1, <2>3, Zenon
  <2> QED
    BY <1>2, <1>4, <2>1, <2>2, <2>4, RankedSteps, Zenon DEF l
<1>5. CASE items = <<>>
  <2>1. /\ gets' = Append(gets, e) /\ items' = items /\ answered' = answered
    BY <1>5 DEF P!sim_priority_store_get
  <2>2. \A q \in Priorities : l[q] = <<>>
    BY <1>1, <1>5, LinesEmpty DEF l
  <2>3. LinesOf(items') = l
    BY <2>1, Zenon DEF l
  <2> QED
    BY <2>1, <2>2, <2>3, RankedSteps, Zenon DEF l
<1> QED
  BY <1>3, <1>4, <1>5

(* The store of priority_store.c implements the channel of module          *)
(* PriorityChannel: every get is answered with the oldest of the most      *)
(* urgent items held, whether the item was taken from the buffer or handed *)
(* over by a put, and an item that waited outside joins behind its equals. *)
THEOREM Ranking == MCSpec => ImplementsPriorityChannel
<1>1. ASSUME MCInit, kind = "priority" PROVE P!Channel!Init
  <2>1. items = <<>> /\ gets = <<>> /\ answered = <<>>
    BY <1>1 DEF MCInit, S!Init
  <2>2. Ranked(items)
    BY <1>1, RankedInductive, ItemPriorities DEF MCInit, RankedInv, StoreOf, Ranked
  <2>3. LinesOf(items) = [q \in Priorities |-> <<>>]
    <3>1. \A q \in Priorities : LinesOf(items)[q] = <<>>
      BY <2>1, <2>2, LinesEmpty
    <3> QED
      BY <3>1, Zenon DEF LinesOf
  <2> QED
    BY <2>1, <2>3, LinesMapped, Zenon DEF P!Channel!Init
<1>2. ASSUME RankedInv, P!Next PROVE P!Channel!Next \/ UNCHANGED P!Channel!vars
  <2>1. ASSUME P!process PROVE P!Channel!Next \/ UNCHANGED P!Channel!vars
    <3>1. CASE answered # <<>> /\ answered' = Tail(answered)
               /\ UNCHANGED <<room, items, gets, puts, accepted>>
      <4>1. LinesOf(items') = LinesOf(items)
        BY <3>1
      <4> QED
        BY <3>1, <4>1, RankedSteps, Zenon
    <3>2. CASE accepted # <<>> /\ accepted' = Tail(accepted)
               /\ UNCHANGED <<room, items, gets, puts, answered>>
      <4>1. LinesOf(items') = LinesOf(items)
        BY <3>2
      <4> QED
        BY <3>2, <4>1, LinesMapped, Zenon DEF P!Channel!vars
    <3> QED
      BY <2>1, <3>1, <3>2 DEF P!process
  <2> QED
    BY <1>2, <2>1, RankedPutIsOffer, RankedGetIsAsk DEF P!Next
<1>3. ASSUME MCInv, [MCNext]_<<kind, vars, S!vars>>
      PROVE  [kind = "priority" => P!Channel!Next]_(P!Channel!vars)
  <2>1. CASE MCNext
    <3>1. kind = "priority" => P!Next
      BY <2>1, Zenon DEF MCNext
    <3> QED
      BY <1>2, <1>3, <3>1 DEF MCInv
  <2>2. CASE UNCHANGED <<kind, vars, S!vars>>
    <3>1. UNCHANGED <<items, gets, answered>> /\ LinesOf(items') = LinesOf(items)
      BY <2>2 DEF S!vars, vars
    <3> QED
      BY <3>1, LinesMapped, Zenon DEF P!Channel!vars
  <2> QED
    BY <1>3, <2>1, <2>2
<1> QED
  BY <1>1, <1>3, Inductive, PTL DEF MCSpec, ImplementsPriorityChannel
=============================================================================
