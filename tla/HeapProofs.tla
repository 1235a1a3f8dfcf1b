----------------------------- MODULE HeapProofs -----------------------------
(***************************************************************************)
(* The heap is in order between any two operations, and an iteration of a  *)
(* sift loop leaves it out of order in one place at most, for any times,   *)
(* priorities and number of pushes.                                        *)
(***************************************************************************)
EXTENDS Heap, SequenceLemmas

(* The children of position k are 2k + 1 and 2k + 2.                       *)
LEMMA ParentChild ==
  ASSUME NEW j \in Nat \ {0}
  PROVE  /\ Parent(j) \in Nat /\ Parent(j) < j
         /\ \A k \in Nat : Parent(j) = k <=> j \in {2 * k + 1, 2 * k + 2}
BY DEF Parent

(* Keys are compared in a strict order, and none is unordered but equals.  *)
LEMMA EntryOrder ==
  ASSUME NEW a \in heap_entry, NEW b \in heap_entry, NEW c \in heap_entry
  PROVE  /\ entry_lt(a, b) => ~entry_lt(b, a)
         /\ ~entry_lt(b, a) /\ ~entry_lt(c, b) => ~entry_lt(c, a)
<1>1. /\ a.time \in Nat /\ a.priority \in Nat /\ a.seq \in Nat
      /\ b.time \in Nat /\ b.priority \in Nat /\ b.seq \in Nat
      /\ c.time \in Nat /\ c.priority \in Nat /\ c.seq \in Nat
  <2>1. ASSUME NEW e \in heap_entry
        PROVE  e.time \in Nat /\ e.priority \in Nat /\ e.seq \in Nat
    <3>1. e.time \in Times /\ e.priority \in Priorities /\ e.seq \in 0..(MaxSeq - 1)
      BY DEF heap_entry
    <3>2. e.time \in Nat /\ e.priority \in Nat
      <4> HIDE <3>1
      <4> QED
        BY <3>1, KeysAreNaturals, Zenon
    <3>3. \A n \in 0..(MaxSeq - 1) : n \in Nat
      OBVIOUS
    <3> QED
      BY <3>1, <3>2, <3>3, Zenon
  <2> QED
    BY <2>1
<1> QED
  BY <1>1 DEF entry_lt

(* A swap of two entries keeps the array well-typed.                       *)
LEMMA SwapType ==
  ASSUME NEW n, NEW a \in [0..n -> heap_entry], NEW j \in 0..n, NEW k \in 0..n
  PROVE  /\ Swapped(a, j, k) \in [0..n -> heap_entry]
         /\ \A m \in 0..n : Swapped(a, j, k)[m] =
              IF m = j THEN a[k] ELSE IF m = k THEN a[j] ELSE a[m]
BY DEF Swapped

(* sift_down: what the choice between a position and its children gives.   *)
LEMMA BestChild ==
  ASSUME TypeOK, pc = "down"
  PROVE  /\ i \in DOMAIN data /\ Best(i) \in DOMAIN data
         /\ Best(i) # i => Parent(Best(i)) = i /\ entry_lt(data[Best(i)], data[i])
         /\ Best(i) \in Nat
         /\ \A j \in DOMAIN data \ {0} :
              Parent(j) = i => ~entry_lt(data[j], data[Best(i)])
<1> DEFINE l == 2 * i + 1
           r == 2 * i + 2
           b1 == IF l < len /\ entry_lt(data[l], data[i]) THEN l ELSE i
           b2 == IF r < len /\ entry_lt(data[r], data[b1]) THEN r ELSE b1
<1>1. /\ len \in Nat /\ i \in Nat /\ i \in 0..(len - 1)
      /\ data \in [0..(len - 1) -> heap_entry]
  BY DEF TypeOK
<1>2. Best(i) = b2
  BY DEF Best
<1>3. l \in Nat \ {0} /\ r \in Nat \ {0} /\ l # i /\ r # i /\ l # r
      /\ Parent(l) = i /\ Parent(r) = i
  BY <1>1, ParentChild
<1>4. \A m, n, k \in 0..(len - 1) :
        /\ entry_lt(data[m], data[n]) => ~entry_lt(data[n], data[m])
        /\ ~entry_lt(data[n], data[m]) /\ ~entry_lt(data[k], data[n])
             => ~entry_lt(data[k], data[m])
  BY <1>1, EntryOrder
<1>5. \A j \in DOMAIN data \ {0} : Parent(j) = i => j = l \/ j = r
  BY <1>1, ParentChild
<1>6. l < len => l \in 0..(len - 1)
  BY <1>1
<1>7. r < len => r \in 0..(len - 1) /\ l < len
  BY <1>1
<1> HIDE DEF l, r
<1>8. /\ b1 \in {i, l} /\ b1 \in 0..(len - 1)
      /\ b1 # i => b1 = l /\ entry_lt(data[l], data[i])
      /\ l < len => ~entry_lt(data[l], data[b1])
      /\ ~entry_lt(data[i], data[b1])
  BY <1>1, <1>4, <1>6
<1> HIDE DEF b1
<1>9. /\ b2 \in {b1, r} /\ b2 \in 0..(len - 1)
      /\ b2 # b1 => b2 = r /\ entry_lt(data[r], data[b1])
      /\ r < len => ~entry_lt(data[r], data[b2])
      /\ ~entry_lt(data[b1], data[b2])
  BY <1>1, <1>4, <1>7, <1>8
<1> HIDE DEF b2
<1>10. l < len => ~entry_lt(data[l], data[b2])
  BY <1>4, <1>6, <1>8, <1>9
<1>11. b2 # i => Parent(b2) = i /\ entry_lt(data[b2], data[i])
  <2>1. CASE b2 = b1
    BY <2>1, <1>3, <1>8
  <2>2. CASE b2 = r /\ b2 # b1
    <3>1. b1 # i => entry_lt(data[r], data[i])
      BY <2>2, <1>1, <1>4, <1>7, <1>8, <1>9
    <3> QED
      BY <2>2, <3>1, <1>3, <1>9
  <2> QED
    BY <2>1, <2>2, <1>9
<1>12. \A j \in DOMAIN data \ {0} : Parent(j) = i => ~entry_lt(data[j], data[b2])
  BY <1>1, <1>5, <1>9, <1>10
<1> QED
  BY <1>1, <1>2, <1>9, <1>11, <1>12

-----------------------------------------------------------------------------
(* Types.                                                                  *)

(* Every iteration keeps the types, and the array within its room.         *)
LEMMA NextType == TypeOK /\ [Next]_vars => TypeOK'
<1> SUFFICES ASSUME TypeOK, [Next]_vars
             PROVE  TypeOK'
  OBVIOUS
<1>t. /\ len \in Nat /\ cap \in Nat /\ next_seq \in 0..MaxSeq /\ MaxSeq \in Nat
      /\ data \in [0..(IF pc = "up" THEN len ELSE len - 1) -> heap_entry]
      /\ i \in Nat
  BY KeysAreNaturals DEF TypeOK
<1>1. CASE UNCHANGED vars
  BY <1>1 DEF TypeOK, vars
<1>2. ASSUME NEW t \in Times, NEW p \in Priorities, heap_push(t, p)
      PROVE  TypeOK'
  <2>1. /\ pc = "idle" /\ pc' = "up" /\ i' = len /\ len' = len
        /\ next_seq < MaxSeq /\ next_seq' = next_seq + 1
        /\ data' = [j \in 0..len |->
                      IF j = len THEN [time |-> t, priority |-> p, seq |-> next_seq]
                                 ELSE data[j]]
    BY <1>2 DEF heap_push
  <2>2. data \in [0..(len - 1) -> heap_entry]
    BY <2>1, <1>t
  <2>3. [time |-> t, priority |-> p, seq |-> next_seq] \in heap_entry
    BY <2>1, <1>t DEF heap_entry
  <2>4. data' \in [0..len -> heap_entry]
    BY <2>1, <2>2, <2>3, <1>t
  <2>5. len <= cap
    <3>1. CASE len = 0
      BY <3>1, <1>t
    <3>2. CASE len # 0
      <4>1. len - 1 \in DOMAIN data
        BY <2>2, <3>2, <1>t
      <4> QED
        BY <4>1, <1>t DEF TypeOK
    <3> QED
      BY <3>1, <3>2
  <2>6. cap' \in Nat /\ len < cap'
    BY <1>2, <2>5, <1>t, SomeRoom DEF heap_push, IsFull, heap_grow
  <2>7. \A j \in DOMAIN data' : j < cap'
    BY <2>1, <2>6, <1>t
  <2> QED
    BY <2>1, <2>4, <2>6, <2>7, <1>t DEF TypeOK
<1>3. CASE sift_up
  <2>1. data \in [0..len -> heap_entry] /\ i \in 0..len /\ pc = "up"
    BY <1>3, <1>t DEF sift_up, TypeOK
  <2>2. CASE i > 0 /\ entry_lt(data[i], data[Parent(i)])
    <3>1. Parent(i) \in 0..len /\ Parent(i) \in Nat
      BY <2>1, <2>2, <1>t, ParentChild
    <3>2. /\ data' = Swapped(data, i, Parent(i)) /\ i' = Parent(i)
          /\ UNCHANGED <<len, pc, cap, next_seq>>
      BY <1>3, <2>2 DEF sift_up
    <3>3. data' \in [0..len -> heap_entry]
      BY <2>1, <3>1, <3>2, SwapType
    <3> QED
      BY <2>1, <3>1, <3>2, <3>3, <1>t DEF TypeOK
  <2>3. CASE ~(i > 0 /\ entry_lt(data[i], data[Parent(i)]))
    <3>1. len' = len + 1 /\ pc' = "idle" /\ i' = 0 /\ UNCHANGED <<data, cap, next_seq>>
      BY <1>3, <2>3 DEF sift_up
    <3>2. len' - 1 = len /\ len' \in Nat
      BY <3>1, <1>t
    <3> QED
      BY <2>1, <3>1, <3>2, <1>t DEF TypeOK
  <2> QED
    BY <2>2, <2>3
<1>4. CASE heap_pop
  <2>1. /\ pc = "idle" /\ len > 0 /\ len' = len - 1 /\ i' = 0
        /\ data' = [j \in 0..(len - 2) |-> IF j = 0 THEN data[len - 1] ELSE data[j]]
        /\ pc' = IF len > 1 THEN "down" ELSE "idle"
        /\ UNCHANGED <<cap, next_seq>>
    BY <1>4 DEF heap_pop
  <2>2. data \in [0..(len - 1) -> heap_entry] /\ len' - 1 = len - 2 /\ len' \in Nat
    BY <2>1, <1>t
  <2>3. data' \in [0..(len - 2) -> heap_entry]
    BY <2>1, <2>2, <1>t
  <2>4. \A j \in DOMAIN data' : j \in DOMAIN data
    BY <2>1, <2>2, <1>t
  <2>5. pc' # "idle" => 0 \in DOMAIN data'
    BY <2>1, <1>t
  <2> QED
    BY <2>1, <2>2, <2>3, <2>4, <2>5, <1>t DEF TypeOK
<1>5. CASE sift_down
  <2>1. data \in [0..(len - 1) -> heap_entry] /\ pc = "down"
    BY <1>5, <1>t DEF sift_down
  <2>2. i \in 0..(len - 1) /\ Best(i) \in 0..(len - 1) /\ Best(i) \in Nat
    BY <2>1, BestChild
  <2>3. CASE Best(i) # i
    <3>1. /\ data' = Swapped(data, i, Best(i)) /\ i' = Best(i)
          /\ UNCHANGED <<len, pc, cap, next_seq>>
      BY <1>5, <2>3 DEF sift_down
    <3>2. data' \in [0..(len - 1) -> heap_entry]
      BY <2>1, <2>2, <3>1, SwapType
    <3> QED
      BY <2>1, <2>2, <3>1, <3>2, <1>t DEF TypeOK
  <2>4. CASE Best(i) = i
    BY <1>5, <2>1, <2>4, <1>t DEF sift_down, TypeOK
  <2> QED
    BY <2>3, <2>4
<1> QED
  BY <1>1, <1>2, <1>3, <1>4, <1>5 DEF Next

(* The array is well-typed, and written only where heap_grow made room.    *)
THEOREM HeapTyping == Spec => []TypeOK
<1>1. Init => TypeOK
  BY KeysAreNaturals DEF Init, TypeOK
<1>2. TypeOK /\ [Next]_vars => TypeOK'
  BY NextType
<1> QED
  BY <1>1, <1>2, PTL DEF Spec

-----------------------------------------------------------------------------
(* Order.                                                                  *)

(* What HeapOrder says of one position.                                    *)
InOrder(j) ==
  /\ ~Broken(j) => ~entry_lt(data[j], data[Parent(j)])
  /\ pc # "idle" /\ i > 0 /\ Parent(j) = i => ~entry_lt(data[j], data[Parent(i)])

(* heap_push stores the entry at the end, where only it may be too small.  *)
LEMMA PushOrder ==
  ASSUME TypeOK, HeapOrder, NEW t \in Times, NEW p \in Priorities, heap_push(t, p)
  PROVE  HeapOrder'
<1>1. /\ pc = "idle" /\ pc' = "up" /\ i' = len /\ len \in Nat
      /\ data \in [0..(len - 1) -> heap_entry]
      /\ DOMAIN data' = 0..len /\ \A j \in 0..(len - 1) : data'[j] = data[j]
  BY DEF heap_push, TypeOK
<1>2. ASSUME NEW j \in DOMAIN data' \ {0} PROVE InOrder(j)'
  <2>1. j \in Nat \ {0} /\ j <= len /\ Parent(j) \in Nat /\ Parent(j) < j
    BY <1>1, ParentChild
  <2>2. CASE j = len
    BY <1>1, <2>1, <2>2 DEF InOrder, Broken
  <2>3. CASE j # len
    <3>1. j \in 0..(len - 1) /\ Parent(j) \in 0..(len - 1) /\ Parent(j) # len
      BY <2>1, <2>3, <1>1
    <3>2. ~entry_lt(data[j], data[Parent(j)])
      BY <3>1, <2>1, <1>1 DEF HeapOrder, Broken
    <3> QED
      BY <3>1, <3>2, <1>1 DEF InOrder
  <2> QED
    BY <2>2, <2>3
<1> QED
  BY <1>2 DEF HeapOrder, InOrder

(* A round of sift_up moves the place out of order to the parent, or finds *)
(* that there is none.                                                     *)
LEMMA SiftUpOrder ==
  ASSUME TypeOK, HeapOrder, sift_up
  PROVE  HeapOrder'
<1>1. /\ pc = "up" /\ len \in Nat /\ i \in Nat /\ i \in 0..len
      /\ data \in [0..len -> heap_entry]
  BY DEF sift_up, TypeOK
<1>2. \A m, n, k \in 0..len :
        /\ entry_lt(data[m], data[n]) => ~entry_lt(data[n], data[m])
        /\ ~entry_lt(data[n], data[m]) /\ ~entry_lt(data[k], data[n])
             => ~entry_lt(data[k], data[m])
  BY <1>1, EntryOrder
<1>3. \A j \in (0..len) \ {0} : InOrder(j) /\ Parent(j) \in 0..len /\ Parent(j) < j
  BY <1>1, ParentChild DEF HeapOrder, InOrder
<1>4. CASE i > 0 /\ entry_lt(data[i], data[Parent(i)])
  <2> DEFINE q == Parent(i)
  <2>1. q \in 0..len /\ q < i /\ i \in (0..len) \ {0}
    BY <1>1, <1>3, <1>4
  <2>2. data' = Swapped(data, i, q) /\ i' = q /\ pc' = "up"
    BY <1>4, <1>1 DEF sift_up
  <2> HIDE DEF q
  <2>3. /\ data' \in [0..len -> heap_entry]
        /\ \A m \in 0..len :
             data'[m] = IF m = i THEN data[q] ELSE IF m = q THEN data[i] ELSE data[m]
    BY <1>1, <2>1, <2>2 DEF Swapped
  <2>4. ASSUME NEW j \in (0..len) \ {0} PROVE InOrder(j)'
    <3>1. InOrder(j) /\ Parent(j) \in 0..len /\ Parent(j) < j /\ j \in Nat
      BY <1>3
    <3>2. ASSUME j # q PROVE ~entry_lt(data'[j], data'[Parent(j)])
      <4>1. CASE j = i
        BY <4>1, <2>1, <2>3, <1>1, <1>2, <1>4 DEF q
      <4>2. CASE j # i /\ Parent(j) = i
        <5>1. ~entry_lt(data[j], data[q])
          BY <4>2, <3>1, <2>1, <1>1 DEF InOrder, q
        <5> QED
          BY <5>1, <4>2, <3>2, <2>1, <2>3
      <4>3. CASE j # i /\ Parent(j) = q
        <5>1. ~entry_lt(data[j], data[q])
          BY <4>3, <3>1, <1>1 DEF InOrder, Broken
        <5>2. ~entry_lt(data[q], data[i])
          BY <2>1, <1>2, <1>4 DEF q
        <5>3. ~entry_lt(data[j], data[i])
          BY <5>1, <5>2, <2>1, <1>2
        <5> QED
          BY <5>3, <4>3, <3>2, <2>1, <2>3
      <4>4. CASE j # i /\ Parent(j) # i /\ Parent(j) # q
        BY <4>4, <3>1, <3>2, <2>3, <1>1 DEF InOrder, Broken
      <4> QED
        BY <4>1, <4>2, <4>3, <4>4
    <3>3. ASSUME q > 0, Parent(j) = q PROVE ~entry_lt(data'[j], data'[Parent(q)])
      <4>1. q \in (0..len) \ {0} /\ q # i /\ Parent(q) \in 0..len /\ Parent(q) < q
        BY <3>3, <2>1, <1>3
      <4>2. data'[Parent(q)] = data[Parent(q)]
        BY <4>1, <2>1, <2>3
      <4>3. ~entry_lt(data[q], data[Parent(q)])
        BY <4>1, <1>1, <1>3 DEF InOrder, Broken
      <4>4. CASE j = i
        BY <4>2, <4>3, <4>4, <2>3, <2>1
      <4>5. CASE j # i
        <5>1. ~entry_lt(data[j], data[q]) /\ j # q
          BY <4>5, <3>1, <3>3, <1>1 DEF InOrder, Broken
        <5> QED
          BY <5>1, <4>1, <4>2, <4>3, <4>5, <2>3, <1>2
      <4> QED
        BY <4>4, <4>5
    <3> QED
      BY <3>2, <3>3, <2>2 DEF InOrder, Broken
  <2> QED
    BY <2>3, <2>4 DEF HeapOrder, InOrder
<1>5. CASE ~(i > 0 /\ entry_lt(data[i], data[Parent(i)]))
  <2>1. data' = data /\ pc' = "idle"
    BY <1>5 DEF sift_up
  <2>2. ASSUME NEW j \in (0..len) \ {0} PROVE InOrder(j)'
    <3>1. j = i => i > 0
      BY <1>1
    <3> QED
      BY <3>1, <2>1, <1>1, <1>3, <1>5 DEF InOrder, Broken
  <2> QED
    BY <1>1, <2>1, <2>2 DEF HeapOrder, InOrder
<1> QED
  BY <1>4, <1>5

(* heap_pop puts an entry at the root that only its children may precede.  *)
LEMMA PopOrder ==
  ASSUME TypeOK, HeapOrder, heap_pop
  PROVE  HeapOrder'
<1>1. /\ pc = "idle" /\ len \in Nat /\ len > 0 /\ i' = 0 /\ i' \in Nat
      /\ data \in [0..(len - 1) -> heap_entry]
      /\ data' = [j \in 0..(len - 2) |-> IF j = 0 THEN data[len - 1] ELSE data[j]]
      /\ pc' = IF len > 1 THEN "down" ELSE "idle"
  BY DEF heap_pop, TypeOK
<1>2. ASSUME NEW j \in DOMAIN data' \ {0} PROVE InOrder(j)'
  <2>1. /\ j \in Nat \ {0} /\ j \in 0..(len - 2) /\ j \in DOMAIN data
        /\ Parent(j) \in Nat /\ Parent(j) < j
    BY <1>1, ParentChild
  <2>2. pc' = "down" /\ (Broken(j)' <=> Parent(j) = 0)
    BY <2>1, <1>1 DEF Broken
  <2>3. Parent(j) # 0 => ~entry_lt(data'[j], data'[Parent(j)])
    BY <2>1, <1>1 DEF HeapOrder, Broken
  <2> QED
    BY <2>2, <2>3, <1>1 DEF InOrder
<1> QED
  BY <1>2 DEF HeapOrder, InOrder

(* A round of sift_down moves the place out of order to the lesser child,  *)
(* or finds that there is none.                                            *)
LEMMA SiftDownOrder ==
  ASSUME TypeOK, HeapOrder, sift_down
  PROVE  HeapOrder'
<1> DEFINE b == Best(i)
<1>1. /\ pc = "down" /\ len \in Nat /\ i \in Nat
      /\ data \in [0..(len - 1) -> heap_entry]
  BY DEF sift_down, TypeOK
<1>2. /\ i \in 0..(len - 1) /\ b \in 0..(len - 1) /\ b \in Nat
      /\ b # i => Parent(b) = i /\ entry_lt(data[b], data[i])
      /\ \A j \in (0..(len - 1)) \ {0} : Parent(j) = i => ~entry_lt(data[j], data[b])
  BY <1>1, BestChild
<1>3. \A m, n, k \in 0..(len - 1) :
        /\ entry_lt(data[m], data[n]) => ~entry_lt(data[n], data[m])
        /\ ~entry_lt(data[n], data[m]) /\ ~entry_lt(data[k], data[n])
             => ~entry_lt(data[k], data[m])
  BY <1>1, EntryOrder
<1>4. \A j \in (0..(len - 1)) \ {0} :
        InOrder(j) /\ Parent(j) \in 0..(len - 1) /\ Parent(j) < j
  BY <1>1, ParentChild DEF HeapOrder, InOrder
<1>5. CASE b # i
  <2>1. data' = Swapped(data, i, b) /\ i' = b /\ pc' = "down"
    BY <1>5, <1>1 DEF sift_down
  <2>2. /\ data' \in [0..(len - 1) -> heap_entry]
        /\ \A m \in 0..(len - 1) :
             data'[m] = IF m = i THEN data[b] ELSE IF m = b THEN data[i] ELSE data[m]
    <3> HIDE DEF b
    <3> QED
      BY <1>1, <1>2, <2>1 DEF Swapped
  <2>3. b # 0
    BY <1>2, <1>5 DEF Parent
  <2> HIDE DEF b
  <2>4. ASSUME NEW j \in (0..(len - 1)) \ {0} PROVE InOrder(j)'
    <3>1. InOrder(j) /\ Parent(j) \in 0..(len - 1) /\ Parent(j) < j /\ j \in Nat
      BY <1>4
    <3>2. ASSUME Parent(j) # b PROVE ~entry_lt(data'[j], data'[Parent(j)])
      <4>1. CASE j = b
        BY <4>1, <1>2, <1>3, <1>5, <2>2
      <4>2. CASE j = i
        <5>1. ~entry_lt(data[b], data[Parent(i)])
          <6>1. b \in (0..(len - 1)) \ {0} /\ i > 0
            BY <4>2, <1>2, <2>3, <3>1
          <6> QED
            BY <6>1, <1>1, <1>2, <1>4, <1>5 DEF InOrder
        <5>2. Parent(i) # i
          BY <4>2, <3>1, <1>1
        <5> QED
          BY <5>1, <5>2, <4>2, <3>1, <3>2, <1>2, <2>2
      <4>3. CASE j # b /\ j # i /\ Parent(j) = i
        BY <4>3, <1>2, <2>2
      <4>4. CASE j # b /\ j # i /\ Parent(j) # i
        BY <4>4, <3>1, <3>2, <2>2, <1>1 DEF InOrder, Broken
      <4> QED
        BY <4>1, <4>2, <4>3, <4>4
    <3>3. ASSUME Parent(j) = b PROVE ~entry_lt(data'[j], data'[Parent(b)])
      <4>1. i < b
        BY <1>2, <1>4, <1>5, <2>3
      <4>2. j # b /\ j # i /\ Parent(j) # i
        BY <4>1, <3>1, <3>3, <1>1, <1>2
      <4>3. ~entry_lt(data[j], data[b])
        BY <4>2, <3>1, <3>3, <1>1 DEF InOrder, Broken
      <4> QED
        BY <4>2, <4>3, <2>2, <1>2, <1>5
    <3> QED
      BY <3>2, <3>3, <2>1 DEF InOrder, Broken
  <2> QED
    BY <2>2, <2>4 DEF HeapOrder, InOrder
<1>6. CASE b = i
  <2>1. data' = data /\ pc' = "idle"
    BY <1>6 DEF sift_down
  <2>2. ASSUME NEW j \in (0..(len - 1)) \ {0} PROVE InOrder(j)'
    BY <2>1, <1>1, <1>2, <1>4, <1>6 DEF InOrder, Broken
  <2> QED
    BY <1>1, <2>1, <2>2 DEF HeapOrder, InOrder
<1> QED
  BY <1>5, <1>6

(* The heap is in order, but for one place while a sift loop runs.         *)
THEOREM HeapOrdered == Spec => []HeapOrder
<1>1. Init => HeapOrder
  BY DEF Init, HeapOrder
<1>2. TypeOK /\ HeapOrder /\ [Next]_vars => HeapOrder'
  <2> SUFFICES ASSUME TypeOK, HeapOrder, [Next]_vars
               PROVE  HeapOrder'
    OBVIOUS
  <2>1. CASE UNCHANGED vars
    BY <2>1 DEF HeapOrder, Broken, vars
  <2> QED
    BY <2>1, PushOrder, SiftUpOrder, PopOrder, SiftDownOrder DEF Next
<1> QED
  BY <1>1, <1>2, HeapTyping, PTL DEF Spec

-----------------------------------------------------------------------------
(* The root.                                                               *)

(* heap_pop hands out an entry that no other precedes.                     *)
RootIsLeast ==
  pc = "idle" => \A j \in DOMAIN data : ~entry_lt(data[j], data[0])

(* heap_pop and heap_peek give the least entry (heap.c: the root), so that *)
(* sim_step takes the events by time, priority and age.                    *)
THEOREM RootLeast == Spec => []RootIsLeast
<1>1. TypeOK /\ HeapOrder => RootIsLeast
  <2> SUFFICES ASSUME TypeOK, HeapOrder, pc = "idle"
               PROVE  \A j \in DOMAIN data : ~entry_lt(data[j], data[0])
    BY DEF RootIsLeast
  <2> DEFINE T == {j \in DOMAIN data : entry_lt(data[j], data[0])}
  <2>1. len \in Nat /\ data \in [0..(len - 1) -> heap_entry]
    BY DEF TypeOK
  <2> SUFFICES ASSUME T # {} PROVE FALSE
    OBVIOUS
  <2>2. PICK m \in T : \A k \in T : m <= k
    <3>1. T \subseteq Nat
      BY <2>1
    <3> HIDE DEF T
    <3> QED
      BY <3>1, LeastNatural
  <2>3. m \in 0..(len - 1) /\ 0 \in 0..(len - 1) /\ entry_lt(data[m], data[0])
    BY <2>1
  <2>4. m # 0
    BY <2>1, <2>3, EntryOrder
  <2>5. m \in Nat \ {0} /\ Parent(m) \in 0..(len - 1) /\ Parent(m) < m
    BY <2>1, <2>3, <2>4, ParentChild
  <2>6. ~entry_lt(data[m], data[Parent(m)])
    BY <2>1, <2>3, <2>4 DEF HeapOrder, Broken
  <2>7. ~entry_lt(data[Parent(m)], data[0])
    BY <2>1, <2>2, <2>5
  <2> QED
    BY <2>1, <2>3, <2>5, <2>6, <2>7, EntryOrder
<1> QED
  BY <1>1, HeapTyping, HeapOrdered, PTL

-----------------------------------------------------------------------------
(* The queue the heap stands for.                                          *)

(* A set of entries none of which ties with another (heap.c: seq).         *)
Untied(S) ==
  /\ IsFiniteSet(S) /\ S \subseteq heap_entry
  /\ \A a, b \in S : a.seq = b.seq => a = b

Key(a) == Rank(a.time, a.priority)
Shown(a) == [time |-> Key(a), ev |-> a.seq]

(* The fields of an entry.                                                 *)
LEMMA EntryFields ==
  ASSUME NEW a \in heap_entry
  PROVE  /\ a.time \in Times /\ a.priority \in Priorities /\ a.seq \in 0..(MaxSeq - 1)
         /\ a.time \in Nat /\ a.priority \in Nat /\ a.seq \in Nat
<1>1. a.time \in Times /\ a.priority \in Priorities /\ a.seq \in 0..(MaxSeq - 1)
  BY DEF heap_entry
<1>2. a.time \in Nat /\ a.priority \in Nat
  <2> HIDE <1>1
  <2> QED
    BY <1>1, KeysAreNaturals, Zenon
<1>3. \A n \in 0..(MaxSeq - 1) : n \in Nat
  OBVIOUS
<1> QED
  BY <1>1, <1>2, <1>3, Zenon

(* Two entries that do not tie are in order, one way or the other.         *)
LEMMA EntryTotal ==
  ASSUME NEW a \in heap_entry, NEW b \in heap_entry, NEW c \in heap_entry
  PROVE  /\ ~entry_lt(a, a)
         /\ a.seq # b.seq => entry_lt(a, b) \/ entry_lt(b, a)
         /\ entry_lt(a, b) /\ entry_lt(b, c) => entry_lt(a, c)
<1>1. /\ a.time \in Nat /\ a.priority \in Nat /\ a.seq \in Nat
      /\ b.time \in Nat /\ b.priority \in Nat /\ b.seq \in Nat
      /\ c.time \in Nat /\ c.priority \in Nat /\ c.seq \in Nat
  BY EntryFields
<1> QED
  BY <1>1 DEF entry_lt

(* Time and priority as one key keep their order.                          *)
LEMMA KeyOrder ==
  ASSUME NEW a \in heap_entry, NEW b \in heap_entry
  PROVE  /\ Key(a) \in Nat
         /\ Key(a) <= Key(b) <=> \/ a.time < b.time
                                 \/ a.time = b.time /\ a.priority <= b.priority
<1> DEFINE less(t, p) == {k \in Times \X Priorities : k[1] < t \/ (k[1] = t /\ k[2] < p)}
<1>1. ASSUME NEW t \in Times, NEW p \in Priorities
      PROVE  IsFiniteSet(less(t, p)) /\ Rank(t, p) = Cardinality(less(t, p))
  <2>1. Rank(t, p) = Cardinality(less(t, p))
    BY DEF Rank
  <2>2. t \in Nat
    BY KeysAreNaturals
  <2>3. IsFiniteSet((0..t) \X Priorities)
    <3>1. 0 \in Int /\ t \in Int
      BY <2>2
    <3>2. IsFiniteSet(0..t)
      BY <3>1, FS_Interval
    <3> QED
      BY <3>2, FS_Product, PrioritiesAreFinite
  <2>4. less(t, p) \subseteq (0..t) \X Priorities
    <3> SUFFICES ASSUME NEW k \in less(t, p) PROVE k \in (0..t) \X Priorities
      OBVIOUS
    <3>1. k = <<k[1], k[2]>> /\ k[1] \in Times /\ k[2] \in Priorities
          /\ (k[1] < t \/ k[1] = t)
      OBVIOUS
    <3>2. k[1] \in Nat
      BY <3>1, KeysAreNaturals
    <3>3. k[1] \in 0..t
      BY <3>1, <3>2, <2>2
    <3> QED
      BY <3>1, <3>3
  <2> QED
    <3> HIDE DEF less
    <3> QED
      BY <2>1, <2>3, <2>4, FS_Subset
<1>2. /\ a.time \in Times /\ a.priority \in Priorities /\ a.time \in Nat /\ a.priority \in Nat
      /\ b.time \in Times /\ b.priority \in Priorities /\ b.time \in Nat /\ b.priority \in Nat
  BY EntryFields
<1> DEFINE A == less(a.time, a.priority)
           B == less(b.time, b.priority)
<1>3. /\ IsFiniteSet(A) /\ IsFiniteSet(B) /\ Cardinality(A) \in Nat /\ Cardinality(B) \in Nat
      /\ Key(a) = Cardinality(A) /\ Key(b) = Cardinality(B)
  BY <1>1, <1>2, FS_CardinalityType DEF Key
<1>n. \A k \in Times \X Priorities : k[1] \in Nat /\ k[2] \in Nat
  BY KeysAreNaturals
<1>4. ASSUME a.time < b.time \/ (a.time = b.time /\ a.priority <= b.priority)
      PROVE  Cardinality(A) <= Cardinality(B)
  <2>1. A \subseteq B
    BY <1>2, <1>4, <1>n
  <2> QED
    BY <1>3, <2>1, FS_Subset
<1>5. ASSUME ~(a.time < b.time \/ (a.time = b.time /\ a.priority <= b.priority))
      PROVE  ~(Cardinality(A) <= Cardinality(B))
  <2>1. B \subseteq A
    BY <1>2, <1>5, <1>n
  <2>2. <<b.time, b.priority>> \in A /\ <<b.time, b.priority>> \notin B
    BY <1>2, <1>5
  <2>3. Cardinality(B) <= Cardinality(A) /\ Cardinality(B) # Cardinality(A)
    BY <1>3, <2>1, <2>2, FS_Subset
  <2> QED
    BY <1>3, <2>3
<1> QED
  BY <1>3, <1>4, <1>5

(* The place of an entry among others grows with its key.                  *)
LEMMA PlaceOrder ==
  ASSUME NEW S, Untied(S), NEW a \in S
  PROVE  /\ Place(S, a) \in 1..Cardinality(S)
         /\ \A b \in S : entry_lt(a, b) => Place(S, a) < Place(S, b)
<1> DEFINE below(x) == {y \in S : entry_lt(y, x)}
<1>1. IsFiniteSet(S) /\ S \subseteq heap_entry /\ Cardinality(S) \in Nat
  BY FS_CardinalityType DEF Untied
<1>2. \A x : IsFiniteSet(below(x)) /\ Cardinality(below(x)) \in Nat
  BY <1>1, FS_Subset, FS_CardinalityType
<1>3. \A x : Place(S, x) = Cardinality(below(x)) + 1
  BY DEF Place
<1>4. \A x, y, z \in S : /\ ~entry_lt(x, x)
                         /\ entry_lt(x, y) /\ entry_lt(y, z) => entry_lt(x, z)
  BY <1>1, EntryTotal
<1>5. Place(S, a) \in 1..Cardinality(S)
  <2>1. below(a) \subseteq S \ {a}
    BY <1>4
  <2>2. /\ IsFiniteSet(S \ {a}) /\ Cardinality(S \ {a}) = Cardinality(S) - 1
    BY <1>1, FS_RemoveElement
  <2>3. Cardinality(below(a)) <= Cardinality(S) - 1
    BY <2>1, <2>2, FS_Subset
  <2> QED
    BY <1>1, <1>2, <1>3, <2>3
<1>6. ASSUME NEW b \in S, entry_lt(a, b) PROVE Place(S, a) < Place(S, b)
  <2>1. below(a) \subseteq below(b) /\ a \in below(b) /\ a \notin below(a)
    BY <1>4, <1>6
  <2>2. Cardinality(below(a)) <= Cardinality(below(b))
        /\ Cardinality(below(a)) # Cardinality(below(b))
    BY <1>2, <2>1, FS_Subset
  <2> QED
    BY <1>2, <1>3, <2>2
<1> QED
  BY <1>5, <1>6

(* Every entry has a place of its own, and every place an entry: an        *)
(* injection between finite sets of one size meets every element.          *)
LEMMA PlaceBijection ==
  ASSUME NEW S, Untied(S)
  PROVE  /\ \A a, b \in S : Place(S, a) = Place(S, b) => a = b
         /\ \A k \in 1..Cardinality(S) : \E a \in S : Place(S, a) = k
<1> DEFINE n == Cardinality(S)
           f == [a \in S |-> Place(S, a)]
<1>1. IsFiniteSet(S) /\ S \subseteq heap_entry /\ n \in Nat
  BY FS_CardinalityType DEF Untied
<1>2. \A a \in S : Place(S, a) \in 1..n
  BY PlaceOrder
<1>3. \A a, b \in S : Place(S, a) = Place(S, b) => a = b
  <2> SUFFICES ASSUME NEW a \in S, NEW b \in S, Place(S, a) = Place(S, b), a # b
               PROVE  FALSE
    OBVIOUS
  <2>1. entry_lt(a, b) \/ entry_lt(b, a)
    BY <1>1, EntryTotal DEF Untied
  <2>2. Place(S, a) < Place(S, b) \/ Place(S, b) < Place(S, a)
    BY <2>1, PlaceOrder
  <2> QED
    BY <1>1, <1>2, <2>2
<1>4. f \in Injection(S, 1..n)
  BY <1>2, <1>3 DEF Injection, IsInjective
<1>5. IsFiniteSet(1..n) /\ Cardinality(1..n) = n
  BY <1>1, FS_Interval
<1>6. f \in Surjection(S, 1..n)
  BY <1>4, <1>5, FS_Injection
<1>7. \A k \in 1..n : \E a \in S : f[a] = k
  BY <1>6 DEF Surjection
<1> QED
  BY <1>3, <1>7

(* What is listed at the place of an entry is the entry.                   *)
LEMMA ListedAt ==
  ASSUME NEW S, Untied(S)
  PROVE  /\ Listed(S) \in Seq(Entry(Nat)) /\ Len(Listed(S)) = Cardinality(S)
         /\ DOMAIN Listed(S) = 1..Cardinality(S) /\ Cardinality(S) \in Nat
         /\ \A a \in S : Listed(S)[Place(S, a)] = Shown(a)
<1> DEFINE n == Cardinality(S)
           at(k) == CHOOSE x \in S : Place(S, x) = k
<1>1. n \in Nat /\ S \subseteq heap_entry
  BY FS_CardinalityType DEF Untied
<1>2. \A a \in S : Place(S, a) \in 1..n
  BY PlaceOrder
<1>3. \A k \in 1..n : at(k) \in S /\ Place(S, at(k)) = k
  BY PlaceBijection
<1>4. \A a \in S : at(Place(S, a)) = a
  BY <1>2, <1>3, PlaceBijection
<1>5. Listed(S) = [k \in 1..n |-> Shown(at(k))]
  BY DEF Listed, Shown, Key
<1> HIDE DEF at, n
<1>6. \A k \in 1..n : Shown(at(k)) \in Entry(Nat)
  <2> SUFFICES ASSUME NEW k \in 1..n PROVE Shown(at(k)) \in Entry(Nat)
    OBVIOUS
  <2>1. at(k) \in heap_entry
    BY <1>1, <1>3
  <2> QED
    BY <2>1, KeyOrder, EntryFields DEF Shown, Entry
<1>7. Listed(S) \in Seq(Entry(Nat)) /\ Len(Listed(S)) = n /\ DOMAIN Listed(S) = 1..n
  BY <1>1, <1>5, <1>6
<1>8. \A a \in S : Listed(S)[Place(S, a)] = Shown(a)
  BY <1>2, <1>4, <1>5
<1> QED
  BY <1>1, <1>7, <1>8 DEF n

(* The list is in the order of the keys.                                   *)
LEMMA ListedOrdered ==
  ASSUME NEW S, Untied(S)
  PROVE  InTimeOrder(Listed(S))
<1> DEFINE L == Listed(S)
<1>1. DOMAIN L = 1..Cardinality(S) /\ \A a \in S : L[Place(S, a)] = Shown(a)
  BY ListedAt
<1>2. ASSUME NEW j \in 1..Cardinality(S), NEW k \in 1..Cardinality(S), j < k
      PROVE  L[j].time <= L[k].time
  <2>1. PICK a \in S : Place(S, a) = j
    BY PlaceBijection
  <2>2. PICK b \in S : Place(S, b) = k
    BY PlaceBijection
  <2>3. a \in heap_entry /\ b \in heap_entry
    BY DEF Untied
  <2>4. ~entry_lt(b, a)
    BY <1>2, <2>1, <2>2, PlaceOrder
  <2>5. Key(a) <= Key(b)
    BY <2>3, <2>4, KeyOrder, EntryFields DEF entry_lt
  <2>6. L[j] = Shown(a) /\ L[k] = Shown(b)
    BY <1>1, <2>1, <2>2
  <2>7. Shown(a).time = Key(a) /\ Shown(b).time = Key(b)
    BY DEF Shown
  <2> HIDE DEF L
  <2> QED
    BY <2>5, <2>6, <2>7
<1> QED
  BY <1>1, <1>2 DEF InTimeOrder

(* heap_push: the newcomer, the youngest of all, is listed behind those of *)
(* its key, where Insert puts it.                                          *)
LEMMA ListedPush ==
  ASSUME NEW S, Untied(S), NEW x \in heap_entry, \A a \in S : a.seq < x.seq
  PROVE  /\ Untied(S \cup {x})
         /\ Listed(S \cup {x}) = Insert(Listed(S), Key(x), x.seq)
<1> DEFINE n == Cardinality(S)
           T == S \cup {x}
           L == Listed(S)
           M == Listed(T)
           r == Key(x)
           h == Ahead(L, r)
           I == Insert(L, r, x.seq)
<1>1. /\ IsFiniteSet(S) /\ S \subseteq heap_entry /\ n \in Nat /\ x \notin S
      /\ \A a \in S : a.seq \in Nat /\ a.seq # x.seq
      /\ x.seq \in Nat
  BY FS_CardinalityType, EntryFields DEF Untied
<1>2. IsFiniteSet(T) /\ Cardinality(T) = n + 1
  BY <1>1, FS_AddElement
<1>3. Untied(T)
  BY <1>1, <1>2 DEF Untied
<1>4. /\ L \in Seq(Entry(Nat)) /\ Len(L) = n /\ DOMAIN L = 1..n
      /\ \A a \in S : L[Place(S, a)] = Shown(a)
      /\ InTimeOrder(L)
  BY ListedAt, ListedOrdered
<1>5. /\ M \in Seq(Entry(Nat)) /\ Len(M) = n + 1 /\ DOMAIN M = 1..(n + 1)
      /\ \A a \in T : M[Place(T, a)] = Shown(a)
  BY <1>2, <1>3, ListedAt
<1>6. r \in Nat /\ \A a \in S : Key(a) \in Nat /\ (entry_lt(a, x) <=> Key(a) <= r)
  <2> SUFFICES ASSUME NEW a \in S
               PROVE  r \in Nat /\ Key(a) \in Nat /\ (entry_lt(a, x) <=> Key(a) <= r)
    BY KeyOrder
  <2>1. a \in heap_entry /\ a.seq < x.seq
    BY <1>1
  <2>2. /\ a.time \in Nat /\ a.priority \in Nat /\ x.time \in Nat /\ x.priority \in Nat
    BY <2>1, EntryFields
  <2> QED
    BY <2>1, <2>2, KeyOrder DEF entry_lt
<1>7. h \in 0..n /\ \A j \in 1..n : L[j].time <= r <=> j <= h
  BY <1>4, <1>6, AheadBound, AheadOrdered
<1>8. /\ I \in Seq(Entry(Nat)) /\ Len(I) = n + 1 /\ DOMAIN I = 1..(n + 1)
      /\ \A j \in 1..(n + 1) :
           I[j] = IF j <= h THEN L[j] ELSE IF j = h + 1 THEN Shown(x) ELSE L[j - 1]
  <2>1. /\ I \in Seq(Entry(Nat)) /\ Len(I) = Len(L) + 1
        /\ \A j \in 1..(Len(L) + 1) :
             I[j] = IF j <= h THEN L[j]
                    ELSE IF j = h + 1 THEN [time |-> r, ev |-> x.seq] ELSE L[j - 1]
    BY <1>1, <1>4, <1>6, InsertProperties
  <2> QED
    BY <1>4, <2>1 DEF Shown
<1> HIDE DEF L, M, I, h, r, n
<1>9. ASSUME NEW a \in S
      PROVE  /\ Place(S, a) \in 1..n
             /\ Place(S, a) <= h <=> entry_lt(a, x)
             /\ Place(T, a) = IF entry_lt(a, x) THEN Place(S, a) ELSE Place(S, a) + 1
  <2>1. Place(S, a) \in 1..n
    BY PlaceOrder DEF n
  <2>2. Place(S, a) <= h <=> entry_lt(a, x)
    <3>1. Shown(a).time = Key(a)
      BY DEF Shown
    <3>2. Key(a) <= r <=> Place(S, a) <= h
      BY <2>1, <3>1, <1>4, <1>7
    <3> QED
      BY <3>2, <1>6
  <2>3. entry_lt(a, x) <=> ~entry_lt(x, a)
    BY <1>1, EntryOrder, EntryTotal
  <2> DEFINE P == {y \in S : entry_lt(y, a)}
             Q == {y \in T : entry_lt(y, a)}
  <2>4. IsFiniteSet(P) /\ Cardinality(P) \in Nat
    BY <1>1, FS_Subset, FS_CardinalityType
  <2>5. Q = IF entry_lt(a, x) THEN P ELSE P \cup {x}
    BY <2>3
  <2>6. x \notin P
    BY <1>1
  <2>7. Cardinality(Q) = IF entry_lt(a, x) THEN Cardinality(P) ELSE Cardinality(P) + 1
    <3> HIDE DEF P, Q
    <3> QED
      BY <2>4, <2>5, <2>6, FS_AddElement
  <2>8. Place(S, a) = Cardinality(P) + 1 /\ Place(T, a) = Cardinality(Q) + 1
    BY DEF Place
  <2> HIDE DEF P, Q
  <2> QED
    BY <2>1, <2>2, <2>4, <2>7, <2>8
<1>10. ASSUME NEW j \in 1..(n + 1) PROVE M[j] = I[j]
  <2>1. PICK a \in T : Place(T, a) = j
    BY <1>2, <1>3, PlaceBijection DEF n
  <2>2. CASE a \in S
    <3>1. CASE entry_lt(a, x)
      BY <2>1, <2>2, <3>1, <1>4, <1>5, <1>8, <1>9
    <3>2. CASE ~entry_lt(a, x)
      <4>1. j = Place(S, a) + 1 /\ ~(Place(S, a) <= h) /\ Place(S, a) \in 1..n
        BY <2>1, <2>2, <3>2, <1>9
      <4>2. ~(j <= h) /\ j # h + 1 /\ j - 1 = Place(S, a)
        BY <4>1, <1>7
      <4> QED
        BY <2>1, <2>2, <4>2, <1>4, <1>5, <1>8
    <3> QED
      BY <3>1, <3>2
  <2>3. CASE a = x
    <3>1. PICK b \in T : Place(T, b) = h + 1
      <4>1. h + 1 \in 1..(n + 1)
        BY <1>1, <1>7
      <4> QED
        BY <4>1, <1>2, <1>3, PlaceBijection DEF n
    <3>2. b \notin S
      <4> SUFFICES ASSUME b \in S PROVE FALSE
        OBVIOUS
      <4>1. /\ Place(S, b) \in 1..n /\ (Place(S, b) <= h <=> entry_lt(b, x))
            /\ h + 1 = IF entry_lt(b, x) THEN Place(S, b) ELSE Place(S, b) + 1
        BY <3>1, <1>9
      <4> QED
        BY <4>1, <1>7
    <3>3. j = h + 1
      BY <2>1, <2>3, <3>1, <3>2
    <3>4. M[j] = Shown(x)
      BY <2>1, <2>3, <1>5
    <3>5. ~(j <= h)
      BY <3>3, <1>7
    <3> QED
      BY <3>3, <3>4, <3>5, <1>8
  <2> QED
    BY <2>2, <2>3
<1>11. M = I
  BY <1>5, <1>8, <1>10
<1> QED
  BY <1>3, <1>11 DEF M, I, L, r

(* heap_pop: without the root, the least of all, the rest of the list is   *)
(* left.                                                                   *)
LEMMA ListedPop ==
  ASSUME NEW S, Untied(S), NEW x \in S, \A a \in S : ~entry_lt(a, x)
  PROVE  /\ Untied(S \ {x}) /\ Listed(S) # <<>>
         /\ Listed(S \ {x}) = Tail(Listed(S))
<1> DEFINE n == Cardinality(S)
           T == S \ {x}
           L == Listed(S)
           M == Listed(T)
<1>1. /\ IsFiniteSet(S) /\ S \subseteq heap_entry /\ n \in Nat
      /\ IsFiniteSet(T) /\ Cardinality(T) = n - 1 /\ Cardinality(T) \in Nat
  BY FS_CardinalityType, FS_RemoveElement DEF Untied
<1>2. Untied(T)
  BY <1>1 DEF Untied
<1>3. /\ L \in Seq(Entry(Nat)) /\ Len(L) = n /\ DOMAIN L = 1..n
      /\ \A a \in S : L[Place(S, a)] = Shown(a)
  BY ListedAt
<1>4. /\ M \in Seq(Entry(Nat)) /\ Len(M) = n - 1 /\ DOMAIN M = 1..(n - 1)
      /\ \A a \in T : M[Place(T, a)] = Shown(a)
  BY <1>1, <1>2, ListedAt
<1> HIDE DEF L, M
<1>5. L # <<>> /\ Tail(L) \in Seq(Entry(Nat)) /\ DOMAIN Tail(L) = 1..(n - 1)
      /\ \A j \in 1..(n - 1) : Tail(L)[j] = L[j + 1]
  <2>1. n # 0
    BY <1>1
  <2> HIDE DEF n
  <2> QED
    BY <1>1, <1>3, <2>1
<1>6. ASSUME NEW a \in T PROVE Place(S, a) = Place(T, a) + 1
  <2> DEFINE P == {y \in S : entry_lt(y, a)}
             Q == {y \in T : entry_lt(y, a)}
  <2>1. entry_lt(x, a)
    BY <1>1, EntryTotal DEF Untied
  <2>2. P = Q \cup {x} /\ x \notin Q
    BY <2>1
  <2>3. IsFiniteSet(Q) /\ Cardinality(Q) \in Nat
    BY <1>1, FS_Subset, FS_CardinalityType
  <2>4. Place(S, a) = Cardinality(P) + 1 /\ Place(T, a) = Cardinality(Q) + 1
    BY DEF Place
  <2> HIDE DEF P, Q
  <2>5. Cardinality(P) = Cardinality(Q) + 1
    BY <2>2, <2>3, FS_AddElement
  <2> QED
    BY <2>3, <2>4, <2>5
<1>7. ASSUME NEW j \in 1..(n - 1) PROVE M[j] = Tail(L)[j]
  <2>1. PICK a \in T : Place(T, a) = j
    BY <1>1, <1>2, PlaceBijection
  <2>2. Place(S, a) = j + 1
    BY <2>1, <1>6
  <2> QED
    BY <2>1, <2>2, <1>3, <1>4, <1>5
<1>8. M = Tail(L)
  BY <1>4, <1>5, <1>7
<1> QED
  BY <1>2, <1>5, <1>8 DEF L, M

-----------------------------------------------------------------------------
(* The refinement.                                                         *)

Entries == {data[j] : j \in DOMAIN data}

(* Entries are numbered apart, in the order of their pushes.               *)
Numbered ==
  /\ \A j, k \in DOMAIN data : data[j].seq = data[k].seq => j = k
  /\ \A j \in DOMAIN data : data[j].seq < next_seq

(* So no two of them tie.                                                  *)
LEMMA EntriesUntied ==
  ASSUME TypeOK, Numbered
  PROVE  Untied(Entries)
<1>1. PICK m \in Int : data \in [0..m -> heap_entry]
  BY DEF TypeOK
<1>2. data \in Surjection(0..m, Entries)
  BY <1>1 DEF Surjection, Entries
<1>3. IsFiniteSet(0..m)
  BY <1>1, FS_Interval
<1>4. IsFiniteSet(Entries)
  BY <1>2, <1>3, FS_Surjection
<1> QED
  BY <1>1, <1>4 DEF Untied, Entries, Numbered

(* A round of a sift loop changes the places of entries only.              *)
LEMMA SwapKeeps ==
  ASSUME NEW n \in Int, data \in [0..n -> heap_entry], Numbered,
         NEW j \in 0..n, NEW k \in 0..n, data' = Swapped(data, j, k),
         next_seq' = next_seq
  PROVE  Numbered' /\ Entries' = Entries
<1> DEFINE from(m) == IF m = j THEN k ELSE IF m = k THEN j ELSE m
<1>1. /\ DOMAIN data = 0..n /\ DOMAIN data' = 0..n
      /\ \A m \in 0..n : data'[m] = data[from(m)] /\ from(m) \in 0..n
  BY SwapType DEF Swapped
<1>2. \A m \in 0..n : from(from(m)) = m
  OBVIOUS
<1> HIDE DEF from
<1>3. Entries' = Entries
  BY <1>1, <1>2 DEF Entries
<1>4. Numbered'
  BY <1>1, <1>2 DEF Numbered
<1> QED
  BY <1>3, <1>4

(* heap_push adds the entry that its caller has numbered.                  *)
LEMMA PushAdds ==
  ASSUME TypeOK, Numbered, NEW t \in Times, NEW p \in Priorities, heap_push(t, p)
  PROVE  LET x == [time |-> t, priority |-> p, seq |-> next_seq]
         IN  /\ x \in heap_entry /\ Entries' = Entries \cup {x}
             /\ \A a \in Entries : a.seq < x.seq
             /\ Numbered'
<1> DEFINE x == [time |-> t, priority |-> p, seq |-> next_seq]
<1>1. /\ len \in Nat /\ next_seq \in Nat /\ next_seq < MaxSeq /\ next_seq' = next_seq + 1
      /\ data \in [0..(len - 1) -> heap_entry]
      /\ data' = [j \in 0..len |-> IF j = len THEN x ELSE data[j]]
  BY KeysAreNaturals DEF TypeOK, heap_push
<1>2. x \in heap_entry /\ x.seq = next_seq
  BY <1>1, KeysAreNaturals DEF heap_entry
<1> HIDE DEF x
<1>3. /\ DOMAIN data = 0..(len - 1) /\ DOMAIN data' = 0..len /\ data'[len] = x
      /\ \A j \in 0..(len - 1) : data'[j] = data[j] /\ j \in 0..len /\ j # len
      /\ \A j \in 0..len : j # len => j \in 0..(len - 1)
      /\ len \in 0..len
  BY <1>1
<1>4. Entries' = Entries \cup {x}
  BY <1>3 DEF Entries
<1>5. \A j \in 0..(len - 1) : data[j].seq \in Nat /\ data[j].seq < next_seq
  BY <1>1, <1>3, EntryFields DEF Numbered
<1>6. \A a \in Entries : a.seq < x.seq
  BY <1>2, <1>3, <1>5 DEF Entries
<1>7. \A j \in 0..len : data'[j].seq \in Nat /\ data'[j].seq < next_seq'
                        /\ (j # len => data'[j].seq # data'[len].seq)
  BY <1>1, <1>2, <1>3, <1>5
<1>8. Numbered'
  BY <1>3, <1>7 DEF Numbered
<1> QED
  BY <1>2, <1>4, <1>6, <1>8 DEF x

(* heap_pop takes the root and no other entry.                             *)
LEMMA PopRemoves ==
  ASSUME TypeOK, Numbered, heap_pop
  PROVE  /\ data[0] \in Entries /\ Entries' = Entries \ {data[0]} /\ Numbered'
<1> DEFINE from(j) == IF j = 0 THEN len - 1 ELSE j
<1>1. /\ len \in Nat /\ len > 0 /\ next_seq' = next_seq
      /\ data \in [0..(len - 1) -> heap_entry]
      /\ data' = [j \in 0..(len - 2) |-> IF j = 0 THEN data[len - 1] ELSE data[j]]
  BY DEF TypeOK, heap_pop
<1>2. /\ DOMAIN data = 0..(len - 1) /\ DOMAIN data' = 0..(len - 2)
      /\ 0 \in 0..(len - 1)
      /\ \A j \in 0..(len - 2) : data'[j] = data[from(j)]
  BY <1>1
<1>3. /\ \A j \in 0..(len - 2) : from(j) \in 0..(len - 1) /\ from(j) # 0
      /\ \A j, k \in 0..(len - 2) : from(j) = from(k) => j = k
      /\ \A k \in 0..(len - 1) : k # 0 => \E j \in 0..(len - 2) : from(j) = k
  <2>1. \A k \in 0..(len - 1) : k # 0 => \E j \in 0..(len - 2) : from(j) = k
    <3> SUFFICES ASSUME NEW k \in 0..(len - 1), k # 0
                 PROVE  \E j \in 0..(len - 2) : from(j) = k
      OBVIOUS
    <3>1. CASE k = len - 1
      <4>1. 0 \in 0..(len - 2) /\ from(0) = k
        BY <3>1, <1>1
      <4> QED
        BY <4>1
    <3>2. CASE k # len - 1
      <4>1. k \in 0..(len - 2) /\ from(k) = k
        BY <3>2, <1>1
      <4> QED
        BY <4>1
    <3> QED
      BY <3>1, <3>2
  <2> QED
    BY <2>1, <1>1
<1> HIDE DEF from
<1>4. \A j, k \in 0..(len - 1) : data[j] = data[k] => j = k
  BY <1>2 DEF Numbered
<1>5. Entries' = Entries \ {data[0]}
  <2>1. ASSUME NEW a \in Entries' PROVE a \in Entries \ {data[0]}
    <3>1. PICK j \in 0..(len - 2) : a = data[from(j)]
      BY <1>2 DEF Entries
    <3> QED
      BY <3>1, <1>2, <1>3, <1>4 DEF Entries
  <2>2. ASSUME NEW a \in Entries \ {data[0]} PROVE a \in Entries'
    <3>1. PICK k \in 0..(len - 1) : a = data[k]
      BY <1>2 DEF Entries
    <3>2. PICK j \in 0..(len - 2) : from(j) = k
      BY <2>2, <3>1, <1>3
    <3> QED
      BY <3>1, <3>2, <1>2 DEF Entries
  <2> QED
    BY <2>1, <2>2
<1>6. Numbered'
  BY <1>1, <1>2, <1>3 DEF Numbered
<1>7. data[0] \in Entries
  BY <1>2 DEF Entries
<1> QED
  BY <1>5, <1>6, <1>7

(* What a step of the heap does to its entries.                            *)
LEMMA StepEntries ==
  ASSUME TypeOK, Numbered, sift_up \/ sift_down \/ UNCHANGED vars
  PROVE  Numbered' /\ Entries' = Entries /\ next_seq' = next_seq
<1>t. len \in Nat /\ i \in Nat /\ data \in [0..(IF pc = "up" THEN len ELSE len - 1) -> heap_entry]
  BY DEF TypeOK
<1>1. ASSUME UNCHANGED <<data, next_seq>> PROVE Numbered' /\ Entries' = Entries
  BY <1>1 DEF Numbered, Entries
<1>2. CASE sift_up
  <2>1. pc = "up" /\ i \in 0..len /\ data \in [0..len -> heap_entry] /\ next_seq' = next_seq
    BY <1>2, <1>t DEF sift_up, TypeOK
  <2>2. CASE i > 0 /\ entry_lt(data[i], data[Parent(i)])
    <3>1. Parent(i) \in 0..len /\ len \in Int
      BY <2>1, <2>2, <1>t, ParentChild
    <3>2. data' = Swapped(data, i, Parent(i))
      BY <1>2, <2>2 DEF sift_up
    <3> QED
      BY <2>1, <3>1, <3>2, SwapKeeps
  <2>3. CASE ~(i > 0 /\ entry_lt(data[i], data[Parent(i)]))
    <3>1. data' = data
      BY <1>2, <2>3 DEF sift_up
    <3> QED
      BY <2>1, <3>1, <1>1
  <2> QED
    BY <2>2, <2>3
<1>3. CASE sift_down
  <2>1. pc = "down" /\ data \in [0..(len - 1) -> heap_entry] /\ next_seq' = next_seq
    BY <1>3, <1>t DEF sift_down
  <2>2. i \in 0..(len - 1) /\ Best(i) \in 0..(len - 1) /\ len - 1 \in Int
    BY <2>1, <1>t, BestChild
  <2>3. CASE Best(i) # i
    <3>1. data' = Swapped(data, i, Best(i))
      BY <1>3, <2>3 DEF sift_down
    <3> QED
      BY <2>1, <2>2, <3>1, SwapKeeps
  <2>4. CASE Best(i) = i
    <3>1. data' = data
      BY <1>3, <2>4 DEF sift_down
    <3> QED
      BY <2>1, <3>1, <1>1
  <2> QED
    BY <2>3, <2>4
<1>4. CASE UNCHANGED vars
  BY <1>1, <1>4 DEF vars
<1> QED
  BY <1>2, <1>3, <1>4

(* The heap is the queue the kernel is modelled with: a push inserts an    *)
(* entry behind those of its key, a pop takes the first, and a round of a  *)
(* sift loop is not to be seen, for any number of entries.                 *)
THEOREM Implements == Spec => ImplementsQueue
<1>1. Init => Numbered /\ Queue!Init
  <2> SUFFICES ASSUME Init PROVE Numbered /\ Queue!Init
    OBVIOUS
  <2>1. DOMAIN data = {} /\ Entries = {}
    BY DEF Init, Entries
  <2>2. Numbered
    BY <2>1 DEF Numbered
  <2>3. Cardinality({}) = 0
    BY FS_EmptySet
  <2>4. Listed({}) = <<>>
    BY <2>3 DEF Listed
  <2> QED
    BY <2>1, <2>2, <2>4 DEF Queue!Init, Contents, Entries, Init
<1>2. TypeOK /\ Numbered /\ RootIsLeast /\ [Next]_vars
        => Numbered' /\ [Queue!Next]_<<Contents, next_seq>>
  <2> SUFFICES ASSUME TypeOK, Numbered, RootIsLeast, [Next]_vars
               PROVE  Numbered' /\ [Queue!Next]_<<Contents, next_seq>>
    OBVIOUS
  <2>0. Contents = Listed(Entries) /\ Contents' = Listed(Entries')
    BY DEF Contents, Entries
  <2>u. Untied(Entries)
    BY EntriesUntied
  <2>1. ASSUME NEW t \in Times, NEW p \in Priorities, heap_push(t, p)
        PROVE  Numbered' /\ Queue!Next
    <3> DEFINE x == [time |-> t, priority |-> p, seq |-> next_seq]
    <3>1. /\ x \in heap_entry /\ Entries' = Entries \cup {x}
          /\ \A a \in Entries : a.seq < x.seq
          /\ Numbered'
      BY <2>1, PushAdds
    <3>2. Key(x) = Rank(t, p) /\ x.seq = next_seq
      BY DEF Key
    <3> HIDE DEF x
    <3>3. Contents' = Insert(Contents, Key(x), x.seq)
      BY <2>0, <2>u, <3>1, ListedPush
    <3>4. Contents' = Insert(Contents, Rank(t, p), next_seq)
      BY <3>2, <3>3
    <3>5. next_seq' = next_seq + 1
      BY <2>1 DEF heap_push
    <3>6. <<t, p>> \in Times \X Priorities /\ <<t, p>>[1] = t /\ <<t, p>>[2] = p
      OBVIOUS
    <3>7. Queue!Push(Rank(t, p))
      BY <3>4, <3>5, Zenon DEF Queue!Push, Queue!Insert, Insert, Queue!Ahead, Ahead,
                        Queue!InsertAt, InsertAt,
                        Queue!Cardinality, Cardinality
    <3> QED
      BY <3>1, <3>6, <3>7, Zenon DEF Queue!Next
  <2>2. CASE heap_pop
    <3>1. data[0] \in Entries /\ Entries' = Entries \ {data[0]} /\ Numbered'
      BY <2>2, PopRemoves
    <3>2. \A a \in Entries : ~entry_lt(a, data[0])
      BY <2>2 DEF RootIsLeast, heap_pop, Entries
    <3>3. Contents # <<>> /\ Contents' = Tail(Contents)
      BY <2>0, <2>u, <3>1, <3>2, ListedPop
    <3> QED
      BY <2>2, <3>1, <3>3, Zenon DEF Queue!Next, Queue!Pop, heap_pop
  <2>3. ASSUME sift_up \/ sift_down \/ UNCHANGED vars
        PROVE  Numbered' /\ UNCHANGED <<Contents, next_seq>>
    BY <2>0, <2>3, StepEntries
  <2> QED
    BY <2>1, <2>2, <2>3 DEF Next
<1> QED
  BY <1>1, <1>2, HeapTyping, RootLeast, PTL DEF Spec, ImplementsQueue, Queue!Spec
=============================================================================
