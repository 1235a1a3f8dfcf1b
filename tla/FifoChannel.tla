---------------------------- MODULE FifoChannel ----------------------------
(***************************************************************************)
(* What a store promises to those who get from it, whatever its capacity:  *)
(* the k-th get is answered with the k-th item put.                        *)
(***************************************************************************)
EXTENDS Sequences

CONSTANTS Event, Item

VARIABLES
  line,       \* items put and not yet got, in the order of the puts
  wanting,    \* gets not yet answered, in the order they were made
  answers     \* answers on their way: [event, item]

vars == <<line, wanting, answers>>

Init == line = <<>> /\ wanting = <<>> /\ answers = <<>>

Offer(item) ==
  IF wanting # <<>>
  THEN /\ answers' = Append(answers, [event |-> Head(wanting), item |-> item])
       /\ wanting' = Tail(wanting)
       /\ UNCHANGED line
  ELSE /\ line' = Append(line, item)
       /\ UNCHANGED <<wanting, answers>>

Ask(e) ==
  IF line # <<>>
  THEN /\ answers' = Append(answers, [event |-> e, item |-> Head(line)])
       /\ line' = Tail(line)
       /\ UNCHANGED wanting
  ELSE /\ wanting' = Append(wanting, e)
       /\ UNCHANGED <<line, answers>>

Deliver ==
  /\ answers # <<>>
  /\ answers' = Tail(answers)
  /\ UNCHANGED <<line, wanting>>

Next ==
  \/ \E item \in Item : Offer(item)
  \/ \E e \in Event : Ask(e)
  \/ Deliver

Spec == Init /\ [][Next]_vars
=============================================================================
