-------------------------- MODULE PriorityChannel --------------------------
(***************************************************************************)
(* What a priority store promises to those who get from it: the oldest of  *)
(* the most urgent items it holds.  Items a put could not yet place do not *)
(* take part; one may come in as soon as a get has taken an item.          *)
(***************************************************************************)
EXTENDS Integers, Sequences

CONSTANTS Event, Item, Priorities

VARIABLES
  line,       \* for each priority, the items held, oldest first
  wanting,    \* gets not yet answered, in the order they were made
  answers     \* answers on their way: [event, item]

vars == <<line, wanting, answers>>

Entry == [item : Item, priority : Priorities]

Init == line = [p \in Priorities |-> <<>>] /\ wanting = <<>> /\ answers = <<>>

Empty == \A p \in Priorities : line[p] = <<>>

(* The priority of the items to go next.                                   *)
Urgent(p) == line[p] # <<>> /\ \A q \in Priorities : q < p => line[q] = <<>>

Entered(l, x) == [l EXCEPT ![x.priority] = Append(@, x)]

Offer(x) ==
  IF wanting # <<>>
  THEN /\ Empty
       /\ answers' = Append(answers, [event |-> Head(wanting), item |-> x])
       /\ wanting' = Tail(wanting)
       /\ UNCHANGED line
  ELSE line' = Entered(line, x) /\ UNCHANGED <<wanting, answers>>

Take(e, p, after) ==
  /\ Urgent(p)
  /\ answers' = Append(answers, [event |-> e, item |-> Head(line[p])])
  /\ line' = after
  /\ UNCHANGED wanting

Ask(e) ==
  \/ \E p \in Priorities :
       LET left == [line EXCEPT ![p] = Tail(@)]
       IN  \/ Take(e, p, left)
           \/ \E x \in Entry : Take(e, p, Entered(left, x))
  \/ /\ Empty
     /\ wanting' = Append(wanting, e)
     /\ UNCHANGED <<line, answers>>

Deliver ==
  /\ answers # <<>>
  /\ answers' = Tail(answers)
  /\ UNCHANGED <<line, wanting>>

Next ==
  \/ \E x \in Entry : Offer(x)
  \/ \E e \in Event : Ask(e)
  \/ Deliver

Spec == Init /\ [][Next]_vars
=============================================================================
