--------------------------- MODULE SequenceLemmas ---------------------------
(***************************************************************************)
(* What the queues of the resources, the stores and the kernel rest on,    *)
(* for sequences of anything: the elements, and whether any is there       *)
(* twice, when one is added, inserted or taken.  What would need an        *)
(* induction goes through a least counterexample (LeastNatural).           *)
(***************************************************************************)
EXTENDS Agenda, Lines, FiniteSets, FiniteSetTheorems, WellFoundedInduction,
        SequenceTheorems, TLAPS

(* A set of natural numbers has a least one: what an induction needs.      *)
LEMMA LeastNatural ==
  ASSUME NEW T, T \subseteq Nat, T # {}
  PROVE  \E m \in T : \A k \in T : m <= k
<1> DEFINE R == {p \in Nat \X Nat : p[1] < p[2]}
<1>1. IsWellFoundedOn(R, Nat)
  BY NatLessThanWellFounded DEF OpToRel
<1>2. PICK m \in T : \A k \in T : ~ (<<k, m>> \in R)
  <2> HIDE DEF R
  <2> QED
    BY <1>1, WFMin
<1>3. ASSUME NEW k \in T PROVE m <= k
  <2>1. k \in Nat /\ m \in Nat
    OBVIOUS
  <2>2. <<k, m>> \in R <=> k < m
    BY <2>1
  <2> QED
    BY <1>2, <2>1, <2>2
<1> QED
  BY <1>3

(* Min of the library is that one: what SelectInSeq returns.               *)
LEMMA MinLeast ==
  ASSUME NEW T, T \subseteq Nat, T # {}
  PROVE  Min(T) \in T /\ \A k \in T : Min(T) <= k
<1>1. \E m \in T : \A k \in T : m <= k
  BY LeastNatural
<1> QED
  BY <1>1 DEF Min

(* The elements of s, by their positions.                                  *)
LEMMA Elements ==
  ASSUME NEW S, NEW s \in Seq(S)
  PROVE  /\ DOMAIN s = 1..Len(s) /\ Len(s) \in Nat
         /\ ToSet(s) \subseteq S
         /\ \A x : x \in ToSet(s) <=> \E k \in 1..Len(s) : s[k] = x
         /\ IsInjective(s) <=> \A j, k \in 1..Len(s) : s[j] = s[k] => j = k
         /\ s = <<>> <=> ToSet(s) = {}
<1>1. DOMAIN s = 1..Len(s) /\ Len(s) \in Nat /\ \A k \in 1..Len(s) : s[k] \in S
  OBVIOUS
<1>2. \A x : x \in ToSet(s) <=> \E k \in 1..Len(s) : s[k] = x
  BY <1>1, Zenon DEF ToSet
<1>3. ToSet(s) \subseteq S
  BY <1>1, <1>2, Zenon
<1>4. IsInjective(s) <=> \A j, k \in 1..Len(s) : s[j] = s[k] => j = k
  BY <1>1 DEF IsInjective
<1>5. s = <<>> <=> ToSet(s) = {}
  <2>1. CASE s = <<>>
    <3>1. ~\E k \in 1..Len(s) : TRUE
      BY <2>1
    <3>2. \A x : x \notin ToSet(s)
      BY <1>2, <3>1, Zenon
    <3> QED
      BY <2>1, <3>2
  <2>2. CASE s # <<>>
    <3>1. 1 \in 1..Len(s)
      BY <1>1, <2>2
    <3>2. s[1] \in ToSet(s)
      BY <1>2, <3>1, Zenon
    <3> QED
      BY <2>2, <3>2
  <2> QED
    BY <2>1, <2>2
<1> QED
  BY <1>1, <1>2, <1>3, <1>4, <1>5

(* Nothing is in the empty sequence.                                       *)
LEMMA EmptyElements == ToSet(<<>>) = {} /\ IsInjective(<<>>)
BY DEF ToSet, IsInjective

(* One after the other.                                                    *)
LEMMA ConcatElements ==
  ASSUME NEW S, NEW s \in Seq(S), NEW t \in Seq(S)
  PROVE  /\ s \o t \in Seq(S)
         /\ ToSet(s \o t) = ToSet(s) \cup ToSet(t)
         /\ IsInjective(s \o t) <=>
              IsInjective(s) /\ IsInjective(t) /\ ToSet(s) \cap ToSet(t) = {}
<1> DEFINE m == Len(s)
           n == Len(t)
           c == s \o t
<1>1. /\ m \in Nat /\ n \in Nat /\ c \in Seq(S) /\ Len(c) = m + n
      /\ \A k \in 1..m : k \in 1..(m + n) /\ c[k] = s[k]
      /\ \A k \in 1..n : m + k \in 1..(m + n) /\ c[m + k] = t[k]
  OBVIOUS
<1>e. /\ \A x : x \in ToSet(s) <=> \E k \in 1..m : s[k] = x
      /\ \A x : x \in ToSet(t) <=> \E k \in 1..n : t[k] = x
      /\ \A x : x \in ToSet(c) <=> \E k \in 1..(m + n) : c[k] = x
      /\ IsInjective(s) <=> \A j, k \in 1..m : s[j] = s[k] => j = k
      /\ IsInjective(t) <=> \A j, k \in 1..n : t[j] = t[k] => j = k
      /\ IsInjective(c) <=> \A j, k \in 1..(m + n) : c[j] = c[k] => j = k
  <2>1. /\ \A x : x \in ToSet(c) <=> \E k \in 1..Len(c) : c[k] = x
        /\ IsInjective(c) <=> \A j, k \in 1..Len(c) : c[j] = c[k] => j = k
    <3> HIDE DEF c
    <3> QED
      BY <1>1, Elements
  <2>2. Len(c) = m + n
    BY <1>1
  <2> QED
    BY <2>1, <2>2, Elements
<1> HIDE DEF c, m, n
<1>2. \A k \in 1..(m + n) : k \in 1..m \/ (k - m \in 1..n /\ m + (k - m) = k)
  BY <1>1
<1>3. ToSet(c) = ToSet(s) \cup ToSet(t)
  <2>1. ASSUME NEW x \in ToSet(c) PROVE x \in ToSet(s) \cup ToSet(t)
    <3>1. PICK k \in 1..(m + n) : c[k] = x
      BY <2>1, <1>e
    <3>2. CASE k \in 1..m
      BY <3>1, <3>2, <1>1, <1>e
    <3>3. CASE k - m \in 1..n /\ m + (k - m) = k
      <4>1. c[k] = t[k - m]
        BY <3>3, <1>1
      <4> QED
        BY <4>1, <3>1, <3>3, <1>e
    <3> QED
      BY <3>2, <3>3, <1>2
  <2>2. ASSUME NEW x \in ToSet(s) \cup ToSet(t) PROVE x \in ToSet(c)
    <3>1. (\E k \in 1..m : s[k] = x) \/ (\E k \in 1..n : t[k] = x)
      BY <1>e
    <3>2. \E k \in 1..(m + n) : c[k] = x
      BY <3>1, <1>1
    <3> QED
      BY <3>2, <1>e
  <2> QED
    BY <2>1, <2>2
<1>4. ASSUME IsInjective(c)
      PROVE  IsInjective(s) /\ IsInjective(t) /\ ToSet(s) \cap ToSet(t) = {}
  <2>1. \A j, k \in 1..(m + n) : c[j] = c[k] => j = k
    BY <1>4, <1>e
  <2>2. \A j, k \in 1..m : s[j] = s[k] => j = k
    BY <2>1, <1>1
  <2>3. \A j, k \in 1..n : t[j] = t[k] => j = k
    <3> SUFFICES ASSUME NEW j \in 1..n, NEW k \in 1..n, t[j] = t[k] PROVE j = k
      OBVIOUS
    <3>1. m + j = m + k
      BY <2>1, <1>1
    <3> QED
      BY <3>1, <1>1
  <2>4. \A j \in 1..m, k \in 1..n : s[j] # t[k]
    <3> SUFFICES ASSUME NEW j \in 1..m, NEW k \in 1..n, s[j] = t[k] PROVE FALSE
      OBVIOUS
    <3>1. j = m + k
      BY <2>1, <1>1
    <3> QED
      BY <3>1, <1>1
  <2> QED
    BY <2>2, <2>3, <2>4, <1>e
<1>5. ASSUME IsInjective(s), IsInjective(t), ToSet(s) \cap ToSet(t) = {}
      PROVE  IsInjective(c)
  <2>1. /\ \A j, k \in 1..m : s[j] = s[k] => j = k
        /\ \A j, k \in 1..n : t[j] = t[k] => j = k
        /\ \A j \in 1..m, k \in 1..n : s[j] # t[k] /\ t[k] # s[j]
    BY <1>5, <1>e
  <2>2. ASSUME NEW j \in 1..(m + n), NEW k \in 1..(m + n), c[j] = c[k]
        PROVE  j = k
    <3>1. CASE j \in 1..m /\ k \in 1..m
      BY <3>1, <2>1, <2>2, <1>1
    <3>2. CASE j \in 1..m /\ k - m \in 1..n /\ m + (k - m) = k
      <4>1. c[j] = s[j] /\ c[k] = t[k - m]
        BY <3>2, <1>1
      <4> QED
        BY <4>1, <3>2, <2>1, <2>2
    <3>3. CASE k \in 1..m /\ j - m \in 1..n /\ m + (j - m) = j
      <4>1. c[k] = s[k] /\ c[j] = t[j - m]
        BY <3>3, <1>1
      <4> QED
        BY <4>1, <3>3, <2>1, <2>2
    <3>4. CASE /\ j - m \in 1..n /\ m + (j - m) = j
               /\ k - m \in 1..n /\ m + (k - m) = k
      <4>1. t[j - m] = t[k - m]
        BY <3>4, <2>2, <1>1
      <4>2. j - m = k - m
        BY <4>1, <3>4, <2>1
      <4> QED
        BY <4>2, <3>4
    <3> QED
      BY <3>1, <3>2, <3>3, <3>4, <1>2
  <2> QED
    BY <2>2, <1>e
<1> QED
  BY <1>1, <1>3, <1>4, <1>5 DEF c

(* The positions of one after the other.                                   *)
LEMMA ConcatPositions ==
  ASSUME NEW S, NEW s \in Seq(S), NEW t \in Seq(S)
  PROVE  /\ s \o t \in Seq(S) /\ Len(s \o t) = Len(s) + Len(t)
         /\ \A j \in 1..(Len(s) + Len(t)) :
              (s \o t)[j] = IF j <= Len(s) THEN s[j] ELSE t[j - Len(s)]
OBVIOUS

(* A sequence of one element.                                              *)
LEMMA OneElement ==
  ASSUME NEW S, NEW e \in S
  PROVE  <<e>> \in Seq(S) /\ ToSet(<<e>>) = {e} /\ IsInjective(<<e>>)
<1> DEFINE s == <<e>>
<1>1. s \in Seq(S) /\ Len(s) = 1 /\ s[1] = e /\ \A k : k \in 1..1 <=> k = 1
  OBVIOUS
<1> HIDE DEF s
<1>2. ToSet(s) = {e} /\ IsInjective(s)
  BY <1>1, Elements
<1> QED
  BY <1>1, <1>2 DEF s

(* One more at the end.                                                    *)
LEMMA AppendElements ==
  ASSUME NEW S, NEW s \in Seq(S), NEW e \in S
  PROVE  /\ Append(s, e) \in Seq(S)
         /\ ToSet(Append(s, e)) = ToSet(s) \cup {e}
         /\ IsInjective(Append(s, e)) <=> IsInjective(s) /\ e \notin ToSet(s)
<1>1. Append(s, e) = s \o <<e>>
  OBVIOUS
<1> DEFINE o == <<e>>
<1>2. o \in Seq(S) /\ ToSet(o) = {e} /\ IsInjective(o)
  BY OneElement
<1> HIDE DEF o
<1>3. /\ s \o o \in Seq(S) /\ ToSet(s \o o) = ToSet(s) \cup {e}
      /\ IsInjective(s \o o) <=> IsInjective(s) /\ e \notin ToSet(s)
  BY <1>2, ConcatElements
<1> QED
  BY <1>1, <1>3 DEF o

(* One more in front.                                                      *)
LEMMA PrependElements ==
  ASSUME NEW S, NEW s \in Seq(S), NEW e \in S
  PROVE  /\ <<e>> \o s \in Seq(S) /\ Len(<<e>> \o s) = Len(s) + 1
         /\ ToSet(<<e>> \o s) = {e} \cup ToSet(s)
         /\ IsInjective(<<e>> \o s) <=> IsInjective(s) /\ e \notin ToSet(s)
<1> DEFINE o == <<e>>
<1>1. o \in Seq(S) /\ ToSet(o) = {e} /\ IsInjective(o)
  BY OneElement
<1>4. Len(o) = 1
  OBVIOUS
<1> HIDE DEF o
<1>2. /\ o \o s \in Seq(S) /\ ToSet(o \o s) = {e} \cup ToSet(s)
      /\ IsInjective(o \o s) <=> IsInjective(s) /\ e \notin ToSet(s)
  BY <1>1, ConcatElements
<1>3. Len(o \o s) = Len(o) + Len(s) /\ Len(s) \in Nat
  BY <1>1
<1> QED
  BY <1>4, <1>2, <1>3 DEF o

(* The first one goes.                                                     *)
LEMMA TailElements ==
  ASSUME NEW S, NEW s \in Seq(S), s # <<>>
  PROVE  /\ Head(s) \in S /\ Tail(s) \in Seq(S)
         /\ ToSet(s) = {Head(s)} \cup ToSet(Tail(s))
         /\ IsInjective(s) <=>
              IsInjective(Tail(s)) /\ Head(s) \notin ToSet(Tail(s))
<1>1. Head(s) \in S /\ Tail(s) \in Seq(S) /\ s = <<Head(s)>> \o Tail(s)
  OBVIOUS
<1> QED
  BY <1>1, PrependElements

(* Cut in two: what comes before position k, and the rest.                 *)
LEMMA CutInTwo ==
  ASSUME NEW S, NEW s \in Seq(S), NEW k \in 1..(Len(s) + 1)
  PROVE  LET L == SubSeq(s, 1, k - 1)
             R == SubSeq(s, k, Len(s))
         IN  /\ L \in Seq(S) /\ Len(L) = k - 1 /\ \A j \in 1..(k - 1) : L[j] = s[j]
             /\ R \in Seq(S) /\ Len(R) = Len(s) - (k - 1)
             /\ \A j \in 1..(Len(s) - (k - 1)) : R[j] = s[(k - 1) + j]
             /\ s = L \o R
<1> DEFINE L == SubSeq(s, 1, k - 1)
           R == SubSeq(s, k, Len(s))
           c == L \o R
<1>1. L \in Seq(S) /\ Len(L) = k - 1 /\ \A j \in 1..(k - 1) : L[j] = s[j]
  OBVIOUS
<1>2. /\ R \in Seq(S) /\ Len(R) = Len(s) - (k - 1)
      /\ \A j \in 1..(Len(s) - (k - 1)) : R[j] = s[(k - 1) + j]
  OBVIOUS
<1> HIDE DEF L, R
<1>3. /\ c \in Seq(S) /\ Len(c) = Len(s)
      /\ \A j \in 1..Len(s) : c[j] = IF j <= k - 1 THEN L[j] ELSE R[j - (k - 1)]
  BY <1>1, <1>2
<1> HIDE DEF c
<1>4. ASSUME NEW j \in 1..Len(s) PROVE c[j] = s[j]
  <2>1. CASE j <= k - 1
    BY <2>1, <1>1, <1>3
  <2>2. CASE j > k - 1
    <3>1. j - (k - 1) \in 1..(Len(s) - (k - 1)) /\ (k - 1) + (j - (k - 1)) = j
      BY <2>2
    <3>2. R[j - (k - 1)] = s[(k - 1) + (j - (k - 1))]
      BY <3>1, <1>2, Zenon
    <3>3. ~(j <= k - 1)
      BY <2>2
    <3>4. c[j] = R[j - (k - 1)]
      BY <3>3, <1>3, Zenon
    <3> QED
      BY <3>1, <3>2, <3>4, Zenon
  <2> QED
    BY <2>1, <2>2
<1>5. s = c
  BY <1>3, <1>4
<1> QED
  BY <1>1, <1>2, <1>5 DEF L, R, c

(* One more at position k.                                                 *)
LEMMA InsertElements ==
  ASSUME NEW S, NEW s \in Seq(S), NEW e \in S, NEW k \in 1..(Len(s) + 1),
         NEW a, a = InsertAt(s, k, e)
  PROVE  /\ a \in Seq(S) /\ Len(a) = Len(s) + 1
         /\ \A j \in 1..(Len(s) + 1) :
              a[j] = IF j < k THEN s[j] ELSE IF j = k THEN e ELSE s[j - 1]
         /\ ToSet(a) = ToSet(s) \cup {e}
         /\ IsInjective(a) <=> IsInjective(s) /\ e \notin ToSet(s)
<1> DEFINE L == SubSeq(s, 1, k - 1)
           R == SubSeq(s, k, Len(s))
           o == <<e>>
           m == Len(s)
<1>1. /\ L \in Seq(S) /\ Len(L) = k - 1 /\ \A j \in 1..(k - 1) : L[j] = s[j]
      /\ R \in Seq(S) /\ Len(R) = m - (k - 1)
      /\ \A j \in 1..(m - (k - 1)) : R[j] = s[(k - 1) + j]
      /\ s = L \o R
  BY CutInTwo
<1>2. o \in Seq(S) /\ ToSet(o) = {e} /\ IsInjective(o) /\ Len(o) = 1 /\ o[1] = e
  BY OneElement
<1>3. InsertAt(s, k, e) = L \o o \o R
  BY Zenon DEF InsertAt
<1>4. m \in Nat /\ k \in 1..(m + 1)
  OBVIOUS
<1> HIDE DEF L, R, o, m
<1>5. /\ L \o o \in Seq(S) /\ Len(L \o o) = k
      /\ \A j \in 1..k : (L \o o)[j] = IF j < k THEN L[j] ELSE e
  <2>1. /\ L \o o \in Seq(S) /\ Len(L \o o) = Len(L) + 1
        /\ \A j \in 1..(Len(L) + 1) :
             (L \o o)[j] = IF j <= Len(L) THEN L[j] ELSE o[j - Len(L)]
    <3>1. /\ L \o o \in Seq(S) /\ Len(L \o o) = Len(L) + Len(o)
          /\ \A j \in 1..(Len(L) + Len(o)) :
               (L \o o)[j] = IF j <= Len(L) THEN L[j] ELSE o[j - Len(L)]
      <4>1. L \in Seq(S) /\ o \in Seq(S)
        BY <1>1, <1>2
      <4> QED
        BY <4>1, ConcatPositions
    <3> QED
      BY <3>1, <1>2, Zenon
  <2>2. Len(L) + 1 = k /\ \A j \in 1..k : ~(j <= Len(L)) => j - Len(L) = 1 /\ ~(j < k)
    BY <1>1, <1>4
  <2>3. \A j \in 1..k : j <= Len(L) <=> j < k
    BY <1>1, <1>4
  <2> QED
    BY <2>1, <2>2, <2>3, <1>2
<1> DEFINE c == L \o o
<1> HIDE DEF c
<1>6. /\ L \o o \o R \in Seq(S) /\ Len(L \o o \o R) = m + 1
      /\ \A j \in 1..(m + 1) :
           (L \o o \o R)[j] = IF j <= k THEN (L \o o)[j] ELSE R[j - k]
  <2>1. /\ c \o R \in Seq(S) /\ Len(c \o R) = Len(c) + Len(R)
        /\ \A j \in 1..(Len(c) + Len(R)) :
             (c \o R)[j] = IF j <= Len(c) THEN c[j] ELSE R[j - Len(c)]
    BY <1>1, <1>5, ConcatPositions DEF c
  <2>2. Len(c) = k /\ Len(c) + Len(R) = m + 1
    BY <1>1, <1>4, <1>5 DEF c
  <2> QED
    BY <2>1, <2>2 DEF c
<1>7. \A j \in 1..(m + 1) :
        (L \o o \o R)[j] = IF j < k THEN s[j] ELSE IF j = k THEN e ELSE s[j - 1]
  <2> SUFFICES ASSUME NEW j \in 1..(m + 1)
               PROVE  (L \o o \o R)[j] =
                        IF j < k THEN s[j] ELSE IF j = k THEN e ELSE s[j - 1]
    OBVIOUS
  <2>1. CASE j < k
    BY <2>1, <1>1, <1>4, <1>5, <1>6
  <2>2. CASE j = k
    BY <2>2, <1>4, <1>5, <1>6
  <2>3. CASE j > k
    <3>1. j - k \in 1..(m - (k - 1)) /\ (k - 1) + (j - k) = j - 1
      BY <2>3, <1>4
    <3>2. ~(j <= k) /\ ~(j < k) /\ j # k
      BY <2>3, <1>4
    <3>3. (L \o o \o R)[j] = R[j - k]
      BY <3>2, <1>6, Zenon
    <3>4. R[j - k] = s[j - 1]
      BY <3>1, <1>1, Zenon
    <3> QED
      BY <3>2, <3>3, <3>4, Zenon
  <2>4. j < k \/ j = k \/ j > k
    BY <1>4
  <2> QED
    BY <2>1, <2>2, <2>3, <2>4, Zenon
<1>8. /\ ToSet(s) = ToSet(L) \cup ToSet(R)
      /\ IsInjective(s) <=>
           IsInjective(L) /\ IsInjective(R) /\ ToSet(L) \cap ToSet(R) = {}
  BY <1>1, ConcatElements
<1>9. /\ ToSet(L \o o) = ToSet(L) \cup {e}
      /\ IsInjective(L \o o) <=> IsInjective(L) /\ e \notin ToSet(L)
  BY <1>1, <1>2, ConcatElements
<1>10. /\ ToSet(L \o o \o R) = ToSet(L \o o) \cup ToSet(R)
       /\ IsInjective(L \o o \o R) <=>
            /\ IsInjective(L \o o) /\ IsInjective(R)
            /\ ToSet(L \o o) \cap ToSet(R) = {}
  <2>1. c \in Seq(S)
    BY <1>5 DEF c
  <2>2. /\ ToSet(c \o R) = ToSet(c) \cup ToSet(R)
        /\ IsInjective(c \o R) <=>
             IsInjective(c) /\ IsInjective(R) /\ ToSet(c) \cap ToSet(R) = {}
    BY <2>1, <1>1, ConcatElements
  <2> QED
    BY <2>2 DEF c
<1> DEFINE b == L \o o \o R
<1>11. /\ b \in Seq(S) /\ Len(b) = m + 1
       /\ \A j \in 1..(m + 1) :
            b[j] = IF j < k THEN s[j] ELSE IF j = k THEN e ELSE s[j - 1]
       /\ ToSet(b) = ToSet(s) \cup {e}
       /\ IsInjective(b) <=> IsInjective(s) /\ e \notin ToSet(s)
  BY <1>6, <1>7, <1>8, <1>9, <1>10
<1>12. a = b
  BY <1>3
<1> HIDE DEF b
<1> QED
  BY <1>11, <1>12 DEF m

(* The one at position k goes.                                             *)
LEMMA RemoveElements ==
  ASSUME NEW S, NEW s \in Seq(S), NEW k \in 1..Len(s), NEW a, a = RemoveAt(s, k)
  PROVE  /\ a \in Seq(S) /\ s[k] \in S /\ Len(a) = Len(s) - 1
         /\ \A j \in 1..(Len(s) - 1) : a[j] = IF j < k THEN s[j] ELSE s[j + 1]
         /\ ToSet(s) = ToSet(a) \cup {s[k]}
         /\ IsInjective(s) <=> IsInjective(a) /\ s[k] \notin ToSet(a)
<1> DEFINE L == SubSeq(s, 1, k - 1)
           R == SubSeq(s, k + 1, Len(s))
           r == L \o R
           m == Len(s)
<1>1. /\ L \in Seq(S) /\ Len(L) = k - 1 /\ \A j \in 1..(k - 1) : L[j] = s[j]
  BY CutInTwo
<1>2. /\ R \in Seq(S) /\ Len(R) = m - k
      /\ \A j \in 1..(m - k) : R[j] = s[k + j]
  <2>1. k + 1 \in 1..(Len(s) + 1) /\ (k + 1) - 1 = k
    OBVIOUS
  <2>2. /\ R \in Seq(S) /\ Len(R) = Len(s) - ((k + 1) - 1)
        /\ \A j \in 1..(Len(s) - ((k + 1) - 1)) : R[j] = s[((k + 1) - 1) + j]
    BY <2>1, CutInTwo
  <2> QED
    BY <2>1, <2>2, Zenon
<1>3. a = r
  BY Zenon DEF RemoveAt
<1>4. m \in Nat /\ k \in 1..m /\ s[k] \in S
  OBVIOUS
<1> HIDE DEF L, R, m
<1>5. /\ r \in Seq(S) /\ Len(r) = m - 1
      /\ \A j \in 1..(m - 1) : r[j] = IF j < k THEN L[j] ELSE R[j - (k - 1)]
  BY <1>1, <1>2, <1>4
<1> HIDE DEF r
<1>6. \A j \in 1..(m - 1) : r[j] = IF j < k THEN s[j] ELSE s[j + 1]
  <2> SUFFICES ASSUME NEW j \in 1..(m - 1)
               PROVE  r[j] = IF j < k THEN s[j] ELSE s[j + 1]
    OBVIOUS
  <2>1. CASE j < k
    <3>1. j \in 1..(k - 1)
      BY <2>1, <1>4
    <3> QED
      BY <2>1, <3>1, <1>1, <1>5, Zenon
  <2>2. CASE j >= k
    <3>1. j - (k - 1) \in 1..(m - k) /\ k + (j - (k - 1)) = j + 1
      BY <2>2, <1>4
    <3> QED
      BY <2>2, <3>1, <1>2, <1>4, <1>5
  <2> QED
    BY <2>1, <2>2, <1>4
<1>i. \A q \in Seq(S), x \in S : \A i \in 1..(Len(q) + 1) :
        /\ InsertAt(q, i, x) \in Seq(S)
        /\ Len(InsertAt(q, i, x)) = Len(q) + 1
        /\ \A j \in 1..(Len(q) + 1) :
             InsertAt(q, i, x)[j] =
               IF j < i THEN q[j] ELSE IF j = i THEN x ELSE q[j - 1]
        /\ ToSet(InsertAt(q, i, x)) = ToSet(q) \cup {x}
        /\ IsInjective(InsertAt(q, i, x)) <=> IsInjective(q) /\ x \notin ToSet(q)
  BY InsertElements
<1>7. s = InsertAt(r, k, s[k])
  <2>1. k \in 1..(Len(r) + 1)
    BY <1>4, <1>5
  <2>2. /\ InsertAt(r, k, s[k]) \in Seq(S)
        /\ Len(InsertAt(r, k, s[k])) = m
        /\ \A j \in 1..m : InsertAt(r, k, s[k])[j] =
                              IF j < k THEN r[j] ELSE IF j = k THEN s[k] ELSE r[j - 1]
    <3>1. Len(r) + 1 = m /\ r \in Seq(S)
      BY <1>4, <1>5
    <3>2. ASSUME NEW x \in S
          PROVE  /\ InsertAt(r, k, x) \in Seq(S)
                 /\ Len(InsertAt(r, k, x)) = Len(r) + 1
                 /\ \A j \in 1..(Len(r) + 1) :
                      InsertAt(r, k, x)[j] =
                        IF j < k THEN r[j] ELSE IF j = k THEN x ELSE r[j - 1]
      BY <2>1, <3>1, <1>i
    <3> QED
      BY <3>1, <3>2, <1>4, Zenon
  <2>3. ASSUME NEW j \in 1..m
        PROVE  s[j] = IF j < k THEN r[j] ELSE IF j = k THEN s[k] ELSE r[j - 1]
    <3>1. CASE j < k
      BY <3>1, <1>4, <1>6
    <3>2. CASE j > k
      <4>1. j - 1 \in 1..(m - 1) /\ ~(j - 1 < k) /\ (j - 1) + 1 = j
        BY <3>2, <1>4
      <4> QED
        BY <3>2, <4>1, <1>4, <1>6
    <3> QED
      BY <3>1, <3>2, <1>4
  <2> HIDE <1>1
  <2>4. \A j \in 1..m : s[j] = InsertAt(r, k, s[k])[j]
    BY <2>2, <2>3
  <2> QED
    BY <2>2, <2>4 DEF m
<1>8. /\ ToSet(InsertAt(r, k, s[k])) = ToSet(r) \cup {s[k]}
      /\ IsInjective(InsertAt(r, k, s[k])) <=> IsInjective(r) /\ s[k] \notin ToSet(r)
  <2>1. k \in 1..(Len(r) + 1)
    BY <1>4, <1>5
  <2>2. ASSUME NEW x \in S
        PROVE  /\ ToSet(InsertAt(r, k, x)) = ToSet(r) \cup {x}
               /\ IsInjective(InsertAt(r, k, x)) <=> IsInjective(r) /\ x \notin ToSet(r)
    BY <2>1, <1>5, <1>i, Zenon
  <2> QED
    BY <2>2, <1>4, Zenon
<1> QED
  BY <1>3, <1>4, <1>5, <1>6, <1>7, <1>8 DEF m

-----------------------------------------------------------------------------
(* Queues of records, by their events.                                     *)

Events(s) == [k \in DOMAIN s |-> s[k].event]

(* The events of a queue, by their positions.                              *)
LEMMA EventsPositions ==
  ASSUME NEW S, NEW s \in Seq(S)
  PROVE  /\ Len(Events(s)) = Len(s)
         /\ \A k \in 1..Len(s) : Events(s)[k] = s[k].event
         /\ ToSet(Events(s)) = {n.event : n \in ToSet(s)}
         /\ IsInjective(Events(s)) <=>
              \A j, k \in 1..Len(s) : s[j].event = s[k].event => j = k
<1>1. /\ Len(s) \in Nat /\ DOMAIN s = 1..Len(s)
      /\ \A x : x \in ToSet(s) <=> \E k \in 1..Len(s) : s[k] = x
  BY Elements
<1>2. DOMAIN Events(s) = 1..Len(s) /\ \A k \in 1..Len(s) : Events(s)[k] = s[k].event
  BY <1>1 DEF Events
<1>3. Len(Events(s)) = Len(s)
  BY <1>1 DEF Events
<1>4. \A x : x \in ToSet(Events(s)) <=> \E k \in 1..Len(s) : Events(s)[k] = x
  BY <1>2, Zenon DEF ToSet
<1>5. ToSet(Events(s)) = {n.event : n \in ToSet(s)}
  BY <1>1, <1>2, <1>4
<1>6. IsInjective(Events(s)) <=>
        \A j, k \in 1..Len(s) : s[j].event = s[k].event => j = k
  BY <1>2 DEF IsInjective
<1> QED
  BY <1>2, <1>3, <1>5, <1>6

(* The events of a queue are a queue of events.                            *)
LEMMA EventsType ==
  ASSUME NEW S, NEW E, NEW s \in Seq(S), \A n \in S : n.event \in E
  PROVE  Events(s) \in Seq(E)
<1>1. Events(s) \in [1..Len(s) -> E]
  BY Elements DEF Events
<1> QED
  BY <1>1

(* Two queues of the same length with the same events at each position.    *)
LEMMA SameEvents ==
  ASSUME NEW E, NEW s \in Seq(E), NEW t \in Seq(E), Len(s) = Len(t),
         \A k \in 1..Len(s) : s[k] = t[k]
  PROVE  s = t
OBVIOUS

(* The events of one more at the end.                                      *)
LEMMA EventsAppend ==
  ASSUME NEW S, NEW s \in Seq(S), NEW n \in S
  PROVE  /\ Append(s, n) \in Seq(S)
         /\ Events(Append(s, n)) = Append(Events(s), n.event)
<1> DEFINE E == {x.event : x \in S}
           a == Append(s, n)
           b == Append(Events(s), n.event)
<1>x. \A x \in S : x.event \in E
  OBVIOUS
<1> HIDE DEF E
<1>1. /\ a \in Seq(S) /\ Len(a) = Len(s) + 1 /\ Len(s) \in Nat
      /\ \A k \in 1..(Len(s) + 1) : a[k] = IF k <= Len(s) THEN s[k] ELSE n
  OBVIOUS
<1>2. /\ Events(s) \in Seq(E) /\ Len(Events(s)) = Len(s) /\ n.event \in E
      /\ \A k \in 1..Len(s) : Events(s)[k] = s[k].event
  BY <1>x, EventsPositions, EventsType
<1>3. /\ b \in Seq(E) /\ Len(b) = Len(s) + 1
      /\ \A k \in 1..(Len(s) + 1) : b[k] = IF k <= Len(s) THEN Events(s)[k] ELSE n.event
  BY <1>2
<1> HIDE DEF a, b
<1>4. /\ Events(a) \in Seq(E) /\ Len(Events(a)) = Len(a)
      /\ \A k \in 1..Len(a) : Events(a)[k] = a[k].event
  BY <1>x, <1>1, EventsPositions, EventsType
<1>5. \A k \in 1..(Len(s) + 1) : Events(a)[k] = b[k]
  BY <1>1, <1>2, <1>3, <1>4
<1>6. Events(a) = b
  BY <1>1, <1>3, <1>4, <1>5, SameEvents
<1> QED
  BY <1>1, <1>6 DEF a, b

(* The events of one after the other.                                      *)
LEMMA EventsConcat ==
  ASSUME NEW S, NEW s \in Seq(S), NEW t \in Seq(S)
  PROVE  s \o t \in Seq(S) /\ Events(s \o t) = Events(s) \o Events(t)
<1> DEFINE E == {x.event : x \in S}
           a == s \o t
           b == Events(s) \o Events(t)
           m == Len(s) + Len(t)
<1>x. \A x \in S : x.event \in E
  OBVIOUS
<1> HIDE DEF E
<1>e. ASSUME NEW q \in Seq(S)
      PROVE  /\ Events(q) \in Seq(E) /\ Len(Events(q)) = Len(q)
             /\ \A k \in 1..Len(q) : Events(q)[k] = q[k].event
  BY <1>x, EventsPositions, EventsType
<1>1. /\ a \in Seq(S) /\ Len(a) = m
      /\ \A k \in 1..m : a[k] = IF k <= Len(s) THEN s[k] ELSE t[k - Len(s)]
  BY ConcatPositions
<1>2. /\ Events(s) \in Seq(E) /\ Len(Events(s)) = Len(s)
      /\ \A k \in 1..Len(s) : Events(s)[k] = s[k].event
      /\ Events(t) \in Seq(E) /\ Len(Events(t)) = Len(t)
      /\ \A k \in 1..Len(t) : Events(t)[k] = t[k].event
  BY <1>e
<1>3. /\ b \in Seq(E) /\ Len(b) = m
      /\ \A k \in 1..m :
           b[k] = IF k <= Len(s) THEN Events(s)[k] ELSE Events(t)[k - Len(s)]
  <2>1. \A p, q \in Seq(E) :
          /\ p \o q \in Seq(E) /\ Len(p \o q) = Len(p) + Len(q)
          /\ \A j \in 1..(Len(p) + Len(q)) :
               (p \o q)[j] = IF j <= Len(p) THEN p[j] ELSE q[j - Len(p)]
    BY ConcatPositions
  <2> DEFINE p == Events(s)
             q == Events(t)
  <2>2. p \in Seq(E) /\ q \in Seq(E) /\ Len(p) = Len(s) /\ Len(q) = Len(t)
    BY <1>2
  <2> HIDE DEF p, q
  <2>3. /\ p \o q \in Seq(E) /\ Len(p \o q) = Len(p) + Len(q)
        /\ \A j \in 1..(Len(p) + Len(q)) :
             (p \o q)[j] = IF j <= Len(p) THEN p[j] ELSE q[j - Len(p)]
    BY <2>1, <2>2
  <2> QED
    BY <2>2, <2>3 DEF p, q
<1>4. \A k \in 1..m : k \in 1..Len(s) \/ (~(k <= Len(s)) /\ k - Len(s) \in 1..Len(t))
  OBVIOUS
<1> HIDE DEF a, b, m
<1>5. /\ Events(a) \in Seq(E) /\ Len(Events(a)) = Len(a)
      /\ \A k \in 1..Len(a) : Events(a)[k] = a[k].event
  BY <1>1, <1>e
<1>6. ASSUME NEW k \in 1..m PROVE Events(a)[k] = b[k]
  <2>1. Events(a)[k] = a[k].event
    BY <1>1, <1>5
  <2>2. CASE k \in 1..Len(s) /\ k <= Len(s)
    BY <2>1, <2>2, <1>1, <1>2, <1>3, Zenon
  <2>3. CASE ~(k <= Len(s)) /\ k - Len(s) \in 1..Len(t)
    BY <2>1, <2>3, <1>1, <1>2, <1>3, Zenon
  <2> QED
    BY <2>2, <2>3, <1>4
<1>7. Events(a) = b
  BY <1>1, <1>3, <1>5, <1>6, SameEvents
<1> QED
  BY <1>1, <1>7 DEF a, b

(* The events when the first one goes.                                     *)
LEMMA EventsTail ==
  ASSUME NEW S, NEW s \in Seq(S), s # <<>>
  PROVE  /\ Head(s) \in S /\ Tail(s) \in Seq(S)
         /\ Events(s) # <<>> /\ Head(Events(s)) = Head(s).event
         /\ Events(Tail(s)) = Tail(Events(s))
<1> DEFINE E == {x.event : x \in S}
           a == Tail(s)
           b == Tail(Events(s))
<1>x. \A x \in S : x.event \in E
  OBVIOUS
<1> HIDE DEF E
<1>e. ASSUME NEW q \in Seq(S)
      PROVE  /\ Events(q) \in Seq(E) /\ Len(Events(q)) = Len(q)
             /\ \A k \in 1..Len(q) : Events(q)[k] = q[k].event
  BY <1>x, EventsPositions, EventsType
<1>1. /\ Head(s) \in S /\ Head(s) = s[1] /\ Len(s) \in Nat \ {0}
      /\ a \in Seq(S) /\ Len(a) = Len(s) - 1
      /\ \A k \in 1..(Len(s) - 1) : a[k] = s[k + 1] /\ k + 1 \in 1..Len(s)
  OBVIOUS
<1>2. /\ Events(s) \in Seq(E) /\ Len(Events(s)) = Len(s)
      /\ \A k \in 1..Len(s) : Events(s)[k] = s[k].event
      /\ Events(s) # <<>>
  <2>1. Len(Events(s)) # 0
    BY <1>1, <1>e
  <2> QED
    BY <1>e, <2>1
<1>3. /\ b \in Seq(E) /\ Len(b) = Len(s) - 1 /\ Head(Events(s)) = Events(s)[1]
      /\ \A k \in 1..(Len(s) - 1) : b[k] = Events(s)[k + 1]
  BY <1>1, <1>2
<1> HIDE DEF a, b
<1>4. /\ Events(a) \in Seq(E) /\ Len(Events(a)) = Len(a)
      /\ \A k \in 1..Len(a) : Events(a)[k] = a[k].event
  BY <1>1, <1>e
<1>5. \A k \in 1..(Len(s) - 1) : Events(a)[k] = b[k]
  BY <1>1, <1>2, <1>3, <1>4
<1>6. Events(a) = b
  BY <1>1, <1>3, <1>4, <1>5, SameEvents
<1>7. 1 \in 1..Len(s)
  BY <1>1
<1> QED
  BY <1>1, <1>2, <1>3, <1>6, <1>7 DEF a, b

(* The events when one is inserted.                                        *)
LEMMA EventsInsert ==
  ASSUME NEW S, NEW s \in Seq(S), NEW n \in S, NEW k \in 1..(Len(s) + 1)
  PROVE  Events(InsertAt(s, k, n)) = InsertAt(Events(s), k, n.event)
<1> DEFINE E == {x.event : x \in S}
           a == InsertAt(s, k, n)
           d == Events(s)
           b == InsertAt(d, k, n.event)
           m == Len(s) + 1
<1>x. \A x \in S : x.event \in E
  OBVIOUS
<1> HIDE DEF E
<1>1. /\ a \in Seq(S) /\ Len(a) = m /\ m \in Nat /\ k \in 1..m
      /\ \A j \in 1..m : a[j] = IF j < k THEN s[j] ELSE IF j = k THEN n ELSE s[j - 1]
  BY InsertElements
<1>2. /\ d \in Seq(E) /\ Len(d) = Len(s) /\ n.event \in E
      /\ \A j \in 1..Len(s) : d[j] = s[j].event
  BY <1>x, EventsPositions, EventsType
<1> HIDE DEF d
<1>3. /\ b \in Seq(E) /\ Len(b) = Len(d) + 1
      /\ \A j \in 1..(Len(d) + 1) :
           b[j] = IF j < k THEN d[j] ELSE IF j = k THEN n.event ELSE d[j - 1]
  <2>1. k \in 1..(Len(d) + 1)
    BY <1>1, <1>2
  <2>2. ASSUME NEW e \in E
        PROVE  /\ InsertAt(d, k, e) \in Seq(E) /\ Len(InsertAt(d, k, e)) = Len(d) + 1
               /\ \A j \in 1..(Len(d) + 1) :
                    InsertAt(d, k, e)[j] =
                      IF j < k THEN d[j] ELSE IF j = k THEN e ELSE d[j - 1]
    BY <2>1, <1>2, InsertElements
  <2> QED
    BY <2>2, <1>2
<1>4. \A j \in 1..m : /\ j < k => j \in 1..Len(s)
                      /\ ~(j < k) /\ j # k => j - 1 \in 1..Len(s)
  BY <1>1
<1> HIDE DEF a, b
<1>5. /\ Events(a) \in Seq(E) /\ Len(Events(a)) = Len(a)
      /\ \A j \in 1..Len(a) : Events(a)[j] = a[j].event
  BY <1>x, <1>1, EventsPositions, EventsType
<1>6. Len(b) = m /\ Len(Events(a)) = m
  BY <1>1, <1>2, <1>3, <1>5
<1> HIDE DEF m
<1>7. ASSUME NEW j \in 1..m PROVE Events(a)[j] = b[j]
  <2>1. /\ Events(a)[j] = a[j].event
        /\ a[j] = IF j < k THEN s[j] ELSE IF j = k THEN n ELSE s[j - 1]
        /\ b[j] = IF j < k THEN d[j] ELSE IF j = k THEN n.event ELSE d[j - 1]
    <3>1. Len(d) + 1 = m
      BY <1>2 DEF m
    <3> QED
      BY <3>1, <1>1, <1>3, <1>5, Zenon
  <2> QED
    BY <2>1, <1>2, <1>4, Zenon
<1>8. Events(a) = b
  BY <1>3, <1>5, <1>6, <1>7, SameEvents
<1> QED
  BY <1>8 DEF a, b, d

(* The events when one is removed.                                         *)
LEMMA EventsRemove ==
  ASSUME NEW S, NEW s \in Seq(S), NEW k \in 1..Len(s)
  PROVE  Events(RemoveAt(s, k)) = RemoveAt(Events(s), k)
<1> DEFINE E == {x.event : x \in S}
           a == RemoveAt(s, k)
           d == Events(s)
           b == RemoveAt(d, k)
           m == Len(s) - 1
<1>x. \A x \in S : x.event \in E
  OBVIOUS
<1> HIDE DEF E
<1>1. /\ a \in Seq(S) /\ Len(a) = m /\ m \in Nat
      /\ \A j \in 1..m : a[j] = IF j < k THEN s[j] ELSE s[j + 1]
  BY RemoveElements
<1>2. /\ d \in Seq(E) /\ Len(d) = Len(s)
      /\ \A j \in 1..Len(s) : d[j] = s[j].event
  BY <1>x, EventsPositions, EventsType
<1>3. \A j \in 1..m : j \in 1..Len(s) /\ j + 1 \in 1..Len(s)
  OBVIOUS
<1> HIDE DEF d
<1>4. /\ b \in Seq(E) /\ Len(b) = Len(d) - 1
      /\ \A j \in 1..(Len(d) - 1) : b[j] = IF j < k THEN d[j] ELSE d[j + 1]
  BY <1>2, RemoveElements
<1>5. Len(d) - 1 = m
  BY <1>2
<1> HIDE DEF a, b, m
<1>6. /\ Events(a) \in Seq(E) /\ Len(Events(a)) = Len(a)
      /\ \A j \in 1..Len(a) : Events(a)[j] = a[j].event
  BY <1>x, <1>1, EventsPositions, EventsType
<1>7. ASSUME NEW j \in 1..m PROVE Events(a)[j] = b[j]
  <2>1. /\ Events(a)[j] = a[j].event
        /\ a[j] = IF j < k THEN s[j] ELSE s[j + 1]
        /\ b[j] = IF j < k THEN d[j] ELSE d[j + 1]
    BY <1>1, <1>4, <1>5, <1>6, Zenon
  <2> QED
    BY <2>1, <1>2, <1>3, Zenon
<1>8. Events(a) = b
  BY <1>1, <1>4, <1>5, <1>6, <1>7, SameEvents
<1> QED
  BY <1>8 DEF a, b, d

-----------------------------------------------------------------------------
(* Queues sorted by priority.                                              *)

SortedByPriority(s) ==
  \A j, k \in 1..Len(s) : j <= k => s[j].priority <= s[k].priority

(* s with n before the first one that n precedes.                          *)
Placed(s, n) ==
  LET T == {k \in 1..Len(s) : n.priority < s[k].priority}
  IN  IF T = {} THEN Append(s, n) ELSE InsertAt(s, Min(T), n)

(* A newcomer is put somewhere, and the queue stays sorted.                *)
LEMMA PlacedSorted ==
  ASSUME NEW S, NEW s \in Seq(S), NEW n \in S,
         \A x \in S : x.priority \in Int
  PROVE  /\ \/ Placed(s, n) = Append(s, n)
            \/ \E k \in 1..Len(s) : Placed(s, n) = InsertAt(s, k, n)
         /\ SortedByPriority(s) => SortedByPriority(Placed(s, n))
<1> DEFINE T == {k \in 1..Len(s) : n.priority < s[k].priority}
           m == Min(T)
<1>1. \A j \in 1..Len(s) : s[j] \in S /\ s[j].priority \in Int
  BY Elements
<1>2. n.priority \in Int /\ Len(s) \in Nat
  OBVIOUS
<1>3. CASE T = {}
  <2>1. Placed(s, n) = Append(s, n)
    BY <1>3 DEF Placed
  <2>2. ASSUME SortedByPriority(s) PROVE SortedByPriority(Append(s, n))
    <3> DEFINE a == Append(s, n)
    <3>1. /\ Len(a) = Len(s) + 1
          /\ \A k \in 1..(Len(s) + 1) : a[k] = IF k <= Len(s) THEN s[k] ELSE n
      OBVIOUS
    <3> HIDE DEF a
    <3>2. \A j \in 1..Len(s) : s[j].priority <= n.priority
      BY <1>1, <1>2, <1>3
    <3>3. ASSUME NEW j \in 1..(Len(s) + 1), NEW k \in 1..(Len(s) + 1), j <= k
          PROVE  a[j].priority <= a[k].priority
      <4>1. CASE k <= Len(s)
        <5>1. j \in 1..Len(s) /\ k \in 1..Len(s) /\ j <= Len(s)
          BY <3>3, <4>1
        <5> QED
          BY <5>1, <4>1, <3>1, <3>3, <2>2 DEF SortedByPriority
      <4>2. CASE ~(k <= Len(s)) /\ j <= Len(s)
        <5>1. j \in 1..Len(s)
          BY <4>2
        <5> QED
          BY <5>1, <4>2, <3>1, <3>2
      <4>3. CASE ~(k <= Len(s)) /\ ~(j <= Len(s))
        <5>1. a[j] = n /\ a[k] = n
          BY <4>3, <3>1
        <5> QED
          BY <5>1, <1>2
      <4> QED
        BY <4>1, <4>2, <4>3
    <3> QED
      BY <3>1, <3>3 DEF SortedByPriority, a
  <2> QED
    BY <2>1, <2>2
<1>4. CASE T # {}
  <2>1. Placed(s, n) = InsertAt(s, m, n)
    BY <1>4 DEF Placed
  <2>2. m \in T /\ \A k \in T : m <= k
    <3>1. T \subseteq Nat
      OBVIOUS
    <3> HIDE DEF T
    <3> QED
      BY <1>4, <3>1, MinLeast
  <2> HIDE DEF m
  <2>3. /\ m \in 1..Len(s) /\ n.priority < s[m].priority
        /\ \A k \in 1..Len(s) : k < m => s[k].priority <= n.priority
    BY <2>2, <1>1, <1>2
  <2> DEFINE a == InsertAt(s, m, n)
  <2>4. /\ Len(a) = Len(s) + 1
        /\ \A j \in 1..(Len(s) + 1) :
             a[j] = IF j < m THEN s[j] ELSE IF j = m THEN n ELSE s[j - 1]
    <3>1. m \in 1..(Len(s) + 1)
      BY <2>3
    <3> QED
      BY <3>1, InsertElements
  <2> HIDE DEF a
  <2>5. ASSUME SortedByPriority(s),
               NEW j \in 1..(Len(s) + 1), NEW k \in 1..(Len(s) + 1), j <= k
        PROVE  a[j].priority <= a[k].priority
    <3>s. \A i, l \in 1..Len(s) : i <= l => s[i].priority <= s[l].priority
      BY <2>5 DEF SortedByPriority
    <3>1. CASE k < m
      <4>1. j \in 1..Len(s) /\ k \in 1..Len(s) /\ j < m
        BY <3>1, <2>3, <2>5
      <4> QED
        BY <4>1, <3>1, <3>s, <2>4, <2>5
    <3>2. CASE k = m
      <4>1. a[k] = n
        BY <3>2, <2>4
      <4>2. CASE j < m
        <5>1. j \in 1..Len(s) /\ a[j] = s[j]
          BY <4>2, <2>3, <2>4
        <5> QED
          BY <5>1, <4>1, <4>2, <2>3
      <4>3. CASE j = m
        BY <4>1, <4>3, <3>2, <1>2
      <4> QED
        BY <4>2, <4>3, <3>2, <2>3, <2>5
    <3>3. CASE k > m
      <4>1. k - 1 \in 1..Len(s) /\ a[k] = s[k - 1] /\ m <= k - 1
        BY <3>3, <2>3, <2>4
      <4>2. CASE j < m
        <5>1. j \in 1..Len(s) /\ a[j] = s[j] /\ j <= k - 1
          BY <4>1, <4>2, <2>3, <2>4
        <5> QED
          BY <5>1, <4>1, <3>s
      <4>3. CASE j = m
        <5>1. a[j] = n
          BY <4>3, <2>4
        <5>2. s[m].priority <= s[k - 1].priority
          BY <4>1, <2>3, <3>s
        <5> QED
          BY <5>1, <5>2, <4>1, <2>3, <1>1, <1>2
      <4>4. CASE j > m
        <5>1. j - 1 \in 1..Len(s) /\ a[j] = s[j - 1] /\ j - 1 <= k - 1
          BY <4>4, <2>3, <2>4, <2>5
        <5> QED
          BY <5>1, <4>1, <3>s
      <4> QED
        BY <4>2, <4>3, <4>4, <2>3
    <3> QED
      BY <3>1, <3>2, <3>3, <2>3
  <2>6. SortedByPriority(s) => SortedByPriority(a)
    BY <2>4, <2>5 DEF SortedByPriority
  <2> QED
    BY <2>1, <2>3, <2>6 DEF a
<1> QED
  BY <1>3, <1>4
(* The line without its head.                                              *)
LEMMA SortedTail ==
  ASSUME NEW S, NEW s \in Seq(S), s # <<>>, SortedByPriority(s)
  PROVE  /\ SortedByPriority(Tail(s))
         /\ \A w \in ToSet(Tail(s)) : Head(s).priority <= w.priority
<1> DEFINE t == Tail(s)
<1>1. /\ Len(s) \in Nat \ {0} /\ Head(s) = s[1] /\ t \in Seq(S) /\ Len(t) = Len(s) - 1
      /\ \A k \in 1..(Len(s) - 1) : t[k] = s[k + 1] /\ k + 1 \in 1..Len(s)
  OBVIOUS
<1>2. \A j, k \in 1..Len(s) : j <= k => s[j].priority <= s[k].priority
  BY DEF SortedByPriority
<1>3. \A w : w \in ToSet(t) <=> \E k \in 1..Len(t) : t[k] = w
  BY <1>1, Elements
<1> HIDE DEF t
<1>4. SortedByPriority(t)
  <2>1. ASSUME NEW j \in 1..Len(t), NEW k \in 1..Len(t), j <= k
        PROVE  t[j].priority <= t[k].priority
    <3>1. /\ j + 1 \in 1..Len(s) /\ k + 1 \in 1..Len(s) /\ j + 1 <= k + 1
          /\ t[j] = s[j + 1] /\ t[k] = s[k + 1]
      BY <1>1, <2>1
    <3> QED
      BY <1>2, <3>1
  <2> QED
    BY <2>1 DEF SortedByPriority
<1>5. ASSUME NEW w \in ToSet(t) PROVE Head(s).priority <= w.priority
  <2>1. PICK k \in 1..Len(t) : t[k] = w
    BY <1>3
  <2>2. 1 \in 1..Len(s) /\ k + 1 \in 1..Len(s) /\ 1 <= k + 1 /\ w = s[k + 1]
    BY <1>1, <2>1
  <2> QED
    BY <1>1, <1>2, <2>2
<1> QED
  BY <1>4, <1>5 DEF t

-----------------------------------------------------------------------------
(* The part of a queue sorted by priority that is of one priority.         *)

Before(s, p) == Cardinality({k \in DOMAIN s : s[k].priority < p})
UpTo(s, p) == Cardinality({k \in DOMAIN s : s[k].priority <= p})
Segment(s, p) == SubSeq(s, Before(s, p) + 1, UpTo(s, p))

(* b positions of s come before those of priority p, c with them.          *)
Bounds(s, p, b, c) ==
  /\ b \in 0..Len(s) /\ c \in 0..Len(s) /\ b <= c
  /\ \A k \in 1..Len(s) : /\ k <= b <=> s[k].priority < p
                          /\ k <= c <=> s[k].priority <= p

(* A set that holds, with a position, all those before it.                 *)
LEMMA InitialPositions ==
  ASSUME NEW n \in Nat, NEW T, T \subseteq 1..n,
         \A j \in T : \A k \in 1..n : k <= j => k \in T
  PROVE  /\ Cardinality(T) \in 0..n
         /\ \A j \in 1..n : j \in T <=> j <= Cardinality(T)
<1>1. IsFiniteSet(1..n) /\ Cardinality(1..n) = n
  BY FS_Interval
<1>2. IsFiniteSet(T) /\ Cardinality(T) \in Nat /\ Cardinality(T) <= n
  BY <1>1, FS_Subset, FS_CardinalityType
<1>3. ASSUME NEW j \in T PROVE j <= Cardinality(T)
  <2>1. j \in 1..n
    OBVIOUS
  <2>2. 1..j \subseteq T
    BY <2>1
  <2>3. j \in Nat /\ Cardinality(1..j) = j
    BY <2>1, FS_Interval
  <2> QED
    BY <1>2, <2>2, <2>3, FS_Subset
<1>4. ASSUME NEW j \in 1..n, j \notin T PROVE ~(j <= Cardinality(T))
  <2>1. T \subseteq 1..(j - 1)
    BY <1>4
  <2>2. j - 1 \in Nat
    OBVIOUS
  <2>3. IsFiniteSet(1..(j - 1)) /\ Cardinality(1..(j - 1)) = j - 1
    BY <2>2, FS_Interval
  <2> DEFINE J == 1..(j - 1)
  <2> HIDE DEF J
  <2>4. Cardinality(T) <= Cardinality(J)
    BY <2>1, <2>3, FS_Subset DEF J
  <2> QED
    BY <1>2, <2>2, <2>3, <2>4 DEF J
<1> QED
  BY <1>2, <1>3, <1>4

(* In a sorted queue they are two bounds, and a segment lies between.      *)
LEMMA SegmentBounds ==
  ASSUME NEW S, NEW s \in Seq(S), NEW p \in Int, SortedByPriority(s),
         \A x \in S : x.priority \in Int
  PROVE  Bounds(s, p, Before(s, p), UpTo(s, p))
<1> DEFINE B == {k \in 1..Len(s) : s[k].priority < p}
           C == {k \in 1..Len(s) : s[k].priority <= p}
<1>1. /\ DOMAIN s = 1..Len(s) /\ Len(s) \in Nat
      /\ \A k \in 1..Len(s) : s[k].priority \in Int
  BY Elements
<1>2. Before(s, p) = Cardinality(B) /\ UpTo(s, p) = Cardinality(C)
  BY <1>1 DEF Before, UpTo
<1>3. \A j, k \in 1..Len(s) : k <= j => s[k].priority <= s[j].priority
  BY DEF SortedByPriority
<1>4. /\ Cardinality(B) \in 0..Len(s)
      /\ \A j \in 1..Len(s) : j \in B <=> j <= Cardinality(B)
  <2>1. B \subseteq 1..Len(s) /\ \A j \in B : \A k \in 1..Len(s) : k <= j => k \in B
    BY <1>1, <1>3
  <2> HIDE DEF B
  <2> QED
    BY <1>1, <2>1, InitialPositions
<1>5. /\ Cardinality(C) \in 0..Len(s)
      /\ \A j \in 1..Len(s) : j \in C <=> j <= Cardinality(C)
  <2>1. C \subseteq 1..Len(s) /\ \A j \in C : \A k \in 1..Len(s) : k <= j => k \in C
    BY <1>1, <1>3
  <2> HIDE DEF C
  <2> QED
    BY <1>1, <2>1, InitialPositions
<1>6. \A k \in 1..Len(s) : /\ k \in B <=> s[k].priority < p
                           /\ k \in C <=> s[k].priority <= p
                           /\ k \in B => k \in C
  BY <1>1
<1> DEFINE b == Cardinality(B)
           c == Cardinality(C)
<1> HIDE DEF B, C, b, c
<1>7. /\ b \in 0..Len(s) /\ c \in 0..Len(s)
      /\ \A k \in 1..Len(s) : /\ k <= b <=> s[k].priority < p
                              /\ k <= c <=> s[k].priority <= p
  BY <1>4, <1>5, <1>6 DEF b, c
<1>8. b <= c
  <2>1. CASE b = 0
    BY <1>7, <2>1
  <2>2. CASE b # 0
    <3>1. b \in 1..Len(s)
      BY <1>1, <1>7, <2>2
    <3>2. b \in C
      BY <1>4, <1>6, <3>1 DEF b
    <3> QED
      BY <1>5, <3>1, <3>2 DEF c
  <2> QED
    BY <2>1, <2>2
<1> QED
  BY <1>2, <1>7, <1>8 DEF Bounds, b, c

LEMMA SegmentBetween ==
  ASSUME NEW S, NEW s \in Seq(S), NEW p \in Int, NEW b, NEW c, Bounds(s, p, b, c),
         \A x \in S : x.priority \in Int
  PROVE  /\ b = Before(s, p) /\ c = UpTo(s, p)
         /\ b \in Nat /\ c \in Nat /\ b <= c /\ c <= Len(s)
         /\ Segment(s, p) \in Seq(S) /\ Len(Segment(s, p)) = c - b
         /\ \A k \in 1..(c - b) : Segment(s, p)[k] = s[b + k] /\ b + k \in 1..Len(s)
<1>1. /\ DOMAIN s = 1..Len(s) /\ Len(s) \in Nat
      /\ \A k \in 1..Len(s) : s[k] \in S
  BY Elements
<1>2. /\ b \in 0..Len(s) /\ c \in 0..Len(s) /\ b <= c
      /\ \A k \in 1..Len(s) : /\ k <= b <=> s[k].priority < p
                              /\ k <= c <=> s[k].priority <= p
  BY DEF Bounds
<1>3. /\ {k \in 1..Len(s) : s[k].priority < p} = 1..b
      /\ {k \in 1..Len(s) : s[k].priority <= p} = 1..c
  BY <1>1, <1>2
<1>4. Cardinality(1..b) = b /\ Cardinality(1..c) = c
  <2>1. b \in Nat /\ c \in Nat
    BY <1>1, <1>2
  <2> QED
    BY <2>1, FS_Interval
<1>5. b = Before(s, p) /\ c = UpTo(s, p)
  BY <1>1, <1>3, <1>4 DEF Before, UpTo
<1>6. Segment(s, p) = SubSeq(s, b + 1, c)
  BY <1>5 DEF Segment
<1>7. /\ SubSeq(s, b + 1, c) \in Seq(S) /\ Len(SubSeq(s, b + 1, c)) = c - b
      /\ \A k \in 1..(c - b) : SubSeq(s, b + 1, c)[k] = s[b + k] /\ b + k \in 1..Len(s)
  BY <1>1, <1>2
<1> QED
  BY <1>1, <1>2, <1>5, <1>6, <1>7

(* The elements of a segment, and whether there are any.                   *)
LEMMA SegmentElements ==
  ASSUME NEW S, NEW s \in Seq(S), NEW p \in Int, SortedByPriority(s),
         \A x \in S : x.priority \in Int
  PROVE  /\ Segment(s, p) \in Seq(S)
         /\ ToSet(Segment(s, p)) = {x \in ToSet(s) : x.priority = p}
         /\ Segment(s, p) # <<>> <=> \E x \in ToSet(s) : x.priority = p
<1> DEFINE g == Segment(s, p)
           b == Before(s, p)
           c == UpTo(s, p)
<1>1. Bounds(s, p, b, c)
  BY SegmentBounds
<1>2. /\ b \in Nat /\ c \in Nat /\ b <= c /\ c <= Len(s)
      /\ g \in Seq(S) /\ Len(g) = c - b
      /\ \A k \in 1..(c - b) : g[k] = s[b + k] /\ b + k \in 1..Len(s)
  BY <1>1, SegmentBetween
<1>3. \A k \in 1..Len(s) : s[k].priority = p <=> b < k /\ k <= c
  <2>1. \A k \in 1..Len(s) : s[k].priority \in Int
    BY Elements
  <2> QED
    BY <1>1, <1>2, <2>1 DEF Bounds
<1>e. /\ \A x : x \in ToSet(s) <=> \E k \in 1..Len(s) : s[k] = x
      /\ Len(s) \in Nat
  BY Elements
<1> HIDE DEF b, c, g
<1>f. /\ \A x : x \in ToSet(g) <=> \E k \in 1..(c - b) : g[k] = x
      /\ g = <<>> <=> ToSet(g) = {}
  <2>1. /\ \A x : x \in ToSet(g) <=> \E k \in 1..Len(g) : g[k] = x
        /\ g = <<>> <=> ToSet(g) = {}
    BY <1>2, Elements
  <2> QED
    BY <1>2, <2>1
<1>4. ASSUME NEW x \in ToSet(g) PROVE x \in ToSet(s) /\ x.priority = p
  <2>1. PICK k \in 1..(c - b) : g[k] = x
    BY <1>f
  <2>2. b + k \in 1..Len(s) /\ x = s[b + k] /\ b < b + k /\ b + k <= c
    BY <1>2, <2>1
  <2> QED
    BY <1>3, <1>e, <2>2
<1>5. ASSUME NEW x \in ToSet(s), x.priority = p PROVE x \in ToSet(g)
  <2>1. PICK k \in 1..Len(s) : s[k] = x
    BY <1>e
  <2>2. b < k /\ k <= c
    BY <1>3, <1>5, <2>1
  <2>3. k - b \in 1..(c - b) /\ b + (k - b) = k
    BY <1>2, <1>e, <2>2
  <2> QED
    BY <1>2, <1>f, <2>1, <2>3
<1>6. ToSet(g) = {x \in ToSet(s) : x.priority = p}
  BY <1>4, <1>5
<1> QED
  BY <1>2, <1>f, <1>6 DEF g

(* Where a newcomer is put in a sorted queue: after those as urgent.       *)
LEMMA PlacedPositions ==
  ASSUME NEW S, NEW s \in Seq(S), NEW n \in S, SortedByPriority(s),
         \A x \in S : x.priority \in Int
  PROVE  LET c == UpTo(s, n.priority)
             a == Placed(s, n)
         IN  /\ a \in Seq(S) /\ Len(a) = Len(s) + 1
             /\ \A j \in 1..(Len(s) + 1) :
                  a[j] = IF j <= c THEN s[j] ELSE IF j = c + 1 THEN n ELSE s[j - 1]
<1> DEFINE T == {k \in 1..Len(s) : n.priority < s[k].priority}
           p == n.priority
           c == UpTo(s, p)
<1>1. /\ Len(s) \in Nat /\ p \in Int
      /\ \A k \in 1..Len(s) : s[k].priority \in Int
  BY Elements
<1>2. c \in 0..Len(s) /\ \A k \in 1..Len(s) : k <= c <=> s[k].priority <= p
  BY <1>1, SegmentBounds DEF Bounds
<1>3. Placed(s, n) = IF T = {} THEN Append(s, n) ELSE InsertAt(s, Min(T), n)
  BY Zenon DEF Placed
<1>4. \A k \in 1..Len(s) : k \in T <=> ~(k <= c)
  BY <1>1, <1>2
<1>5. T \subseteq 1..Len(s)
  OBVIOUS
<1> HIDE DEF T, c, p
<1>6. CASE T = {}
  <2> DEFINE a == Append(s, n)
  <2>1. /\ a \in Seq(S) /\ Len(a) = Len(s) + 1
        /\ \A j \in 1..(Len(s) + 1) : a[j] = IF j <= Len(s) THEN s[j] ELSE n
    OBVIOUS
  <2>2. c = Len(s)
    BY <1>1, <1>2, <1>4, <1>6
  <2>3. Placed(s, n) = a
    BY <1>3, <1>6, Zenon
  <2>4. \A j \in 1..(Len(s) + 1) : ~(j <= Len(s)) => j = Len(s) + 1
    BY <1>1
  <2> HIDE DEF a
  <2> QED
    BY <2>1, <2>2, <2>3, <2>4 DEF c, p
<1>7. CASE T # {}
  <2> DEFINE a == InsertAt(s, c + 1, n)
  <2>1. Min(T) \in T /\ \A k \in T : Min(T) <= k
    <3>1. T \subseteq Nat
      BY <1>5
    <3> QED
      BY <1>7, <3>1, MinLeast
  <2>2. Min(T) = c + 1 /\ c + 1 \in 1..(Len(s) + 1)
    <3>1. Min(T) \in 1..Len(s) /\ ~(Min(T) <= c)
      BY <1>4, <1>5, <2>1
    <3>2. c + 1 \in 1..Len(s) /\ ~(c + 1 <= c)
      BY <1>1, <1>2, <3>1
    <3>3. Min(T) <= c + 1
      BY <1>4, <2>1, <3>2
    <3> QED
      BY <1>1, <1>2, <3>1, <3>3
  <2>3. Placed(s, n) = a
    BY <1>3, <1>7, <2>2, Zenon
  <2>4. /\ a \in Seq(S) /\ Len(a) = Len(s) + 1
        /\ \A j \in 1..(Len(s) + 1) :
             a[j] = IF j < c + 1 THEN s[j] ELSE IF j = c + 1 THEN n ELSE s[j - 1]
    <3> DEFINE k == c + 1
               i == InsertAt(s, k, n)
    <3>1. k \in 1..(Len(s) + 1)
      BY <2>2
    <3> HIDE DEF k
    <3>2. /\ i \in Seq(S) /\ Len(i) = Len(s) + 1
          /\ \A j \in 1..(Len(s) + 1) :
               i[j] = IF j < k THEN s[j] ELSE IF j = k THEN n ELSE s[j - 1]
      BY <3>1, InsertElements
    <3>3. a = i
      BY DEF k
    <3> HIDE DEF a, i
    <3> QED
      BY <3>2, <3>3, Zenon DEF k
  <2>5. \A j \in 1..(Len(s) + 1) : j < c + 1 <=> j <= c
    BY <1>1, <1>2
  <2> HIDE DEF a
  <2> QED
    BY <2>3, <2>4, <2>5, Zenon DEF c, p
<1> QED
  BY <1>6, <1>7

(* A newcomer is the last of its priority, and moves nobody of another.    *)
LEMMA SegmentPlaced ==
  ASSUME NEW S, NEW s \in Seq(S), NEW n \in S, SortedByPriority(s),
         \A x \in S : x.priority \in Int,
         NEW p \in Int
  PROVE  /\ SortedByPriority(Placed(s, n)) /\ Placed(s, n) \in Seq(S)
         /\ Segment(Placed(s, n), p) = IF p = n.priority THEN Append(Segment(s, p), n)
                                                         ELSE Segment(s, p)
<1> DEFINE q == n.priority
           a == Placed(s, n)
           m == UpTo(s, q)
           b == Before(s, p)
           c == UpTo(s, p)
           bb == IF q < p THEN b + 1 ELSE b
           cc == IF q <= p THEN c + 1 ELSE c
           g == Segment(s, p)
           h == Segment(a, p)
<1>0. q \in Int /\ Len(s) \in Nat /\ \A k \in 1..Len(s) : s[k] \in S /\ s[k].priority \in Int
  BY Elements
<1>1. /\ a \in Seq(S) /\ Len(a) = Len(s) + 1
      /\ \A j \in 1..(Len(s) + 1) :
           a[j] = IF j <= m THEN s[j] ELSE IF j = m + 1 THEN n ELSE s[j - 1]
  BY PlacedPositions
<1>2. SortedByPriority(a)
  BY PlacedSorted
<1>3. /\ m \in 0..Len(s) /\ \A k \in 1..Len(s) : k <= m <=> s[k].priority <= q
  BY <1>0, SegmentBounds DEF Bounds
<1>b. Bounds(s, p, b, c)
  BY SegmentBounds
<1>4. /\ b \in 0..Len(s) /\ c \in 0..Len(s) /\ b <= c
      /\ \A k \in 1..Len(s) : /\ k <= b <=> s[k].priority < p
                              /\ k <= c <=> s[k].priority <= p
  BY <1>b DEF Bounds
<1>5. /\ g \in Seq(S) /\ Len(g) = c - b
      /\ \A k \in 1..(c - b) : g[k] = s[b + k] /\ b + k \in 1..Len(s)
  BY <1>b, SegmentBetween
<1> HIDE DEF a, m, b, c, g, h
<1>6. Bounds(a, p, bb, cc)
  <2>1. ASSUME NEW k \in 1..(Len(s) + 1)
        PROVE  /\ k <= bb <=> a[k].priority < p
               /\ k <= cc <=> a[k].priority <= p
    <3>1. CASE k <= m
      <4>1. a[k] = s[k] /\ k \in 1..Len(s) /\ s[k].priority <= q
        BY <3>1, <1>0, <1>1, <1>3
      <4> QED
        BY <4>1, <1>0, <1>4
    <3>2. CASE k = m + 1
      <4>1. a[k] = n
        BY <3>2, <1>0, <1>1, <1>3
      <4>2. q < p => m <= b
        BY <1>0, <1>3, <1>4
      <4>3. q <= p => m <= c
        BY <1>0, <1>3, <1>4
      <4>4. ~(q < p) => b <= m
        BY <1>0, <1>3, <1>4
      <4>5. ~(q <= p) => c <= m
        BY <1>0, <1>3, <1>4
      <4> QED
        BY <4>1, <4>2, <4>3, <4>4, <4>5, <3>2, <1>0, <1>3, <1>4
    <3>3. CASE k > m + 1
      <4>1. a[k] = s[k - 1] /\ k - 1 \in 1..Len(s) /\ ~(s[k - 1].priority <= q)
        BY <3>3, <1>0, <1>1, <1>3
      <4> QED
        BY <4>1, <1>0, <1>4
    <3> QED
      BY <3>1, <3>2, <3>3, <1>3
  <2>2. bb \in 0..Len(a) /\ cc \in 0..Len(a) /\ bb <= cc
    BY <1>0, <1>1, <1>4
  <2> QED
    BY <2>1, <2>2, <1>1 DEF Bounds
<1>7. /\ h \in Seq(S) /\ Len(h) = cc - bb
      /\ \A k \in 1..(cc - bb) : h[k] = a[bb + k] /\ bb + k \in 1..Len(a)
  BY <1>1, <1>6, SegmentBetween DEF h
<1>8. CASE p = q
  <2> DEFINE d == Append(g, n)
  <2>1. /\ d \in Seq(S) /\ Len(d) = (c - b) + 1
        /\ \A k \in 1..((c - b) + 1) : d[k] = IF k <= c - b THEN g[k] ELSE n
    BY <1>5
  <2>2. bb = b /\ cc = c + 1 /\ m = c /\ cc - bb = (c - b) + 1
    BY <1>0, <1>4, <1>8 DEF m, c
  <2> HIDE DEF d
  <2>3. ASSUME NEW k \in 1..((c - b) + 1) PROVE h[k] = d[k]
    <3>1. h[k] = a[b + k] /\ b + k \in 1..(Len(s) + 1)
      BY <1>1, <1>7, <2>2
    <3>2. CASE k <= c - b
      <4>1. k \in 1..(c - b) /\ b + k <= m
        BY <3>2, <1>4, <2>2
      <4> QED
        BY <4>1, <3>1, <3>2, <1>1, <1>5, <2>1
    <3>3. CASE ~(k <= c - b)
      <4>1. b + k = m + 1 /\ ~(b + k <= m)
        BY <3>3, <1>4, <2>2
      <4> QED
        BY <4>1, <3>1, <3>3, <1>1, <2>1
    <3> QED
      BY <3>2, <3>3
  <2>4. h = d
    BY <1>7, <2>1, <2>2, <2>3, SameEvents
  <2> QED
    BY <1>1, <1>2, <1>8, <2>4, Zenon DEF a, g, h, d
<1>9. CASE p # q
  <2>1. cc - bb = c - b
    BY <1>0, <1>4, <1>9
  <2>2. ASSUME NEW k \in 1..(c - b) PROVE h[k] = g[k]
    <3>1. h[k] = a[bb + k] /\ bb + k \in 1..(Len(s) + 1)
      BY <1>1, <1>7, <2>1
    <3>2. g[k] = s[b + k] /\ b + k \in 1..Len(s) /\ b + k <= c /\ ~(b + k <= b)
      BY <1>4, <1>5
    <3>3. s[b + k].priority <= p /\ ~(s[b + k].priority < p)
      BY <1>4, <3>2
    <3>4. CASE q < p
      <4>1. bb + k = (b + k) + 1 /\ ~(b + k <= m)
        BY <1>0, <1>3, <1>4, <3>2, <3>3, <3>4
      <4>2. ~(bb + k <= m) /\ bb + k # m + 1 /\ (bb + k) - 1 = b + k
        BY <4>1, <1>3, <3>2
      <4> QED
        BY <4>2, <3>1, <3>2, <1>1
    <3>5. CASE p < q
      <4>1. bb + k = b + k /\ b + k <= m
        BY <1>0, <1>3, <1>4, <3>2, <3>3, <3>5
      <4> QED
        BY <4>1, <3>1, <3>2, <1>1
    <3> QED
      BY <3>4, <3>5, <1>0, <1>9
  <2>3. h = g
    BY <1>5, <1>7, <2>1, <2>2, SameEvents
  <2> QED
    BY <1>1, <1>2, <1>9, <2>3, Zenon DEF a, g, h
<1> QED
  BY <1>8, <1>9

(* The head is the first of its priority, and there is none more urgent;   *)
(* when it goes it leaves only its own line.                               *)
LEMMA SegmentTail ==
  ASSUME NEW S, NEW s \in Seq(S), s # <<>>, SortedByPriority(s),
         \A x \in S : x.priority \in Int,
         NEW p \in Int
  PROVE  /\ SortedByPriority(Tail(s)) /\ Tail(s) \in Seq(S)
         /\ p = Head(s).priority =>
              /\ Segment(s, p) # <<>> /\ Head(Segment(s, p)) = Head(s)
              /\ Segment(Tail(s), p) = Tail(Segment(s, p))
         /\ p # Head(s).priority => Segment(Tail(s), p) = Segment(s, p)
         /\ p < Head(s).priority => Segment(s, p) = <<>>
<1> DEFINE q == Head(s).priority
           a == Tail(s)
           b == Before(s, p)
           c == UpTo(s, p)
           bb == IF q < p THEN b - 1 ELSE b
           cc == IF q <= p THEN c - 1 ELSE c
           g == Segment(s, p)
           h == Segment(a, p)
<1>0. Len(s) \in Nat \ {0} /\ \A k \in 1..Len(s) : s[k] \in S /\ s[k].priority \in Int
  BY Elements
<1>1. /\ a \in Seq(S) /\ Len(a) = Len(s) - 1 /\ Head(s) = s[1]
      /\ \A j \in 1..(Len(s) - 1) : a[j] = s[j + 1]
  OBVIOUS
<1>2. SortedByPriority(a) /\ q \in Int /\ \A k \in 1..Len(s) : q <= s[k].priority
  <2>1. 1 \in 1..Len(s) /\ \A j, k \in 1..Len(s) : j <= k => s[j].priority <= s[k].priority
    BY <1>0 DEF SortedByPriority
  <2>2. q \in Int /\ \A k \in 1..Len(s) : q <= s[k].priority
    BY <1>0, <1>1, <2>1
  <2> QED
    BY <2>2, SortedTail
<1>b. Bounds(s, p, b, c)
  BY SegmentBounds
<1>4. /\ b \in 0..Len(s) /\ c \in 0..Len(s) /\ b <= c
      /\ \A k \in 1..Len(s) : /\ k <= b <=> s[k].priority < p
                              /\ k <= c <=> s[k].priority <= p
  BY <1>b DEF Bounds
<1>5. /\ g \in Seq(S) /\ Len(g) = c - b
      /\ \A k \in 1..(c - b) : g[k] = s[b + k] /\ b + k \in 1..Len(s)
  BY <1>b, SegmentBetween
<1>h. s[1].priority = q /\ 1 \in 1..Len(s)
  BY <1>0, <1>1
<1> HIDE DEF a, b, c, g, h, q
<1>6. /\ q < p <=> 1 <= b
      /\ q <= p <=> 1 <= c
  BY <1>h, <1>4
<1>7. Bounds(a, p, bb, cc)
  <2>1. ASSUME NEW k \in 1..(Len(s) - 1)
        PROVE  /\ k <= bb <=> a[k].priority < p
               /\ k <= cc <=> a[k].priority <= p
    <3>1. a[k] = s[k + 1] /\ k + 1 \in 1..Len(s)
      BY <1>0, <1>1
    <3>2. /\ k + 1 <= b <=> a[k].priority < p
          /\ k + 1 <= c <=> a[k].priority <= p
      BY <3>1, <1>4
    <3>3. k <= bb <=> k + 1 <= b
      BY <1>2, <1>4, <1>6
    <3>4. k <= cc <=> k + 1 <= c
      BY <1>2, <1>4, <1>6
    <3> QED
      BY <3>2, <3>3, <3>4
  <2>2. bb \in 0..Len(a) /\ cc \in 0..Len(a) /\ bb <= cc
    BY <1>0, <1>1, <1>2, <1>4, <1>6
  <2> QED
    BY <2>1, <2>2, <1>1 DEF Bounds
<1>8. /\ h \in Seq(S) /\ Len(h) = cc - bb
      /\ \A k \in 1..(cc - bb) : h[k] = a[bb + k] /\ bb + k \in 1..Len(a)
  BY <1>1, <1>7, SegmentBetween DEF h
<1>9. ASSUME p = q
      PROVE  /\ g # <<>> /\ Head(g) = Head(s) /\ h = Tail(g)
  <2>1. b = 0 /\ 1 <= c /\ bb = 0 /\ cc = c - 1
    BY <1>2, <1>4, <1>6, <1>9
  <2>2. Len(g) = c /\ g # <<>> /\ Head(g) = g[1] /\ g[1] = s[1]
    <3>1. Len(g) = c /\ 1 \in 1..(c - b) /\ b + 1 = 1
      BY <1>4, <1>5, <2>1
    <3>2. g[1] = s[1]
      BY <1>5, <3>1
    <3> QED
      BY <1>5, <2>1, <3>1, <3>2
  <2> DEFINE d == Tail(g)
  <2>3. d \in Seq(S) /\ Len(d) = c - 1 /\ \A k \in 1..(c - 1) : d[k] = g[k + 1]
    BY <1>5, <2>2
  <2> HIDE DEF d
  <2>4. ASSUME NEW k \in 1..(c - 1) PROVE h[k] = d[k]
    <3>0. k \in 1..(cc - bb) /\ bb + k = k
      BY <1>4, <2>1
    <3>1. h[k] = a[k] /\ k \in 1..(Len(s) - 1)
      BY <1>1, <1>8, <3>0
    <3>2. d[k] = s[k + 1]
      <4>1. k + 1 \in 1..(c - b) /\ b + (k + 1) = k + 1
        BY <1>4, <2>1
      <4> QED
        BY <4>1, <1>5, <2>3
    <3> QED
      BY <3>1, <3>2, <1>1
  <2>5. h = d
    <3>1. Len(h) = c - 1
      BY <1>4, <1>8, <2>1
    <3> QED
      BY <1>8, <2>3, <2>4, <3>1, SameEvents
  <2> QED
    BY <1>1, <2>2, <2>5 DEF d
<1>10. ASSUME p # q PROVE h = g
  <2>1. cc - bb = c - b
    BY <1>2, <1>4, <1>10
  <2>2. ASSUME NEW k \in 1..(c - b) PROVE h[k] = g[k]
    <3>1. h[k] = a[bb + k] /\ bb + k \in 1..(Len(s) - 1)
      BY <1>1, <1>8, <2>1
    <3>2. q < p
      <4>1. b + k <= c /\ 1 <= c
        BY <1>4
      <4> QED
        BY <4>1, <1>2, <1>6, <1>10
    <3>3. (bb + k) + 1 = b + k
      BY <3>2, <1>4
    <3> QED
      BY <3>1, <3>3, <1>1, <1>5
  <2> QED
    BY <1>5, <1>8, <2>1, <2>2, SameEvents
<1>11. ASSUME p < q PROVE g = <<>>
  <2>1. b = 0 /\ c = 0
    BY <1>2, <1>4, <1>6, <1>11
  <2> QED
    BY <1>5, <2>1
<1> QED
  BY <1>1, <1>2, <1>9, <1>10, <1>11 DEF a, g, h, q

-----------------------------------------------------------------------------
(* The searches of module Lines.                                           *)

(* A queue that is not empty has a least urgent holder: the prefixes of    *)
(* the queue without one would have a shortest.                            *)
LEMMA LeastUrgent ==
  ASSUME NEW S, NEW s \in Seq(S), s # <<>>, \A x \in S : x.priority \in Int
  PROVE  \E j \in 1..Len(s) : \A k \in 1..Len(s) : s[k].priority <= s[j].priority
<1> DEFINE Top(m) == \E j \in 1..m : \A k \in 1..m : s[k].priority <= s[j].priority
           B == {m \in 1..Len(s) : ~Top(m)}
<1>1. Len(s) \in Nat \ {0} /\ \A k \in 1..Len(s) : s[k] \in S /\ s[k].priority \in Int
  OBVIOUS
<1>2. SUFFICES ASSUME B # {} PROVE FALSE
  <2>1. Len(s) \in 1..Len(s)
    BY <1>1
  <2> HIDE DEF Top
  <2>2. B = {} => Top(Len(s))
    BY <2>1
  <2> QED
    BY <1>2, <2>2 DEF Top
<1>3. PICK m \in B : \A k \in B : m <= k
  <2>1. B \subseteq Nat
    BY <1>1
  <2> HIDE DEF B
  <2> QED
    BY <1>2, <2>1, LeastNatural
<1>4. m \in 1..Len(s) /\ ~Top(m)
  BY <1>3
<1>5. CASE m = 1
  <2>1. s[1].priority \in Int
    BY <1>1
  <2> QED
    BY <1>4, <1>5, <2>1
<1>6. CASE m # 1
  <2>1. m - 1 \in 1..Len(s) /\ ~(m <= m - 1)
    BY <1>1, <1>4, <1>6
  <2>2. Top(m - 1)
    BY <1>3, <2>1
  <2>3. PICK j \in 1..(m - 1) : \A k \in 1..(m - 1) : s[k].priority <= s[j].priority
    BY <2>2
  <2>4. /\ j \in 1..m /\ m \in 1..m
        /\ \A k \in 1..m : k \in 1..Len(s) /\ (k = m \/ k \in 1..(m - 1))
    <3>1. Len(s) \in Nat /\ m \in 1..Len(s) /\ j \in 1..(m - 1)
      BY <1>1, <1>4
    <3> QED
      BY <3>1
  <2> DEFINE v(k) == s[k].priority
  <2>7. \A k \in 1..m : v(k) \in Int
    BY <1>1, <2>4
  <2>8. /\ \A k \in 1..(m - 1) : v(k) <= v(j)
        /\ ~ \E i \in 1..m : \A k \in 1..m : v(k) <= v(i)
    BY <1>4, <2>3
  <2> HIDE DEF v
  <2>5. CASE v(m) <= v(j)
    BY <2>4, <2>5, <2>8
  <2>6. CASE ~(v(m) <= v(j))
    <3>1. ASSUME NEW k \in 1..m PROVE v(k) <= v(m)
      <4>1. v(k) \in Int /\ v(j) \in Int /\ v(m) \in Int
        BY <2>4, <2>7
      <4>2. k = m \/ v(k) <= v(j)
        BY <2>4, <2>8
      <4>3. CASE k = m
        <5>1. v(m) <= v(m)
          BY <4>1
        <5> QED
          BY <4>3, <5>1, Zenon
      <4>4. CASE v(k) <= v(j)
        BY <2>6, <4>1, <4>4
      <4> QED
        BY <4>2, <4>3, <4>4
    <3> QED
      BY <2>4, <2>8, <3>1
  <2> QED
    BY <2>5, <2>6
<1> QED
  BY <1>5, <1>6

(* find_weakest finds one.                                                 *)
LEMMA WeakestFound ==
  ASSUME NEW S, NEW s \in Seq(S), s # <<>>, \A x \in S : x.priority \in Int
  PROVE  /\ find_weakest(s) \in 1..Len(s)
         /\ \A g \in ToSet(s) : g.priority <= s[find_weakest(s)].priority
<1> DEFINE T == {k \in 1..Len(s) : \A g \in ToSet(s) : g.priority <= s[k].priority}
<1>1. find_weakest(s) = IF T # {} THEN Min(T) ELSE 0
  BY Zenon DEF find_weakest, SelectInSeq
<1>2. T # {}
  <2>1. PICK j \in 1..Len(s) : \A k \in 1..Len(s) : s[k].priority <= s[j].priority
    BY LeastUrgent
  <2>2. \A g \in ToSet(s) : \E k \in 1..Len(s) : s[k] = g
    BY Elements
  <2>3. j \in T
    BY <2>1, <2>2
  <2> QED
    BY <2>3
<1>3. Min(T) \in T
  <2>1. T \subseteq Nat
    BY Elements
  <2> HIDE DEF T
  <2> QED
    BY <1>2, <2>1, MinLeast
<1>4. find_weakest(s) = Min(T)
  BY <1>1, <1>2, Zenon
<1> HIDE DEF T
<1>5. find_weakest(s) \in T
  BY <1>3, <1>4, Zenon
<1> QED
  BY <1>5 DEF T

(* The record that is looked for by its event is found, if there is one.   *)
LEMMA HolderFound ==
  ASSUME NEW S, NEW s \in Seq(S), NEW e
  PROVE  LET k == SelectInSeq(s, LAMBDA h : h.event = e)
         IN  /\ k = 0 \/ (k \in 1..Len(s) /\ s[k].event = e)
             /\ e \in ToSet(Events(s)) => k # 0
<1> DEFINE T == {k \in 1..Len(s) : s[k].event = e}
           f == SelectInSeq(s, LAMBDA h : h.event = e)
<1>1. f = IF T # {} THEN Min(T) ELSE 0
  BY Zenon DEF SelectInSeq
<1> HIDE DEF f
<1>2. T # {} <=> e \in ToSet(Events(s))
  <2>1. /\ ToSet(Events(s)) = {n.event : n \in ToSet(s)}
        /\ \A x : x \in ToSet(s) <=> \E k \in 1..Len(s) : s[k] = x
    BY EventsPositions, Elements
  <2> QED
    BY <2>1
<1>3. T # {} => Min(T) \in T
  <2>1. T \subseteq Nat
    BY Elements
  <2> HIDE DEF T
  <2> QED
    BY <2>1, MinLeast
<1>4. T # {} => f \in T
  <2> HIDE DEF T
  <2> QED
    BY <1>1, <1>3, Zenon
<1>5. T = {} => f = 0
  <2> HIDE DEF T
  <2> QED
    BY <1>1, Zenon
<1>6. f \in T => f \in 1..Len(s) /\ s[f].event = e /\ f # 0
  <2>1. f \in 1..Len(s) => f # 0
    OBVIOUS
  <2> QED
    BY <2>1
<1>7. /\ f = 0 \/ (f \in 1..Len(s) /\ s[f].event = e)
      /\ e \in ToSet(Events(s)) => f # 0
  <2> HIDE DEF T
  <2> QED
    BY <1>2, <1>4, <1>5, <1>6
<1> QED
  BY <1>7 DEF f

(* insert_sorted puts a newcomer before the first one that it precedes.    *)
LEMMA InsertIsPlaced ==
  ASSUME NEW S, NEW s \in Seq(S), NEW n
  PROVE  insert_sorted(s, n) = Placed(s, n)
<1> DEFINE T == {k \in 1..Len(s) : n.priority < s[k].priority}
           k == IF T # {} THEN Min(T) ELSE 0
<1>1. insert_sorted(s, n) = IF k = 0 THEN Append(s, n) ELSE InsertAt(s, k, n)
  BY Zenon DEF insert_sorted, SelectInSeq, Min, InsertAt
<1>2. T # {} => Min(T) # 0
  <2>1. T \subseteq Nat /\ 0 \notin T
    OBVIOUS
  <2> HIDE DEF T
  <2> QED
    BY <2>1, MinLeast
<1>3. Placed(s, n) = IF T = {} THEN Append(s, n) ELSE InsertAt(s, Min(T), n)
  BY Zenon DEF Placed
<1>4. CASE T = {}
  <2>1. k = 0 /\ Placed(s, n) = Append(s, n)
    BY <1>3, <1>4, Zenon
  <2> HIDE DEF k
  <2> QED
    BY <1>1, <2>1, Zenon
<1>5. CASE T # {}
  <2>1. k = Min(T) /\ k # 0 /\ Placed(s, n) = InsertAt(s, Min(T), n)
    BY <1>2, <1>3, <1>5, Zenon
  <2> HIDE DEF k, T
  <2> QED
    BY <1>1, <2>1, Zenon
<1> QED
  BY <1>4, <1>5

(* A line with a newcomer.                                                 *)
LEMMA LineInserted ==
  ASSUME NEW S, NEW s \in Seq(S), NEW n \in S, \A x \in S : x.priority \in Int,
         NEW a, a = insert_sorted(s, n)
  PROVE  /\ a \in Seq(S) /\ ToSet(a) = ToSet(s) \cup {n}
         /\ IsInjective(Events(a)) <=>
              IsInjective(Events(s)) /\ n.event \notin ToSet(Events(s))
<1> DEFINE E == {x.event : x \in S}
<1>1. Events(s) \in Seq(E) /\ n.event \in E /\ Len(Events(s)) = Len(s) /\ Len(s) \in Nat
  <2>1. \A x \in S : x.event \in E
    OBVIOUS
  <2> HIDE DEF E
  <2> QED
    BY <2>1, EventsType, EventsPositions
<1>2. a = Append(s, n) \/ \E k \in 1..Len(s) : a = InsertAt(s, k, n)
  BY InsertIsPlaced, PlacedSorted
<1> HIDE DEF E
<1>3. CASE a = Append(s, n)
  <2>1. Events(a) = Append(Events(s), n.event)
    BY <1>3, EventsAppend
  <2> QED
    BY <1>1, <1>3, <2>1, AppendElements
<1>4. ASSUME NEW k \in 1..Len(s), a = InsertAt(s, k, n)
      PROVE  /\ a \in Seq(S) /\ ToSet(a) = ToSet(s) \cup {n}
             /\ IsInjective(Events(a)) <=>
                  IsInjective(Events(s)) /\ n.event \notin ToSet(Events(s))
  <2>1. k \in 1..(Len(s) + 1) /\ k \in 1..(Len(Events(s)) + 1)
    BY <1>1
  <2>2. Events(a) = InsertAt(Events(s), k, n.event)
    BY <1>4, <2>1, EventsInsert
  <2>3. a \in Seq(S) /\ ToSet(a) = ToSet(s) \cup {n}
    BY <1>4, <2>1, InsertElements
  <2> QED
    BY <1>1, <2>1, <2>2, <2>3, InsertElements
<1> QED
  BY <1>2, <1>3, <1>4

-----------------------------------------------------------------------------
(* The operators of Agenda, for entries of any set of events: what Insert  *)
(* and Tail do to the entries, to their order and to the set of queued     *)
(* events.  Ahead is the number of elements of a subset of an interval.    *)

(* An entry is put after at most all the entries there are (heap_push).    *)
LEMMA AheadBound ==
  ASSUME NEW S, NEW s \in Seq(Entry(S)), NEW t \in Nat
  PROVE  Ahead(s, t) \in 0..Len(s)
<1> DEFINE D == {j \in DOMAIN s : s[j].time <= t}
<1>1. DOMAIN s = 1..Len(s) /\ Len(s) \in Nat
  OBVIOUS
<1>2. IsFiniteSet(1..Len(s)) /\ Cardinality(1..Len(s)) = Len(s)
  BY <1>1, FS_Interval
<1>3. Cardinality(D) \in Nat /\ Cardinality(D) <= Len(s)
  BY <1>1, <1>2, FS_Subset, FS_CardinalityType
<1> QED
  BY <1>1, <1>3 DEF Ahead

(* Insert, entry by entry: those ahead stay, the others move by one.       *)
LEMMA InsertProperties ==
  ASSUME NEW S, NEW s \in Seq(Entry(S)), NEW t \in Nat, NEW e \in S
  PROVE  /\ Insert(s, t, e) \in Seq(Entry(S))
         /\ Len(Insert(s, t, e)) = Len(s) + 1
         /\ \A j \in 1..(Len(s) + 1) :
              Insert(s, t, e)[j] =
                IF j <= Ahead(s, t) THEN s[j]
                ELSE IF j = Ahead(s, t) + 1 THEN [time |-> t, ev |-> e]
                ELSE s[j - 1]
<1> DEFINE k == Ahead(s, t)
           n == [time |-> t, ev |-> e]
           L == SubSeq(s, 1, k)
           R == SubSeq(s, k + 1, Len(s))
<1>1. k \in 0..Len(s) /\ Len(s) \in Nat
  BY AheadBound
<1>2. n \in Entry(S)
  BY DEF Entry
<1>3. /\ L \in Seq(Entry(S)) /\ Len(L) = k
      /\ \A j \in 1..k : L[j] = s[j]
  BY <1>1
<1>4. /\ R \in Seq(Entry(S)) /\ Len(R) = Len(s) - k
      /\ \A j \in 1..(Len(s) - k) : R[j] = s[k + j]
  BY <1>1
<1>5. Insert(s, t, e) = L \o <<n>> \o R
  <2>1. Insert(s, t, e) = SubSeq(s, 1, (k + 1) - 1) \o <<n>> \o R
    BY Zenon DEF Insert, InsertAt
  <2>2. (k + 1) - 1 = k
    BY <1>1
  <2> QED
    BY <2>1, <2>2, Zenon
<1> HIDE DEF L, R, n, k
<1>6. /\ L \o <<n>> \in Seq(Entry(S)) /\ Len(L \o <<n>>) = k + 1
      /\ \A j \in 1..(k + 1) : (L \o <<n>>)[j] = IF j <= k THEN L[j] ELSE n
  BY <1>1, <1>2, <1>3
<1>7. /\ L \o <<n>> \o R \in Seq(Entry(S))
      /\ Len(L \o <<n>> \o R) = Len(s) + 1
      /\ \A j \in 1..(Len(s) + 1) :
           (L \o <<n>> \o R)[j] =
             IF j <= k + 1 THEN (L \o <<n>>)[j] ELSE R[j - (k + 1)]
  BY <1>1, <1>4, <1>6
<1>8. \A j \in 1..(Len(s) + 1) :
        Insert(s, t, e)[j] = IF j <= k THEN s[j]
                             ELSE IF j = k + 1 THEN n ELSE s[j - 1]
  <2> SUFFICES ASSUME NEW j \in 1..(Len(s) + 1)
               PROVE  Insert(s, t, e)[j] = IF j <= k THEN s[j]
                                           ELSE IF j = k + 1 THEN n ELSE s[j - 1]
    OBVIOUS
  <2>1. CASE j <= k
    BY <2>1, <1>1, <1>3, <1>5, <1>6, <1>7
  <2>2. CASE j = k + 1
    BY <2>2, <1>1, <1>5, <1>6, <1>7
  <2>3. CASE j > k + 1
    <3>1. j - (k + 1) \in 1..(Len(s) - k) /\ k + (j - (k + 1)) = j - 1
      BY <2>3, <1>1
    <3>2. R[j - (k + 1)] = s[j - 1]
      BY <3>1, <1>4
    <3> QED
      BY <2>3, <3>2, <1>1, <1>5, <1>7
  <2> QED
    BY <2>1, <2>2, <2>3, <1>1
<1> QED
  BY <1>5, <1>7, <1>8 DEF n, k

(* Insert adds its event to those queued and removes none.                 *)
LEMMA InsertQueued ==
  ASSUME NEW S, NEW s \in Seq(Entry(S)), NEW t \in Nat, NEW e \in S
  PROVE  Queued(Insert(s, t, e)) = Queued(s) \cup {e}
<1> DEFINE k == Ahead(s, t)
           r == Insert(s, t, e)
<1>1. k \in 0..Len(s) /\ Len(s) \in Nat /\ DOMAIN s = 1..Len(s)
  BY AheadBound
<1>2. /\ DOMAIN r = 1..(Len(s) + 1)
      /\ \A j \in 1..(Len(s) + 1) :
           r[j] = IF j <= k THEN s[j]
                  ELSE IF j = k + 1 THEN [time |-> t, ev |-> e] ELSE s[j - 1]
  BY InsertProperties
<1> HIDE DEF k, r
<1>3. ASSUME NEW j \in DOMAIN r
      PROVE  r[j].ev \in Queued(s) \cup {e}
  <2>1. CASE j <= k
    BY <2>1, <1>1, <1>2 DEF Queued
  <2>2. CASE j = k + 1
    BY <2>2, <1>1, <1>2
  <2>3. CASE j > k + 1
    <3>1. j - 1 \in DOMAIN s /\ r[j] = s[j - 1]
      BY <2>3, <1>1, <1>2
    <3> QED
      BY <3>1 DEF Queued
  <2> QED
    BY <2>1, <2>2, <2>3, <1>1, <1>2
<1>4. ASSUME NEW j \in DOMAIN s
      PROVE  s[j].ev \in Queued(r)
  <2>1. CASE j <= k
    BY <2>1, <1>1, <1>2 DEF Queued
  <2>2. CASE j > k
    <3>1. j + 1 \in DOMAIN r /\ r[j + 1] = s[j]
      BY <2>2, <1>1, <1>2
    <3> QED
      BY <3>1 DEF Queued
  <2> QED
    BY <2>1, <2>2, <1>1
<1>5. e \in Queued(r)
  <2>1. k + 1 \in DOMAIN r /\ r[k + 1].ev = e
    BY <1>1, <1>2
  <2> QED
    BY <2>1 DEF Queued
<1> QED
  BY <1>3, <1>4, <1>5 DEF Queued, r

(* An event that was not queued does not get a second entry.               *)
LEMMA InsertDistinct ==
  ASSUME NEW S, NEW s \in Seq(Entry(S)), NEW t \in Nat, NEW e \in S,
         Distinct(s), e \notin Queued(s)
  PROVE  Distinct(Insert(s, t, e))
<1> DEFINE k == Ahead(s, t)
           r == Insert(s, t, e)
           old(j) == IF j <= k THEN j ELSE j - 1
<1>1. k \in 0..Len(s) /\ Len(s) \in Nat /\ DOMAIN s = 1..Len(s)
  BY AheadBound
<1>2. /\ DOMAIN r = 1..(Len(s) + 1)
      /\ \A j \in 1..(Len(s) + 1) :
           r[j] = IF j <= k THEN s[j]
                  ELSE IF j = k + 1 THEN [time |-> t, ev |-> e] ELSE s[j - 1]
  BY InsertProperties
<1> HIDE DEF k, r
<1>3. \A j \in DOMAIN r : j # k + 1 => old(j) \in DOMAIN s /\ r[j] = s[old(j)]
  BY <1>1, <1>2
<1>4. r[k + 1].ev = e
  BY <1>1, <1>2
<1>5. \A j \in DOMAIN r : j # k + 1 => r[j].ev # e
  BY <1>3 DEF Queued
<1>6. ASSUME NEW i \in DOMAIN r, NEW j \in DOMAIN r, r[i].ev = r[j].ev
      PROVE  i = j
  <2>1. CASE i = k + 1 \/ j = k + 1
    BY <2>1, <1>4, <1>5, <1>6
  <2>2. CASE i # k + 1 /\ j # k + 1
    <3>1. old(i) = old(j)
      BY <2>2, <1>3, <1>6 DEF Distinct
    <3> QED
      BY <2>2, <3>1, <1>1, <1>2
  <2> QED
    BY <2>1, <2>2
<1> QED
  BY <1>6 DEF Distinct, r

(* Taking the first entry dequeues its event, and no other.                *)
LEMMA TailQueued ==
  ASSUME NEW S, NEW s \in Seq(Entry(S)), s # <<>>
  PROVE  /\ Head(s) \in Entry(S) /\ Head(s).ev \in Queued(s)
         /\ Tail(s) \in Seq(Entry(S))
         /\ Distinct(s) => /\ Distinct(Tail(s))
                           /\ Queued(Tail(s)) = Queued(s) \ {Head(s).ev}
<1> DEFINE r == Tail(s)
<1>1. /\ Len(s) \in Nat \ {0} /\ DOMAIN s = 1..Len(s)
      /\ r \in Seq(Entry(S)) /\ DOMAIN r = 1..(Len(s) - 1)
      /\ \A j \in 1..(Len(s) - 1) : r[j] = s[j + 1]
      /\ Head(s) = s[1]
  OBVIOUS
<1>2. Head(s) \in Entry(S) /\ Head(s).ev \in Queued(s)
  BY <1>1 DEF Queued
<1> HIDE DEF r
<1>3. ASSUME Distinct(s) PROVE Distinct(r)
  <2>1. ASSUME NEW i \in DOMAIN r, NEW j \in DOMAIN r, r[i].ev = r[j].ev
        PROVE  i = j
    <3>1. i + 1 \in DOMAIN s /\ j + 1 \in DOMAIN s /\ s[i + 1].ev = s[j + 1].ev
      BY <2>1, <1>1
    <3>2. i + 1 = j + 1
      BY <3>1, <1>3, Zenon DEF Distinct
    <3> QED
      BY <3>2, <1>1
  <2> QED
    BY <2>1 DEF Distinct
<1>4. ASSUME Distinct(s) PROVE Queued(r) = Queued(s) \ {Head(s).ev}
  <2>1. ASSUME NEW j \in DOMAIN r
        PROVE  r[j].ev \in Queued(s) /\ r[j].ev # Head(s).ev
    BY <1>1, <1>4 DEF Queued, Distinct
  <2>2. ASSUME NEW j \in DOMAIN s, s[j].ev # Head(s).ev
        PROVE  s[j].ev \in Queued(r)
    <3>1. j - 1 \in DOMAIN r /\ r[j - 1] = s[j]
      BY <2>2, <1>1
    <3> QED
      BY <3>1 DEF Queued
  <2> QED
    BY <2>1, <2>2 DEF Queued
<1> QED
  BY <1>1, <1>2, <1>3, <1>4 DEF r

(* What Insert and Tail leave in a queue: all entries but the first.       *)
LEMMA EntriesKept ==
  ASSUME NEW S, NEW s \in Seq(Entry(S))
  PROVE  /\ \A t \in Nat, e \in S :
              /\ \E i \in DOMAIN Insert(s, t, e) : Insert(s, t, e)[i] = [time |-> t, ev |-> e]
              /\ \A j \in DOMAIN s : \E i \in DOMAIN Insert(s, t, e) : Insert(s, t, e)[i] = s[j]
         /\ s # <<>> => \A j \in DOMAIN s : s[j] = Head(s) \/ \E i \in DOMAIN Tail(s) : Tail(s)[i] = s[j]
<1>1. ASSUME NEW t \in Nat, NEW e \in S
      PROVE  /\ \E i \in DOMAIN Insert(s, t, e) : Insert(s, t, e)[i] = [time |-> t, ev |-> e]
             /\ \A j \in DOMAIN s : \E i \in DOMAIN Insert(s, t, e) : Insert(s, t, e)[i] = s[j]
  <2> DEFINE k == Ahead(s, t)
             r == Insert(s, t, e)
  <2>1. k \in 0..Len(s) /\ Len(s) \in Nat /\ DOMAIN s = 1..Len(s)
    BY AheadBound
  <2>2. /\ DOMAIN r = 1..(Len(s) + 1)
        /\ \A j \in 1..(Len(s) + 1) :
             r[j] = IF j <= k THEN s[j]
                    ELSE IF j = k + 1 THEN [time |-> t, ev |-> e] ELSE s[j - 1]
    BY InsertProperties
  <2> HIDE DEF k, r
  <2>3. k + 1 \in DOMAIN r /\ r[k + 1] = [time |-> t, ev |-> e]
    BY <2>1, <2>2
  <2>4. ASSUME NEW j \in DOMAIN s PROVE \E i \in DOMAIN r : r[i] = s[j]
    <3>1. CASE j <= k
      BY <3>1, <2>1, <2>2
    <3>2. CASE j > k
      <4>1. j + 1 \in DOMAIN r /\ r[j + 1] = s[j]
        BY <3>2, <2>1, <2>2
      <4> QED
        BY <4>1
    <3> QED
      BY <3>1, <3>2, <2>1
  <2> QED
    BY <2>3, <2>4 DEF r
<1>2. ASSUME s # <<>>, NEW j \in DOMAIN s, s[j] # Head(s)
      PROVE  \E i \in DOMAIN Tail(s) : Tail(s)[i] = s[j]
  <2>1. j - 1 \in DOMAIN Tail(s) /\ Tail(s)[j - 1] = s[j]
    BY <1>2
  <2> QED
    BY <2>1
<1> QED
  BY <1>1, <1>2

(* The times in a queue are numbers.                                       *)
LEMMA EntryTimes ==
  ASSUME NEW S, NEW s \in Seq(Entry(S))
  PROVE  /\ DOMAIN s = 1..Len(s) /\ Len(s) \in Nat
         /\ \A j \in DOMAIN s : s[j].time \in Nat /\ s[j].ev \in S
<1>1. /\ DOMAIN s = 1..Len(s) /\ Len(s) \in Nat
      /\ \A j \in DOMAIN s : s[j] \in Entry(S)
  OBVIOUS
<1> QED
  BY <1>1 DEF Entry

(* In a queue in time order, the entries ahead of a newcomer are those of  *)
(* an earlier time or of its own.                                          *)
LEMMA AheadOrdered ==
  ASSUME NEW S, NEW s \in Seq(Entry(S)), NEW t \in Nat, InTimeOrder(s)
  PROVE  \A j \in DOMAIN s : s[j].time <= t <=> j <= Ahead(s, t)
<1> DEFINE D == {j \in DOMAIN s : s[j].time <= t}
<1>1. /\ DOMAIN s = 1..Len(s) /\ Len(s) \in Nat
      /\ \A j \in DOMAIN s : s[j].time \in Nat
  BY EntryTimes
<1>2. IsFiniteSet(D) /\ Cardinality(D) \in Nat /\ Ahead(s, t) = Cardinality(D)
  <2>1. IsFiniteSet(1..Len(s))
    BY <1>1, FS_Interval
  <2>2. D \subseteq 1..Len(s)
    BY <1>1
  <2> QED
    BY <2>1, <2>2, FS_Subset, FS_CardinalityType DEF Ahead
<1>3. ASSUME NEW j \in DOMAIN s, s[j].time <= t
      PROVE  j <= Cardinality(D)
  <2>1. 1..j \subseteq D
    <3> SUFFICES ASSUME NEW k \in 1..j PROVE k \in D
      OBVIOUS
    <3>1. k \in DOMAIN s /\ k <= j
      BY <1>1
    <3>2. s[k].time <= s[j].time
      BY <1>1, <3>1 DEF InTimeOrder
    <3> QED
      BY <1>1, <1>3, <3>1, <3>2
  <2>2. j \in Nat /\ Cardinality(1..j) = j
    BY <1>1, FS_Interval
  <2> QED
    BY <1>2, <2>1, <2>2, FS_Subset
<1>4. ASSUME NEW j \in DOMAIN s, ~(s[j].time <= t)
      PROVE  ~(j <= Cardinality(D))
  <2>1. D \subseteq 1..(j - 1)
    <3> SUFFICES ASSUME NEW k \in D PROVE k \in 1..(j - 1)
      OBVIOUS
    <3>1. ~(j < k)
      BY <1>1, <1>4 DEF InTimeOrder
    <3> QED
      BY <1>1, <1>4, <3>1
  <2>2. j - 1 \in Nat /\ IsFiniteSet(1..(j - 1)) /\ Cardinality(1..(j - 1)) = j - 1
    <3>1. j - 1 \in Nat
      BY <1>1
    <3> QED
      BY <3>1, FS_Interval
  <2>3. Cardinality(D) <= j - 1
    BY <2>1, <2>2, FS_Subset
  <2> QED
    BY <1>1, <1>2, <2>2, <2>3
<1> QED
  BY <1>2, <1>3, <1>4

(* Insert keeps the queue in time order, and adds its entry and no other.  *)
LEMMA InsertOrdered ==
  ASSUME NEW S, NEW s \in Seq(Entry(S)), NEW t \in Nat, NEW e \in S,
         InTimeOrder(s)
  PROVE  /\ InTimeOrder(Insert(s, t, e))
         /\ \A i \in DOMAIN Insert(s, t, e) :
              \/ Insert(s, t, e)[i] = [time |-> t, ev |-> e]
              \/ \E j \in DOMAIN s : Insert(s, t, e)[i] = s[j]
<1> DEFINE k == Ahead(s, t)
           r == Insert(s, t, e)
           old(j) == IF j <= k THEN j ELSE j - 1
<1>1. /\ k \in 0..Len(s) /\ Len(s) \in Nat /\ DOMAIN s = 1..Len(s)
      /\ \A j \in DOMAIN s : s[j].time \in Nat
  BY AheadBound, EntryTimes
<1>2. /\ DOMAIN r = 1..(Len(s) + 1)
      /\ \A j \in 1..(Len(s) + 1) :
           r[j] = IF j <= k THEN s[j]
                  ELSE IF j = k + 1 THEN [time |-> t, ev |-> e] ELSE s[j - 1]
  BY InsertProperties
<1>3. \A j \in DOMAIN s : s[j].time <= t <=> j <= k
  BY AheadOrdered
<1> HIDE DEF k, r
<1>4. \A j \in DOMAIN r : j # k + 1 => old(j) \in DOMAIN s /\ r[j] = s[old(j)]
  BY <1>1, <1>2
<1>5. k + 1 \in DOMAIN r /\ r[k + 1] = [time |-> t, ev |-> e]
  BY <1>1, <1>2
<1>6. ASSUME NEW i \in DOMAIN r, NEW j \in DOMAIN r, i < j
      PROVE  r[i].time <= r[j].time
  <2>1. CASE i = k + 1
    <3>1. j - 1 \in DOMAIN s /\ ~(j - 1 <= k) /\ r[j] = s[j - 1]
      BY <2>1, <1>1, <1>2, <1>6
    <3>2. ~(s[j - 1].time <= t) /\ s[j - 1].time \in Nat
      BY <3>1, <1>1, <1>3
    <3> QED
      BY <2>1, <3>1, <3>2, <1>5
  <2>2. CASE j = k + 1
    <3>1. i \in DOMAIN s /\ i <= k /\ r[i] = s[i]
      BY <2>2, <1>1, <1>2, <1>6
    <3> QED
      BY <2>2, <3>1, <1>1, <1>3, <1>5
  <2>3. CASE i # k + 1 /\ j # k + 1
    <3>1. old(i) < old(j)
      BY <2>3, <1>1, <1>2, <1>6
    <3>2. /\ old(i) \in DOMAIN s /\ old(j) \in DOMAIN s
          /\ r[i] = s[old(i)] /\ r[j] = s[old(j)]
      BY <2>3, <1>4
    <3> QED
      BY <3>1, <3>2, Zenon DEF InTimeOrder
  <2> QED
    BY <2>1, <2>2, <2>3
<1> QED
  BY <1>4, <1>5, <1>6 DEF InTimeOrder, r
=============================================================================
