---------------------------- MODULE CommonLemmas ----------------------------
(***************************************************************************)
(* What the proofs of more than one part rest on: numbers and functions of *)
(* numbers; queues whose elements are distinct, the TAILQs of the program, *)
(* where a record is linked in at most one place; queues of messages, how  *)
(* many of a kind there are.                                               *)
(***************************************************************************)
EXTENDS SequenceTheorems, FiniteSetTheorems, FunctionTheorems,
        WellFoundedInduction, TLAPS

-----------------------------------------------------------------------------
(* Numbers that have a property have a least one; a function may be        *)
(* defined from its values at smaller numbers.                             *)

LEMMA LeastNumber ==
  ASSUME NEW T, T \subseteq Nat, T # {}
  PROVE  \E x \in T : \A y \in T : x <= y
<1> DEFINE R == OpToRel(<, Nat)
<1>1. IsWellFoundedOn(R, Nat)
  BY NatLessThanWellFounded
<1>2. \A x, y \in Nat : x < y => <<x, y>> \in R
  BY DEF OpToRel
<1> HIDE DEF R
<1>3. \E x \in T : \A y \in T : ~ (<<y, x>> \in R)
  BY <1>1, WFMin
<1>4. PICK x \in T : \A y \in T : ~ (<<y, x>> \in R)
  BY <1>3
<1>5. ASSUME NEW y \in T PROVE x <= y
  <2>1. ~(y < x)
    BY <1>2, <1>4
  <2> QED
    BY <2>1
<1> QED
  BY <1>5

\* A set of numbers that has 0 and with a number the next, as far as n, has
\* all numbers as far as n.
LEMMA AllNumbers ==
  ASSUME NEW n \in Nat, NEW H, 0 \in H,
         \A i \in 0..n : i < n /\ i \in H => i + 1 \in H
  PROVE  \A i \in 0..n : i \in H
<1> SUFFICES ASSUME NEW j \in 0..n, j \notin H PROVE FALSE
  OBVIOUS
<1> DEFINE T == (0..n) \ H
<1>1. T \subseteq Nat /\ T # {}
  OBVIOUS
<1>2. PICK x \in T : \A y \in T : x <= y
  BY <1>1, LeastNumber
<1>3. x # 0 /\ x \in 0..n /\ x - 1 \in 0..n /\ x - 1 < n /\ x = (x - 1) + 1
  BY <1>2
<1>4. x - 1 \in H
  <2>1. ~(x <= x - 1)
    BY <1>3
  <2> QED
    BY <1>2, <1>3, <2>1
<1> QED
  BY <1>2, <1>3, <1>4

\* The function whose value at 0 is c and whose next value is what up makes
\* of the last one.
Stepwise(g, n, c, up) ==
  \A i \in 0..n : g[i] = IF i = 0 THEN c ELSE up[<<g[i - 1], i>>]

LEMMA StepwiseExists ==
  ASSUME NEW n \in Nat, NEW V, NEW c \in V, NEW up \in [V \X (1..n) -> V]
  PROVE  \E g \in [0..n -> V] : Stepwise(g, n, c, up)
<1> DEFINE Is(g, m) == \A i \in 0..m : g[i] = IF i = 0 THEN c ELSE up[<<g[i - 1], i>>]
           H == {m \in 0..n : \E g \in [0..m -> V] : Is(g, m)}
<1>1. 0 \in H
  <2> DEFINE g == [i \in 0..0 |-> c]
  <2>1. g \in [0..0 -> V]
    OBVIOUS
  <2>2. \A i \in 0..0 : i = 0
    OBVIOUS
  <2>3. Is(g, 0)
    BY <2>2
  <2>4. 0 \in 0..n
    OBVIOUS
  <2> HIDE DEF g
  <2> QED
    BY <2>1, <2>3, <2>4
<1>2. ASSUME NEW m \in 0..n, m < n, m \in H PROVE m + 1 \in H
  <2>1. PICK g \in [0..m -> V] : Is(g, m)
    BY <1>2
  <2> DEFINE w == up[<<g[m], m + 1>>]
             h == [i \in 0..m + 1 |-> IF i <= m THEN g[i] ELSE w]
  <2>2. m + 1 \in 1..n /\ m \in 0..m /\ m + 1 \in 0..n
    BY <1>2
  <2>3. w \in V
    BY <2>1, <2>2
  <2>4. h \in [0..m + 1 -> V]
    BY <2>1, <2>3
  <2>5. ASSUME NEW i \in 0..m + 1
        PROVE  h[i] = IF i = 0 THEN c ELSE up[<<h[i - 1], i>>]
    <3>1. CASE i = 0
      <4>1. h[i] = g[i] /\ i \in 0..m
        BY <2>2, <3>1
      <4>2. g[i] = c
        BY <2>1, <3>1, <4>1
      <4> QED
        BY <3>1, <4>1, <4>2
    <3>2. CASE i # 0 /\ i <= m
      <4>1. i \in 0..m /\ i - 1 \in 0..m /\ i - 1 \in 0..m + 1 /\ i - 1 <= m
        BY <3>2
      <4>2. h[i] = g[i] /\ h[i - 1] = g[i - 1]
        BY <3>2, <4>1
      <4>3. g[i] = up[<<g[i - 1], i>>]
        BY <2>1, <3>2, <4>1
      <4> HIDE DEF h
      <4> QED
        BY <3>2, <4>2, <4>3
    <3>3. CASE i = m + 1
      <4>1. ~(i <= m) /\ i - 1 = m /\ i # 0 /\ i - 1 \in 0..m + 1 /\ i - 1 <= m
        BY <2>2, <3>3
      <4>2. h[i] = w /\ h[i - 1] = g[m]
        BY <4>1
      <4> HIDE DEF h
      <4> QED
        BY <3>3, <4>1, <4>2
    <3> QED
      BY <3>1, <3>2, <3>3
  <2>6. Is(h, m + 1)
    <3> HIDE DEF h
    <3> QED
      BY <2>5
  <2> QED
    BY <2>2, <2>4, <2>6
<1> HIDE DEF H
<1>3. n \in H
  BY <1>1, <1>2, AllNumbers
<1> QED
  BY <1>3 DEF H, Stepwise

-----------------------------------------------------------------------------
(* Queues.                                                                 *)

LEMMA RangeElements ==
  ASSUME NEW S, NEW s \in Seq(S)
  PROVE  \A x : x \in Range(s) <=> \E n \in 1..Len(s) : s[n] = x
BY DEF Range

LEMMA InjectiveElements ==
  ASSUME NEW S, NEW s \in Seq(S)
  PROVE  IsInjective(s) <=> \A m, n \in 1..Len(s) : s[m] = s[n] => m = n
BY DEF IsInjective

\* Taking the first element leaves the others, once each.
LEMMA TailOfQueue ==
  ASSUME NEW S, NEW s \in Seq(S), s # <<>>
  PROVE  /\ Tail(s) \in Seq(S) /\ Head(s) \in S
         /\ Range(s) = Range(Tail(s)) \cup {Head(s)}
         /\ IsInjective(s) => IsInjective(Tail(s)) /\ Head(s) \notin Range(Tail(s))
<1>1. /\ Tail(s) \in Seq(S) /\ Head(s) = s[1] /\ Head(s) \in S
      /\ Len(s) \in Nat \ {0} /\ Len(Tail(s)) = Len(s) - 1
      /\ \A n \in 1..Len(Tail(s)) : Tail(s)[n] = s[n + 1]
  BY EmptySeq, HeadTailProperties
<1>2. Range(s) = Range(Tail(s)) \cup {Head(s)}
  <2>1. ASSUME NEW x \in Range(s) PROVE x \in Range(Tail(s)) \cup {Head(s)}
    <3>1. PICK n \in 1..Len(s) : s[n] = x
      BY RangeElements
    <3>2. CASE n = 1
      BY <1>1, <3>1, <3>2
    <3>3. CASE n # 1
      <4>1. n - 1 \in 1..Len(Tail(s)) /\ Tail(s)[n - 1] = x
        BY <1>1, <3>1, <3>3
      <4> QED
        BY <4>1, <1>1, RangeElements
    <3> QED
      BY <3>2, <3>3
  <2>2. ASSUME NEW x \in Range(Tail(s)) PROVE x \in Range(s)
    <3>1. PICK n \in 1..Len(Tail(s)) : Tail(s)[n] = x
      BY <1>1, RangeElements
    <3>2. n + 1 \in 1..Len(s) /\ s[n + 1] = x
      BY <1>1, <3>1
    <3> QED
      BY <3>2, RangeElements
  <2>3. Head(s) \in Range(s)
    BY <1>1, RangeElements
  <2> QED
    BY <2>1, <2>2, <2>3
<1>3. ASSUME IsInjective(s)
      PROVE  IsInjective(Tail(s)) /\ Head(s) \notin Range(Tail(s))
  <2>1. \A m, n \in 1..Len(s) : s[m] = s[n] => m = n
    BY <1>3, InjectiveElements
  <2>2. \A m, n \in 1..Len(Tail(s)) : Tail(s)[m] = Tail(s)[n] => m = n
    BY <1>1, <2>1
  <2>3. \A n \in 1..Len(Tail(s)) : Tail(s)[n] # Head(s)
    BY <1>1, <2>1
  <2>4. IsInjective(Tail(s))
    BY <1>1, <2>2, InjectiveElements
  <2>5. Head(s) \notin Range(Tail(s))
    <3>1. ASSUME Head(s) \in Range(Tail(s)) PROVE FALSE
      <4>1. PICK n \in 1..Len(Tail(s)) : Tail(s)[n] = Head(s)
        BY <1>1, <3>1, RangeElements
      <4> QED
        BY <2>3, <4>1
    <3> QED
      BY <3>1
  <2> QED
    BY <2>4, <2>5
<1> QED
  BY <1>1, <1>2, <1>3

\* Returning an element that is not in the queue keeps it without repetition.
LEMMA AppendToQueue ==
  ASSUME NEW S, NEW s \in Seq(S), NEW e \in S
  PROVE  /\ Append(s, e) \in Seq(S)
         /\ Range(Append(s, e)) = Range(s) \cup {e}
         /\ IsInjective(s) /\ e \notin Range(s) => IsInjective(Append(s, e))
<1>1. /\ Append(s, e) \in Seq(S) /\ Len(Append(s, e)) = Len(s) + 1
      /\ \A n \in 1..Len(s) : Append(s, e)[n] = s[n]
      /\ Append(s, e)[Len(s) + 1] = e /\ Len(s) \in Nat
  BY AppendProperties, LenProperties
<1>2. \A n \in 1..(Len(s) + 1) : n \in 1..Len(s) \/ n = Len(s) + 1
  BY <1>1
<1>3. Range(Append(s, e)) = Range(s) \cup {e}
  <2>0. \A x : x \in Range(Append(s, e))
                 <=> \E n \in 1..Len(Append(s, e)) : Append(s, e)[n] = x
    BY <1>1, RangeElements
  <2>1. \A x : x \in Range(Append(s, e))
                 <=> \E n \in 1..(Len(s) + 1) : Append(s, e)[n] = x
    BY <1>1, <2>0
  <2>2. \A n \in 1..Len(s) : n \in 1..(Len(s) + 1)
    BY <1>1
  <2> QED
    BY <1>1, <1>2, <2>1, <2>2, RangeElements
<1>4. ASSUME IsInjective(s), e \notin Range(s) PROVE IsInjective(Append(s, e))
  <2>1. \A m, n \in 1..Len(s) : s[m] = s[n] => m = n
    BY <1>4, InjectiveElements
  <2>2. \A n \in 1..Len(s) : s[n] # e
    BY <1>4, RangeElements
  <2>3. \A m, n \in 1..(Len(s) + 1) : Append(s, e)[m] = Append(s, e)[n] => m = n
    BY <1>1, <1>2, <2>1, <2>2
  <2> QED
    BY <1>1, <2>3, InjectiveElements
<1> QED
  BY <1>1, <1>3, <1>4
-----------------------------------------------------------------------------
\* Where the messages of kind k are in the queue s.
Positions(s, k) == {i \in DOMAIN s : s[i] = k}

LEMMA PositionsFinite ==
  ASSUME NEW S, NEW s \in Seq(S), NEW k
  PROVE  IsFiniteSet(Positions(s, k)) /\ Cardinality(Positions(s, k)) \in Nat
<1>1. Positions(s, k) \in SUBSET (1..Len(s)) /\ Len(s) \in Nat
  BY LenProperties DEF Positions
<1>2. IsFiniteSet(1..Len(s))
  BY <1>1, FS_Interval
<1>3. IsFiniteSet(Positions(s, k))
  BY <1>1, <1>2, FS_Subset
<1> QED
  BY <1>3, FS_CardinalityType

\* A message sent to a queue is one more of its kind.
LEMMA PositionsAppend ==
  ASSUME NEW S, NEW s \in Seq(S), NEW e \in S, NEW k
  PROVE  Cardinality(Positions(Append(s, e), k))
           = Cardinality(Positions(s, k)) + (IF e = k THEN 1 ELSE 0)
<1>1. /\ DOMAIN Append(s, e) = 1..(Len(s) + 1) /\ DOMAIN s = 1..Len(s)
      /\ Len(s) \in Nat /\ Append(s, e)[Len(s) + 1] = e
      /\ \A n \in 1..Len(s) : Append(s, e)[n] = s[n]
  <2>1. Append(s, e) \in Seq(S) /\ Len(Append(s, e)) = Len(s) + 1
    BY AppendProperties
  <2> QED
    BY <2>1, AppendProperties, LenProperties
<1>2. 1..(Len(s) + 1) = (1..Len(s)) \cup {Len(s) + 1} /\ Len(s) + 1 \notin 1..Len(s)
  BY <1>1
<1>3. IsFiniteSet(Positions(s, k)) /\ Cardinality(Positions(s, k)) \in Nat
  BY PositionsFinite
<1>4. CASE e = k
  <2>1. Positions(Append(s, e), k) = Positions(s, k) \cup {Len(s) + 1}
    BY <1>1, <1>2, <1>4 DEF Positions
  <2>2. Len(s) + 1 \notin Positions(s, k)
    BY <1>1, <1>2 DEF Positions
  <2> QED
    BY <1>3, <1>4, <2>1, <2>2, FS_AddElement
<1>5. CASE e # k
  <2>1. Positions(Append(s, e), k) = Positions(s, k)
    BY <1>1, <1>2, <1>5 DEF Positions
  <2> QED
    BY <1>3, <1>5, <2>1
<1> QED
  BY <1>4, <1>5

\* A message received is one less of its kind.
LEMMA PositionsTail ==
  ASSUME NEW S, NEW s \in Seq(S), s # <<>>, NEW k
  PROVE  Cardinality(Positions(s, k))
           = Cardinality(Positions(Tail(s), k)) + (IF Head(s) = k THEN 1 ELSE 0)
<1>1. /\ Tail(s) \in Seq(S) /\ Head(s) = s[1] /\ Len(s) \in Nat \ {0}
      /\ DOMAIN s = 1..Len(s) /\ DOMAIN Tail(s) = 1..(Len(s) - 1)
      /\ \A n \in 1..(Len(s) - 1) : Tail(s)[n] = s[n + 1]
  <2>1. Tail(s) \in Seq(S) /\ Len(Tail(s)) = Len(s) - 1 /\ Len(s) \in Nat \ {0}
    BY EmptySeq, HeadTailProperties
  <2> QED
    BY <2>1, HeadTailProperties, LenProperties
<1> DEFINE P == Positions(Tail(s), k)
           Q == Positions(s, k) \ {1}
           f == [i \in P |-> i + 1]
<1>2. IsFiniteSet(P) /\ Cardinality(P) \in Nat
  BY <1>1, PositionsFinite
<1>3. \A i \in P : i \in Nat /\ i + 1 \in Q
  BY <1>1 DEF Positions
<1>4. \A j \in Q : j - 1 \in P /\ (j - 1) + 1 = j
  BY <1>1 DEF Positions
<1>5. f \in Bijection(P, Q)
  <2>1. f \in [P -> Q]
    BY <1>3
  <2>2. \A i, j \in P : f[i] = f[j] => i = j
    BY <1>3
  <2>3. \A j \in Q : \E i \in P : f[i] = j
    BY <1>4
  <2> HIDE DEF P, Q, f
  <2> QED
    BY <2>1, <2>2, <2>3, Fun_IsBij
<1>6. IsFiniteSet(Q) /\ Cardinality(Q) = Cardinality(P)
  <2> HIDE DEF P, Q, f
  <2>1. ExistsBijection(P, Q)
    BY <1>5 DEF ExistsBijection
  <2> QED
    BY <1>2, <2>1, FS_Bijection
<1>7. CASE Head(s) = k
  <2>1. Positions(s, k) = Q \cup {1} /\ 1 \notin Q
    BY <1>1, <1>7 DEF Positions
  <2> HIDE DEF P, Q
  <2>2. Cardinality(Q \cup {1}) = Cardinality(Q) + 1
    BY <1>6, <2>1, FS_AddElement
  <2> QED
    BY <1>6, <1>7, <2>1, <2>2 DEF P
<1>8. CASE Head(s) # k
  <2>1. Positions(s, k) = Q
    BY <1>1, <1>8 DEF Positions
  <2> HIDE DEF Q
  <2> QED
    BY <1>2, <1>6, <1>8, <2>1
<1> QED
  BY <1>7, <1>8
-----------------------------------------------------------------------------
\* Short sequences written out.
LEMMA PairSeq ==
  ASSUME NEW S, NEW s \in Seq(S), Len(s) = 2 PROVE s = <<s[1], s[2]>>
<1> DEFINE t == <<s[1], s[2]>>
<1>1. s[1] \in S /\ s[2] \in S
  BY ElementOfSeq
<1>2. t \in Seq(S) /\ Len(t) = 2 /\ t[1] = s[1] /\ t[2] = s[2]
  BY <1>1
<1> HIDE DEF t
<1>3. \A i \in 1..Len(s) : s[i] = t[i]
  BY <1>2
<1>4. s = t
  BY <1>2, <1>3, SeqEqual
<1> QED
  BY <1>4 DEF t

LEMMA TripleSeq ==
  ASSUME NEW S, NEW s \in Seq(S), Len(s) = 3 PROVE s = <<s[1], s[2], s[3]>>
<1> DEFINE t == <<s[1], s[2], s[3]>>
<1>1. s[1] \in S /\ s[2] \in S /\ s[3] \in S
  <2>1. 1 \in 1..Len(s) /\ 2 \in 1..Len(s) /\ 3 \in 1..Len(s)
    OBVIOUS
  <2> QED
    BY <2>1, ElementOfSeq
<1>2. t \in Seq(S) /\ Len(t) = 3 /\ t[1] = s[1] /\ t[2] = s[2] /\ t[3] = s[3]
  BY <1>1
<1> HIDE DEF t
<1>3. \A i \in 1..Len(s) : s[i] = t[i]
  BY <1>2
<1>4. s = t
  BY <1>2, <1>3, SeqEqual
<1> QED
  BY <1>4 DEF t

LEMMA ConcatPair ==
  ASSUME NEW e, NEW f
  PROVE  <<e>> \o <<f>> = <<e, f>> /\ Append(<<e>>, f) = <<e, f>>
<1>1. <<e>> \in Seq({e, f}) /\ <<f>> \in Seq({e, f}) /\ Len(<<e>>) = 1
      /\ Len(<<f>>) = 1 /\ <<e>>[1] = e /\ <<f>>[1] = f
  OBVIOUS
<1>2. LET s == <<e>> \o <<f>> IN s \in Seq({e, f}) /\ Len(s) = 2 /\ s[1] = e /\ s[2] = f
  BY <1>1, ConcatProperties
<1>3. Append(<<e>>, f) = <<e>> \o <<f>>
  BY <1>1, AppendIsConcat
<1> QED
  BY <1>2, <1>3, PairSeq

LEMMA ConcatTriple ==
  ASSUME NEW e, NEW f, NEW g
  PROVE  <<e>> \o <<f, g>> = <<e, f, g>> /\ <<e, f>> \o <<g>> = <<e, f, g>>
<1> DEFINE S == {e, f, g}
<1>1. /\ <<e>> \in Seq(S) /\ Len(<<e>>) = 1 /\ <<e>>[1] = e
      /\ <<g>> \in Seq(S) /\ Len(<<g>>) = 1 /\ <<g>>[1] = g
  OBVIOUS
<1>2. /\ <<e, f>> \in Seq(S) /\ Len(<<e, f>>) = 2
      /\ <<e, f>>[1] = e /\ <<e, f>>[2] = f
  OBVIOUS
<1>3. /\ <<f, g>> \in Seq(S) /\ Len(<<f, g>>) = 2
      /\ <<f, g>>[1] = f /\ <<f, g>>[2] = g
  OBVIOUS
<1> HIDE DEF S
<1>4. LET s == <<e>> \o <<f, g>>
      IN  s \in Seq(S) /\ Len(s) = 3 /\ s[1] = e /\ s[2] = f /\ s[3] = g
  BY <1>1, <1>3, ConcatProperties
<1>5. LET s == <<e, f>> \o <<g>>
      IN  s \in Seq(S) /\ Len(s) = 3 /\ s[1] = e /\ s[2] = f /\ s[3] = g
  BY <1>1, <1>2, ConcatProperties
<1> QED
  BY <1>4, <1>5, TripleSeq
=============================================================================
